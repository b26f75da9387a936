------------------------ MODULE WebhookServerProofs ------------------------
(***************************************************************************)
(* The webhook server, for any number of requests, sources and clients:    *)
(* the limiter's rate, and that events stem from permitted requests only.  *)
(***************************************************************************)
EXTENDS WebhookServer, FiniteSetTheorems, TLAPS

(* Every element of an adapter's channel, or of what was read from it, is  *)
(* a request that was answered and was permitted.                          *)
Clean(q) == \A i \in DOMAIN q : stage[q[i]] = "done" /\ Permitted(kind[q[i]])

AuthInv ==
    /\ env \in Environments /\ auth = NewWebhookAuth(env)
    /\ kind \in [Requests -> Kinds \cup {None}]
    /\ stage \in [Requests -> Stages]
    /\ events \in [Sources -> Seq(Requests)]
    /\ taken \in [Sources -> Seq(Requests)]
    /\ \A r \in Requests : stage[r] = "handle" => Permitted(kind[r])
    /\ \A s \in Sources : Clean(events[s]) /\ Clean(taken[s])

(* Authenticate asks for what the environment asks for. *)
LEMMA AuthenticateSound ==
    ASSUME AuthInv, NEW k, Authenticate(k)
    PROVE  Permitted(k)
<1>1. CASE env.disabled
  BY <1>1, Zenon DEF Permitted
<1>2. CASE ~env.disabled
  <2>1. /\ auth.authDisabled = FALSE /\ auth.token = env.token
        /\ auth.allowedIPs = env.allowedIPs /\ auth.proxies = env.proxies
    BY <1>2, Zenon DEF AuthInv, NewWebhookAuth
  <2>2. GetClientIP(k) \in Origin(k)
    BY <2>1, Zenon DEF GetClientIP, Origin
  <2> QED  BY <2>1, <2>2, Zenon DEF Authenticate, Permitted
<1> QED  BY <1>1, <1>2, Zenon

(* A step of request r changes nothing for the requests already answered. *)
LEMMA CleanKept ==
    ASSUME AuthInv, UNCHANGED env, NEW r \in Requests, stage[r] # "done",
           \A x \in Requests \ {r} : stage'[x] = stage[x] /\ kind'[x] = kind[x],
           NEW q \in Seq(Requests), Clean(q)
    PROVE  Clean(q)'
<1>1. ASSUME NEW i \in DOMAIN q
      PROVE  stage'[q[i]] = "done" /\ Permitted(kind[q[i]])'
  <2>1. q[i] \in Requests \ {r} /\ Permitted(kind[q[i]])
    BY <1>1 DEF Clean
  <2>2. kind'[q[i]] = kind[q[i]] /\ stage'[q[i]] = "done"
    BY <1>1, <2>1, Zenon DEF Clean
  <2> QED  BY <2>1, <2>2, Zenon DEF Permitted, Origin
<1> QED  BY <1>1, Zenon DEF Clean

(* No request has been sent at the start. *)
LEMMA InitAuthInv == Init => AuthInv
  BY DEF Init, AuthInv, Stages, Clean

(* The steps of a request. *)
LEMMA RequestAuthInv ==
    ASSUME AuthInv, NEW r \in Requests,
           Handle(r) \/ \E k \in Kinds : Allow(r, k) \/ TooManyRequests(r, k)
    PROVE  AuthInv'
<1>1. UNCHANGED <<env, auth, taken>>
  BY ZenonT(30) DEF Handle, RequireAuth, Unauthorized, Refuse, Send, BufferFull, SendPanics,
         Allow, TooManyRequests, server, adapters
<1>2. /\ stage[r] # "done"
      /\ \E l \in Stages : /\ stage' = [stage EXCEPT ![r] = l]
                           /\ l = "handle" => Permitted(kind'[r])
      /\ kind' = kind \/ \E k \in Kinds : kind' = [kind EXCEPT ![r] = k]
  <2>1. CASE RequireAuth(r)
    BY <2>1, AuthenticateSound, Zenon DEF RequireAuth, Stages
  <2>2. CASE Unauthorized(r) \/ Refuse(r) \/ Send(r) \/ BufferFull(r)
    BY <2>2, ZenonT(60) DEF Unauthorized, Refuse, Send, BufferFull, Answer, Stages
  <2>3. CASE SendPanics(r)
    BY <2>3, Zenon DEF SendPanics, Stages
  <2>4. ASSUME NEW k \in Kinds, Allow(r, k) \/ TooManyRequests(r, k)
        PROVE  /\ stage[r] = "unsent"
               /\ stage' = [stage EXCEPT ![r] = "auth"] \/ stage' = [stage EXCEPT ![r] = "done"]
               /\ kind' = [kind EXCEPT ![r] = k]
    BY <2>4, ZenonT(60) DEF Allow, TooManyRequests, Arrive, Answer
  <2> QED  BY <2>1, <2>2, <2>3, <2>4, Zenon DEF Handle, Stages
<1>3. /\ kind' \in [Requests -> Kinds \cup {None}]
      /\ stage' \in [Requests -> Stages]
      /\ \A x \in Requests \ {r} : stage'[x] = stage[x] /\ kind'[x] = kind[x]
  BY <1>2, Zenon DEF AuthInv
<1>4. ASSUME NEW x \in Requests, stage'[x] = "handle"
      PROVE  Permitted(kind[x])'
  <2>1. Permitted(kind'[x])
    BY <1>2, <1>3, <1>4, Zenon DEF AuthInv
  <2> QED  BY <1>1, <2>1, Zenon DEF Permitted, Origin
<1>5. ASSUME NEW s \in Sources
      PROVE  Clean(taken[s])' /\ Clean(events[s])' /\ events'[s] \in Seq(Requests)
  <2>1. /\ events[s] \in Seq(Requests) /\ Clean(events[s])
        /\ taken[s] \in Seq(Requests) /\ Clean(taken[s])
    BY Zenon DEF AuthInv
  <2>2. \A q \in Seq(Requests) : Clean(q) =>
           \A i \in DOMAIN q : stage'[q[i]] = "done" /\ Permitted(kind[q[i]])'
    BY <1>1, <1>2, <1>3, CleanKept, Zenon DEF Clean
  <2>3. Clean(taken[s])'
    BY <1>1, <2>1, <2>2, Zenon DEF Clean
  <2>4. CASE events' = events
    BY <2>1, <2>2, <2>3, <2>4, Zenon DEF Clean
  <2>5. CASE Send(r)
    <3>1. /\ stage[r] = "handle" /\ stage'[r] = "done" /\ kind' = kind
          /\ events'[s] = events[s] \/ events'[s] = Append(events[s], r)
      BY <2>5, Zenon DEF Send, Answer, AuthInv
    <3>2. Permitted(kind[r])'
      <4>1. Permitted(kind[r])
        BY <3>1, Zenon DEF AuthInv
      <4> QED  BY <1>1, <3>1, <4>1, Zenon DEF Permitted, Origin
    <3>3. CASE events'[s] = events[s]
      BY <2>1, <2>2, <2>3, <3>3 DEF Clean
    <3>4. CASE events'[s] = Append(events[s], r)
      <4>1. ASSUME NEW i \in DOMAIN events'[s]
            PROVE  events'[s][i] = r \/ (i \in DOMAIN events[s] /\ events'[s][i] = events[s][i])
        BY <2>1, <3>4
      <4>2. \A i \in DOMAIN events'[s] :
               stage'[events'[s][i]] = "done" /\ Permitted(kind[events[s][i]])'
        BY <2>1, <2>2, <3>1, <3>2, <4>1
      <4> QED  BY <2>1, <2>3, <3>4, <4>2 DEF Clean
    <3> QED  BY <3>1, <3>3, <3>4, Zenon
  <2> QED  BY <2>1, <2>3, <2>4, <2>5, ZenonT(30)
     DEF Handle, RequireAuth, Unauthorized, Refuse, BufferFull, SendPanics, Allow,
         TooManyRequests, adapters
<1>6. events' \in [Sources -> Seq(Requests)]
  <2>1. events' = [s \in Sources |-> events'[s]]
    BY ZenonT(60) DEF Handle, RequireAuth, Unauthorized, Refuse, Send, BufferFull, SendPanics,
           Allow, TooManyRequests, adapters, AuthInv
  <2> QED  BY <1>5, <2>1, Zenon
<1> QED  BY <1>1, <1>3, <1>4, <1>5, <1>6, Zenon DEF AuthInv

(* Every step keeps the invariant; processEvents moves a permitted request *)
(* from the channel to what was read.                                      *)
LEMMA NextAuthInv == AuthInv /\ [Next]_vars => AuthInv'
<1> SUFFICES ASSUME AuthInv, [Next]_vars PROVE AuthInv'
  BY Zenon
<1>1. ASSUME NEW s \in Sources, ReadEvent(s)
      PROVE  AuthInv'
  <2>1. events[s] \in Seq(Requests) /\ taken[s] \in Seq(Requests) /\ events[s] # <<>>
    BY <1>1, Zenon DEF AuthInv, ReadEvent
  <2>2. /\ events' = [events EXCEPT ![s] = Tail(events[s])]
        /\ taken' = [taken EXCEPT ![s] = Append(taken[s], Head(events[s]))]
        /\ UNCHANGED <<env, auth, kind, stage>>
    BY <1>1, Zenon DEF ReadEvent, server, requests
  <2>3. /\ \A i \in DOMAIN Tail(events[s]) :
              i + 1 \in DOMAIN events[s] /\ Tail(events[s])[i] = events[s][i + 1]
        /\ Tail(events[s]) \in Seq(Requests)
    BY <2>1
  <2>4. /\ \A i \in DOMAIN Append(taken[s], Head(events[s])) :
              LET h == Append(taken[s], Head(events[s]))[i]
              IN  h = events[s][1] \/ (i \in DOMAIN taken[s] /\ h = taken[s][i])
        /\ 1 \in DOMAIN events[s]
        /\ Append(taken[s], Head(events[s])) \in Seq(Requests)
    BY <2>1
  <2>5. Clean(Tail(events[s])) /\ Clean(Append(taken[s], Head(events[s])))
    BY <2>3, <2>4 DEF AuthInv, Clean
  <2>6. ASSUME NEW t \in Sources
        PROVE  Clean(events'[t]) /\ Clean(taken'[t])
    BY <2>2, <2>5, Zenon DEF AuthInv
  <2>7. ASSUME NEW q, Clean(q) PROVE Clean(q)'
    BY <2>2, <2>7, Zenon DEF Clean, Permitted, Origin
  <2>8. \A r \in Requests : (stage[r] = "handle" => Permitted(kind[r]))'
    BY <2>2, Zenon DEF AuthInv, Permitted, Origin
  <2> QED  BY <2>2, <2>3, <2>4, <2>6, <2>7, <2>8, Zenon DEF AuthInv
<1>2. CASE UNCHANGED <<server, events, taken, kind, stage>>
  <2>1. ASSUME NEW k, Permitted(k) PROVE Permitted(k)'
    BY <1>2, <2>1, Zenon DEF Permitted, Origin, server
  <2>2. ASSUME NEW q, Clean(q) PROVE Clean(q)'
    BY <1>2, <2>1, <2>2, Zenon DEF Clean
  <2> QED  BY <1>2, <2>1, <2>2, Zenon DEF AuthInv, server
<1>3. CASE Tick \/ Cleanup \/ (\E s \in Sources : StartAdapter(s) \/ StopAdapter(s))
           \/ UNCHANGED vars
  BY <1>2, <1>3, Zenon DEF Tick, Cleanup, StartAdapter, StopAdapter, vars, server, adapters,
                    requests
<1> QED  BY <1>1, <1>3, RequestAuthInv, Zenon DEF Next

(* Where the elements of a concatenation come from. *)
LEMMA ConcatElement ==
    ASSUME NEW p \in Seq(Requests), NEW q \in Seq(Requests), NEW i \in DOMAIN (p \o q)
    PROVE  \/ i \in DOMAIN p /\ (p \o q)[i] = p[i]
           \/ i - Len(p) \in DOMAIN q /\ (p \o q)[i] = q[i - Len(p)]
<1>1. Len(p) \in Nat /\ DOMAIN p = 1..Len(p) /\ Len(q) \in Nat /\ DOMAIN q = 1..Len(q)
  OBVIOUS
<1>2. p \o q \in Seq(Requests) /\ Len(p \o q) = Len(p) + Len(q)
  OBVIOUS
<1>3. i \in 1..(Len(p) + Len(q))
  BY <1>2
<1>4. (p \o q)[i] = IF i <= Len(p) THEN p[i] ELSE q[i - Len(p)]
  BY <1>3
<1>5. i \in 1..Len(p) \/ i - Len(p) \in 1..Len(q)
  BY <1>1, <1>3
<1> QED  BY <1>1, <1>3, <1>4, <1>5

(* An event of an adapter stems from a request that met every check the    *)
(* environment asks for, however requests, the reader and the orchestrator *)
(* interleave (WebhookAuth.Authenticate, RequireAuth).                     *)
THEOREM EventsAuthorised == Spec => []Authorised
<1>1. AuthInv => Authorised
  <2> SUFFICES ASSUME AuthInv, NEW s \in Sources, NEW r \in Accepted(s)
               PROVE  Permitted(kind[r])
    BY Zenon DEF Authorised
  <2>0. PICK i \in DOMAIN (taken[s] \o events[s]) : (taken[s] \o events[s])[i] = r
    BY Zenon DEF Accepted
  <2>1. taken[s] \in Seq(Requests) /\ events[s] \in Seq(Requests)
    BY Zenon DEF AuthInv
  <2>2. \/ i \in DOMAIN taken[s] /\ r = taken[s][i]
        \/ i - Len(taken[s]) \in DOMAIN events[s] /\ r = events[s][i - Len(taken[s])]
    BY <2>0, <2>1, ConcatElement, Zenon
  <2> QED  BY <2>2, Zenon DEF AuthInv, Clean
<1> QED  BY InitAuthInv, NextAuthInv, <1>1, PTL DEF Spec

-----------------------------------------------------------------------------
(* The rate limiter.  What a key has let pass since a time t and what its  *)
(* limiter holds now together do not exceed what a full limiter holds and  *)
(* the time since t restores.  A limiter that has been idle for a second   *)
(* is full, so cleanup takes nothing away that a new one would give again: *)
(* a key without a limiter has let pass no more than the time restores.    *)

Since(key, t) == {c \in admitted : c.key = key /\ t <= c.at}

Level == [level : Nat, seen : Nat]

Filled(l) == /\ l.level <= Second /\ l.seen <= now
             /\ l.level = Second \/ l.level >= now - l.seen

Spent(key) ==
    \A t \in 0 .. now :
        IF key \in DOMAIN limiters
        THEN Grain * Cardinality(Since(key, t)) + limiters[key].level <= Second + (now - t)
        ELSE Grain * Cardinality(Since(key, t)) <= now - t

RateInv ==
    /\ now \in Nat
    /\ limiters \in [DOMAIN limiters -> Level]
    /\ \A key \in DOMAIN limiters : Filled(limiters[key])
    /\ IsFiniteSet(admitted)
    /\ \A a \in admitted : a.at \in 0 .. now
    /\ \A key : Spent(key)
    /\ RateHeld

(* A second is at least one step of the clock (NewPerKeyRateLimiter). *)
LEMMA SecondPositive == Second \in Nat /\ Grain \in Nat /\ Second >= Grain
<1>1. MaxPerSec \in Nat /\ MaxPerSec >= 1
  BY BoundAssumption DEF MaxPerSec
<1> QED  BY <1>1, TimeAssumption DEF Second

(* The price of one request more. *)
LEMMA Price ==
    ASSUME NEW n \in Nat
    PROVE  Grain * n \in Nat /\ Grain * (n + 1) = Grain * n + Grain
  BY TimeAssumption

(* What has passed is finite, and empty if nothing passed since. *)
LEMMA SinceSize ==
    ASSUME RateInv, NEW key, NEW t
    PROVE  /\ IsFiniteSet(Since(key, t)) /\ Cardinality(Since(key, t)) \in Nat
           /\ (\A c \in admitted : c.key = key => ~(t <= c.at)) =>
                 Cardinality(Since(key, t)) = 0
<1>1. Since(key, t) \subseteq admitted /\ IsFiniteSet(admitted)
  BY Zenon DEF Since, RateInv
<1>2. IsFiniteSet(Since(key, t))
  BY <1>1, FS_Subset, Zenon
<1>3. Cardinality(Since(key, t)) \in Nat
  BY <1>2, FS_CardinalityType, Zenon
<1>4. ASSUME \A c \in admitted : c.key = key => ~(t <= c.at)
      PROVE  Cardinality(Since(key, t)) = 0
  <2>1. Since(key, t) = {}
    BY <1>4, Zenon DEF Since
  <2> QED  BY <2>1, FS_EmptySet, Zenon
<1> QED  BY <1>2, <1>3, <1>4, Zenon

(* Nothing has passed at the start. *)
LEMMA InitRateInv == Init => RateInv
<1> SUFFICES ASSUME Init PROVE RateInv
  BY Zenon
<1>1. DOMAIN limiters = {} /\ limiters \in [DOMAIN limiters -> Level]
  BY DEF Init
<1>2. IsFiniteSet(admitted) /\ admitted = {} /\ now = 0
  BY FS_EmptySet, Zenon DEF Init
<1>3. ASSUME NEW key PROVE Spent(key)
  <2>1. \A t : Cardinality(Since(key, t)) = 0
    <3>1. \A t : Since(key, t) = {}
      BY <1>2, Zenon DEF Since
    <3> QED  BY <3>1, FS_EmptySet, Zenon
  <2>2. Grain * 0 <= 0 - 0
    BY TimeAssumption
  <2>3. ASSUME NEW t \in 0 .. now PROVE Grain * Cardinality(Since(key, t)) <= now - t
    <3>1. t = 0 /\ now = 0
      BY <1>2, <2>3
    <3> QED  BY <2>1, <2>2, <3>1, Zenon
  <2> QED  BY <1>1, <2>3, Zenon DEF Spent
<1> QED  BY <1>1, <1>2, <1>3 DEF RateInv, RateHeld

(* Time passes. *)
LEMMA TickRateInv == ASSUME RateInv, Tick PROVE RateInv'
<1>1. /\ now' = now + 1 /\ now \in Nat /\ UNCHANGED admitted
      /\ limiters' = [k \in DOMAIN limiters |->
                        [limiters[k] EXCEPT !.level = IF limiters[k].level < Second
                                                      THEN limiters[k].level + 1
                                                      ELSE limiters[k].level]]
  BY Zenon DEF Tick, RateInv
<1>2. /\ DOMAIN limiters' = DOMAIN limiters
      /\ \A k \in DOMAIN limiters :
            /\ limiters[k] \in Level
            /\ limiters'[k] = [level |-> IF limiters[k].level < Second THEN limiters[k].level + 1
                                         ELSE limiters[k].level,
                               seen |-> limiters[k].seen]
  BY <1>1 DEF RateInv, Level
<1>3. /\ limiters' \in [DOMAIN limiters' -> Level]
      /\ \A k \in DOMAIN limiters : /\ limiters'[k].level \in Nat
                                    /\ limiters'[k].level <= limiters[k].level + 1
                                    /\ limiters'[k].level <= Second
  <2>1. ASSUME NEW k \in DOMAIN limiters
        PROVE  /\ limiters'[k] \in Level /\ limiters'[k].level \in Nat
               /\ limiters'[k].level <= limiters[k].level + 1
               /\ limiters'[k].level <= Second
    BY <1>2, SecondPositive DEF Level, RateInv, Filled
  <2>2. limiters' = [k \in DOMAIN limiters' |-> limiters'[k]]
    BY <1>1, Zenon
  <2> QED  BY <1>2, <2>1, <2>2, Zenon
<1>4. \A k \in DOMAIN limiters' : Filled(limiters[k])'
  <2> SUFFICES ASSUME NEW k \in DOMAIN limiters PROVE Filled(limiters[k])'
    BY <1>2, Zenon
  <2>1. PICK l \in Level : l = limiters[k] /\ Filled(l)
    BY <1>2, Zenon DEF RateInv
  <2>2. limiters'[k] = [level |-> IF l.level < Second THEN l.level + 1 ELSE l.level,
                        seen |-> l.seen]
    BY <1>2, <2>1, Zenon
  <2> QED  BY <1>1, <2>1, <2>2, SecondPositive DEF Filled, Level
<1>5. ASSUME NEW key PROVE Spent(key)'
  <2>1. ASSUME NEW t \in 0 .. now + 1
        PROVE  IF key \in DOMAIN limiters
               THEN Grain * Cardinality(Since(key, t)) + limiters'[key].level <= Second + ((now + 1) - t)
               ELSE Grain * Cardinality(Since(key, t)) <= (now + 1) - t
    <3>1. PICK n \in Nat : n = Cardinality(Since(key, t))
      BY SinceSize, Zenon
    <3>2. PICK g \in Nat : g = Grain * n
      BY Price, Zenon
    <3>3. CASE t <= now
      <4>1. t \in 0 .. now
        BY <1>1, <3>3
      <4>2. IF key \in DOMAIN limiters THEN g + limiters[key].level <= Second + (now - t)
            ELSE g <= now - t
        BY <3>1, <3>2, <4>1, Zenon DEF RateInv, Spent
      <4>3. CASE key \in DOMAIN limiters
        <5>1. limiters[key].level \in Nat
          BY <1>2, <4>3 DEF Level
        <5>2. g + limiters'[key].level <= Second + ((now + 1) - t)
          BY <1>1, <1>3, <4>1, <4>2, <4>3, <5>1, SecondPositive, SMTT(30)
        <5> QED  BY <3>1, <3>2, <4>3, <5>2, Zenon
      <4>4. CASE key \notin DOMAIN limiters
        <5>1. g <= (now + 1) - t
          BY <1>1, <4>1, <4>2, <4>4
        <5> QED  BY <3>1, <3>2, <4>4, <5>1, Zenon
      <4> QED  BY <4>3, <4>4, Zenon
    <3>4. CASE t = now + 1
      <4>1. \A c \in admitted : ~(t <= c.at)
        BY <1>1, <3>4 DEF RateInv
      <4>2. n = 0 /\ g = 0
        <5>1. n = 0
          BY <3>1, <4>1, SinceSize, Zenon
        <5> QED  BY <3>2, <5>1, TimeAssumption
      <4>3. key \in DOMAIN limiters => g + limiters'[key].level <= Second + ((now + 1) - t)
        <5> SUFFICES ASSUME key \in DOMAIN limiters
                     PROVE  g + limiters'[key].level <= Second + ((now + 1) - t)
          BY Zenon
        <5>1. limiters'[key].level \in Nat /\ limiters'[key].level <= Second
          BY <1>3, Zenon
        <5> QED  BY <1>1, <3>4, <4>2, <5>1, SecondPositive
      <4>4. g <= (now + 1) - t
        BY <1>1, <3>4, <4>2
      <4> QED  BY <3>1, <3>2, <4>3, <4>4, Zenon
    <3> QED  BY <1>1, <3>3, <3>4
  <2>2. \A t : Since(key, t)' = Since(key, t)
    BY <1>1, Zenon DEF Since
  <2>3. ASSUME NEW t \in 0 .. now'
        PROVE  IF key \in DOMAIN limiters'
               THEN Grain * Cardinality(Since(key, t)') + limiters'[key].level <= Second + (now' - t)
               ELSE Grain * Cardinality(Since(key, t)') <= now' - t
    <3>1. now' = now + 1 /\ DOMAIN limiters' = DOMAIN limiters
      BY <1>1, <1>2, Zenon
    <3> QED  BY <2>1, <2>2, <3>1, Zenon
  <2> QED  BY <2>3, Zenon DEF Spent
<1>6. \A a \in admitted' : a.at \in 0 .. now'
  BY <1>1 DEF RateInv
<1>7. RateHeld'
  BY <1>1, Zenon DEF RateInv, RateHeld, Passed
<1>8. now' \in Nat
  BY <1>1
<1>9. IsFiniteSet(admitted')
  BY <1>1, Zenon DEF RateInv
<1> QED  BY <1>3, <1>4, <1>5, <1>6, <1>7, <1>8, <1>9, Zenon DEF RateInv

(* cleanup removes full limiters only. *)
LEMMA CleanupRateInv == ASSUME RateInv, Cleanup PROVE RateInv'
<1> DEFINE idle == {k \in DOMAIN limiters : now - limiters[k].seen > EntryTTL}
<1>1. /\ limiters' = [k \in DOMAIN limiters \ idle |-> limiters[k]]
      /\ UNCHANGED <<now, admitted>>
  BY Zenon DEF Cleanup
<1>2. ASSUME NEW k \in idle PROVE limiters[k].level = Second
  <2>1. PICK l \in Level : l = limiters[k] /\ Filled(l) /\ now - l.seen > EntryTTL
    BY <1>2, Zenon DEF RateInv
  <2> QED  BY <2>1, SecondPositive, TimeAssumption DEF Filled, Level, RateInv
<1>3. ASSUME NEW key PROVE Spent(key)'
  <2>1. ASSUME NEW t \in 0 .. now, key \in idle
        PROVE  Grain * Cardinality(Since(key, t)) <= now - t
    <3>1. PICK n \in Nat : n = Cardinality(Since(key, t))
      BY SinceSize, Zenon
    <3>2. PICK g \in Nat : g = Grain * n
      BY Price, Zenon
    <3>3. g + Second <= Second + (now - t)
      BY <1>2, <2>1, <3>1, <3>2, Zenon DEF RateInv, Spent
    <3>4. g <= now - t
      BY <3>3, SecondPositive DEF RateInv
    <3> QED  BY <3>1, <3>2, <3>4, Zenon
  <2>2. \A t : Since(key, t)' = Since(key, t)
    BY <1>1, Zenon DEF Since
  <2>3. Spent(key)
    BY Zenon DEF RateInv
  <2> QED  BY <1>1, <2>1, <2>2, <2>3, Zenon DEF Spent, Since
<1>4. /\ limiters' \in [DOMAIN limiters' -> Level]
      /\ \A k \in DOMAIN limiters' : Filled(limiters[k])'
  BY <1>1, Zenon DEF RateInv, Filled
<1> QED  BY <1>1, <1>3, <1>4, Zenon DEF RateInv, RateHeld, Passed

(* Allow finds or makes a limiter: what passed since t and what the        *)
(* limiter holds do not exceed the bound.                                  *)
LEMMA LimiterBound ==
    ASSUME RateInv, NEW key
    PROVE  /\ Limiter(key) \in Level /\ Limiter(key).seen = now
           /\ Limiter(key).level <= Second
           /\ \A t \in 0 .. now :
                 Grain * Cardinality(Since(key, t)) + Limiter(key).level <= Second + (now - t)
<1>1. CASE key \in DOMAIN limiters
  <2>1. limiters[key] \in Level /\ Filled(limiters[key]) /\ now \in Nat
    BY <1>1, Zenon DEF RateInv
  <2>2. Limiter(key) = [level |-> limiters[key].level, seen |-> now]
    BY <1>1, <2>1 DEF Limiter, Level
  <2>3. Limiter(key).level = limiters[key].level
    BY <2>2
  <2>4. Limiter(key) \in Level /\ Limiter(key).seen = now /\ Limiter(key).level <= Second
    BY <2>1, <2>2 DEF Level, Filled
  <2>5. Spent(key)
    BY Zenon DEF RateInv
  <2> QED  BY <1>1, <2>3, <2>4, <2>5, Zenon DEF Spent
<1>2. CASE key \notin DOMAIN limiters
  <2>1. Limiter(key) = [level |-> Second, seen |-> now] /\ now \in Nat
    BY <1>2, Zenon DEF Limiter, RateInv
  <2>2. Limiter(key).level = Second /\ Limiter(key).seen = now /\ Limiter(key) \in Level
    BY <2>1, SecondPositive DEF Level
  <2>3. ASSUME NEW t \in 0 .. now
        PROVE  Grain * Cardinality(Since(key, t)) + Second <= Second + (now - t)
    <3>1. PICK n \in Nat : n = Cardinality(Since(key, t))
      BY SinceSize, Zenon
    <3>2. PICK g \in Nat : g = Grain * n
      BY Price, Zenon
    <3>3. g <= now - t
      BY <1>2, <3>1, <3>2, Zenon DEF RateInv, Spent
    <3>4. g + Second <= Second + (now - t)
      BY <2>1, <3>3, SecondPositive
    <3> QED  BY <3>1, <3>2, <3>4, Zenon
  <2> QED  BY <2>2, <2>3, SecondPositive
<1> QED  BY <1>1, <1>2, Zenon

(* A request passes and pays a token. *)
LEMMA AllowRateInv ==
    ASSUME RateInv, NEW r, NEW key, Limiter(key).level >= Grain,
           limiters' = [x \in DOMAIN limiters \cup {key} |->
                          IF x = key THEN [Limiter(key) EXCEPT !.level = Limiter(key).level - Grain]
                          ELSE limiters[x]],
           admitted' = admitted \cup {[req |-> r, key |-> key, at |-> now]},
           UNCHANGED now
    PROVE  RateInv'
<1>1. PICK l \in Level : /\ l = Limiter(key) /\ l.seen = now /\ l.level <= Second
                         /\ \A t \in 0 .. now : Grain * Cardinality(Since(key, t)) + l.level
                                                  <= Second + (now - t)
  BY LimiterBound, Zenon
<1>2. PICK e : e = [req |-> r, key |-> key, at |-> now]
  BY Zenon
<1>3. e.key = key /\ e.at = now /\ admitted' = admitted \cup {e} /\ now' = now /\ now \in Nat
  BY <1>2, Zenon DEF RateInv
<1>4. /\ [l EXCEPT !.level = l.level - Grain] = [level |-> l.level - Grain, seen |-> now]
      /\ l.level - Grain \in Nat /\ l.level - Grain <= Second /\ l.level \in Nat
  BY <1>1, SecondPositive DEF Level
<1>5. PICK m \in Level : m = [level |-> l.level - Grain, seen |-> now]
  BY <1>3, <1>4 DEF Level
<1>6. m.level = l.level - Grain /\ m.seen = now
  BY <1>5
<1>7. limiters' = [x \in DOMAIN limiters \cup {key} |-> IF x = key THEN m ELSE limiters[x]]
  BY <1>1, <1>4, <1>5, Zenon
<1>8. limiters' \in [DOMAIN limiters' -> Level]
  BY <1>7, Zenon DEF RateInv
<1>9. \A x \in DOMAIN limiters' : Filled(limiters[x])'
  <2>1. m.level <= Second /\ m.seen <= now /\ (m.level = Second \/ m.level >= now - m.seen)
    BY <1>3, <1>4, <1>6
  <2>2. \A x \in DOMAIN limiters : Filled(limiters[x])
    BY Zenon DEF RateInv
  <2> QED  BY <1>3, <1>7, <2>1, <2>2, Zenon DEF Filled
<1>10. IsFiniteSet(admitted')
  BY <1>3, FS_AddElement DEF RateInv
<1>11. \A a \in admitted' : a.at \in 0 .. now'
  BY <1>3 DEF RateInv
<1>12. \A x, t : x # key => Since(x, t)' = Since(x, t)
  BY <1>3, Zenon DEF Since
<1>13. ASSUME NEW t \in 0 .. now
       PROVE  Grain * Cardinality(Since(key, t)') + m.level <= Second + (now - t)
  <2>1. Since(key, t)' = Since(key, t) \cup {e}
    BY <1>3 DEF Since
  <2>2. IsFiniteSet(Since(key, t)) /\ Cardinality(Since(key, t)) \in Nat
    BY SinceSize, Zenon
  <2>3. PICK n \in Nat : n = Cardinality(Since(key, t))
    BY <2>2, Zenon
  <2>4. PICK g \in Nat : g = Grain * n /\ Grain * (n + 1) = g + Grain
    BY Price, Zenon
  <2>5. g + l.level <= Second + (now - t)
    BY <1>1, <2>3, <2>4, Zenon
  <2>6. g + m.level <= Second + (now - t) /\ (g + Grain) + m.level <= Second + (now - t)
    BY <1>3, <1>4, <1>6, <2>5, SecondPositive
  <2>7. Cardinality(Since(key, t)') = n \/ Cardinality(Since(key, t)') = n + 1
    BY <2>1, <2>2, <2>3, FS_AddElement, Zenon
  <2> QED  BY <2>4, <2>6, <2>7, Zenon
<1>14. ASSUME NEW x PROVE Spent(x)'
  <2>1. CASE x = key
    BY <1>3, <1>7, <1>13, <2>1, Zenon DEF Spent
  <2>2. CASE x # key
    <3>1. Spent(x)
      BY Zenon DEF RateInv
    <3>2. /\ x \in DOMAIN limiters' <=> x \in DOMAIN limiters
          /\ x \in DOMAIN limiters => limiters'[x] = limiters[x]
      BY <1>7, <2>2, Zenon
    <3>3. \A t : Since(x, t)' = Since(x, t)
      BY <1>12, <2>2, Zenon
    <3> QED  BY <1>3, <3>1, <3>2, <3>3, Zenon DEF Spent
  <2> QED  BY <2>1, <2>2, Zenon
<1>15. ASSUME NEW a \in admitted', NEW b \in admitted', a.key = b.key, a.at <= b.at
       PROVE  Grain * Cardinality(Passed(a.key, a.at, b.at)') <= Second + (b.at - a.at)
  <2>1. a.at \in 0 .. now /\ b.at \in 0 .. now
    BY <1>3, <1>11, Zenon
  <2>2. CASE a.key = key /\ b.at = now
    <3>1. Passed(key, a.at, now)' = Since(key, a.at)'
      BY <1>3, <1>11 DEF Passed, Since
    <3>2. PICK n : n = Cardinality(Since(key, a.at)')
      BY Zenon
    <3>3. n \in Nat
      <4>1. IsFiniteSet(Since(key, a.at)')
        <5>1. Since(key, a.at)' \subseteq admitted'
          BY Zenon DEF Since
        <5> QED  BY <1>10, <5>1, FS_Subset, Zenon
      <4> QED  BY <3>2, <4>1, FS_CardinalityType, Zenon
    <3>4. PICK g \in Nat : g = Grain * n
      BY <3>3, Price, Zenon
    <3>5. g + m.level <= Second + (now - a.at)
      BY <1>13, <2>1, <3>2, <3>4, Zenon
    <3>6. g <= Second + (now - a.at)
      BY <1>3, <1>4, <1>6, <2>1, <3>5, SecondPositive
    <3> QED  BY <2>2, <3>1, <3>2, <3>4, <3>6, Zenon
  <2>3. CASE a.key # key \/ b.at # now
    <3>1. a \in admitted /\ b \in admitted
      BY <1>3, <1>15, <2>1, <2>3
    <3>2. Passed(a.key, a.at, b.at)' = Passed(a.key, a.at, b.at)
      <4>1. ~(e.key = a.key /\ e.at <= b.at)
        BY <1>3, <2>1, <2>3
      <4> QED  BY <1>3, <4>1, Zenon DEF Passed
    <3>3. Grain * Cardinality(Passed(a.key, a.at, b.at)) <= Second + (b.at - a.at)
      BY <1>15, <3>1, Zenon DEF RateInv, RateHeld
    <3> QED  BY <3>2, <3>3, Zenon
  <2> QED  BY <2>2, <2>3, Zenon
<1>16. RateHeld'
  BY <1>15, Zenon DEF RateHeld, Passed
<1> QED  BY <1>3, <1>8, <1>9, <1>10, <1>11, <1>14, <1>16, Zenon DEF RateInv

(* Every step keeps the invariant. *)
LEMMA NextRateInv == RateInv /\ [Next]_vars => RateInv'
<1> SUFFICES ASSUME RateInv, [Next]_vars PROVE RateInv'
  BY Zenon
<1>1. ASSUME NEW r \in Requests, NEW k \in Kinds, Allow(r, k)
      PROVE  RateInv'
  BY <1>1, AllowRateInv, Zenon DEF Allow
<1>2. ASSUME NEW r \in Requests, NEW k \in Kinds, TooManyRequests(r, k)
      PROVE  RateInv'
  <2>1. PICK key : /\ limiters' = [limiters EXCEPT ![key] = Limiter(key)]
                   /\ UNCHANGED <<now, admitted>>
    BY <1>2, ZenonT(60) DEF TooManyRequests
  <2>2. PICK l \in Level : /\ l = Limiter(key) /\ l.seen = now /\ l.level <= Second
                           /\ \A t \in 0 .. now : Grain * Cardinality(Since(key, t)) + l.level
                                                    <= Second + (now - t)
    BY LimiterBound, Zenon
  <2>3. \A x, t : Since(x, t)' = Since(x, t)
    BY <2>1, Zenon DEF Since
  <2>4. /\ DOMAIN limiters' = DOMAIN limiters
        /\ \A x \in DOMAIN limiters : limiters'[x] = IF x = key THEN l ELSE limiters[x]
    BY <2>1, <2>2, Zenon
  <2>5. limiters' \in [DOMAIN limiters' -> Level]
    BY <2>1, <2>2, Zenon DEF RateInv
  <2>6. \A x \in DOMAIN limiters' : Filled(limiters[x])'
    <3>1. l.seen <= now /\ l.level >= now - l.seen
      BY <2>2 DEF RateInv, Level
    <3> QED  BY <2>1, <2>2, <2>4, <3>1, Zenon DEF RateInv, Filled
  <2>7. ASSUME NEW x PROVE Spent(x)'
    <3>1. Spent(x)
      BY Zenon DEF RateInv
    <3> QED  BY <2>1, <2>2, <2>3, <2>4, <3>1, Zenon DEF Spent
  <2>8. RateHeld'
    BY <2>1, Zenon DEF RateInv, RateHeld, Passed
  <2> QED  BY <2>1, <2>4, <2>5, <2>6, <2>7, <2>8, Zenon DEF RateInv
<1>3. CASE UNCHANGED <<limiters, now, admitted>>
  BY <1>3, Zenon DEF RateInv, RateHeld, Passed, Filled, Spent, Since
<1>4. CASE \/ \E r \in Requests : Handle(r)
           \/ \E s \in Sources : StartAdapter(s) \/ StopAdapter(s) \/ ReadEvent(s)
           \/ UNCHANGED vars
  <2>1. ASSUME NEW r \in Requests, Handle(r)
        PROVE  UNCHANGED <<limiters, now, admitted>>
    BY <2>1, ZenonT(60) DEF Handle, RequireAuth, Unauthorized, Refuse, Send, BufferFull, SendPanics
  <2>2. ASSUME NEW s \in Sources, StartAdapter(s) \/ StopAdapter(s) \/ ReadEvent(s)
        PROVE  UNCHANGED <<limiters, now, admitted>>
    BY <2>2, Zenon DEF StartAdapter, StopAdapter, ReadEvent
  <2> QED  BY <1>3, <1>4, <2>1, <2>2, Zenon DEF vars
<1> QED  BY <1>1, <1>2, <1>4, TickRateInv, CleanupRateInv, Zenon DEF Next

(* In no stretch of time do more requests of a key pass than a full        *)
(* limiter holds and that time restores, although cleanup removes limiters *)
(* and Allow makes new, full ones (PerKeyRateLimiter).                     *)
THEOREM RateIsHeld == Spec => []RateHeld
<1>1. RateInv => RateHeld
  BY Zenon DEF RateInv
<1> QED  BY InitRateInv, NextRateInv, <1>1, PTL DEF Spec

-----------------------------------------------------------------------------
(* The answers.  A request is answered once, in the step that decides what *)
(* becomes of its event, so channel and counters change with the answer.   *)

(* What a request is and what is known of it, by the stage it is in. *)
Basic ==
    /\ code \in [Requests -> Codes \cup {None}]
    /\ \A r \in Requests : /\ stage[r] # "done" => code[r] = None
                           /\ stage[r] # "unsent" => kind[r] \in Kinds
                           /\ stage[r] = "handle" => Authenticate(kind[r])

All(s) == taken[s] \o events[s]
Once(q) == \A i, j \in DOMAIN q : q[i] = q[j] => i = j
Holds(q, r) == \E i \in DOMAIN q : q[i] = r

Delivered ==
    \A s \in Sources :
        /\ Once(All(s))
        /\ \A r \in Requests :
              Holds(All(s), r) <=> (code[r] = 200 /\ kind[r].path = Config[s].path)

Lost(s) == {r \in Requests : code[r] = 503 /\ kind[r].path = Config[s].path}
Dropped ==
    /\ dropped \in [Sources -> Nat]
    /\ \A s \in Sources : dropped[s] = Cardinality(Lost(s))

Tally(x) == {r \in Answered : Entry(r) = x}
Counted ==
    /\ IsFiniteSet(Answered)
    /\ DOMAIN metrics = {Entry(r) : r \in Answered}
    /\ \A x \in DOMAIN metrics : metrics[x] = Cardinality(Tally(x))
    /\ metrics = [x \in DOMAIN metrics |-> metrics[x]]

ReplyInv == AuthInv /\ Basic /\ Delivered /\ Dropped /\ Counted

(* A request's path has one handler. *)
LEMMA RouteOfPath ==
    ASSUME NEW k \in Kinds
    PROVE  /\ Route(k.path) \in Sources /\ Config[Route(k.path)].path = k.path
           /\ \A s \in Sources : Config[s].path = k.path => s = Route(k.path)
<1>1. \E s \in Sources : Config[s].path = k.path
  BY KindsAssumption, Zenon
<1>2. Route(k.path) \in Sources /\ Config[Route(k.path)].path = k.path
  BY <1>1, Zenon DEF Route
<1> QED  BY <1>2, ConfigAssumption, Zenon

(* Reading an event leaves the events of an adapter as they are, all told. *)
LEMMA ReadKeepsAll ==
    ASSUME NEW p \in Seq(Requests), NEW q \in Seq(Requests), q # <<>>
    PROVE  Append(p, Head(q)) \o Tail(q) = p \o q
BY SMTT(30)

(* A sent event is the last one of its adapter's. *)
LEMMA SendAppends ==
    ASSUME NEW p \in Seq(Requests), NEW q \in Seq(Requests), NEW r \in Requests
    PROVE  p \o Append(q, r) = Append(p \o q, r)
OBVIOUS

(* A request that is appended is there, the others are as before. *)
LEMMA AppendHolds ==
    ASSUME NEW q \in Seq(Requests), NEW r \in Requests, Once(q), ~Holds(q, r)
    PROVE  /\ Once(Append(q, r))
           /\ \A x \in Requests : Holds(Append(q, r), x) <=> (x = r \/ Holds(q, x))
<1> DEFINE a == Append(q, r)
<1>1. /\ Len(q) \in Nat /\ DOMAIN q = 1..Len(q) /\ DOMAIN a = 1..(Len(q) + 1)
      /\ \A i \in 1..Len(q) : a[i] = q[i]
      /\ a[Len(q) + 1] = r
  OBVIOUS
<1> HIDE DEF a
<1>2. \A i \in DOMAIN a : i = Len(q) + 1 \/ i \in DOMAIN q
  BY <1>1
<1>3. Once(a)
  BY <1>1, <1>2, Zenon DEF Once, Holds
<1>4. \A x \in Requests : Holds(a, x) <=> (x = r \/ Holds(q, x))
  BY <1>1, <1>2 DEF Holds
<1> QED  BY <1>3, <1>4, Zenon DEF a

(* A step of a request that is not answered yet: what it changes. *)
RequestStep(r) == Handle(r) \/ \E k \in Kinds : Allow(r, k) \/ TooManyRequests(r, k)

(* The four ways in which a request step treats the answer. *)
Silent(r) ==
    /\ UNCHANGED <<code, metrics, dropped, events>>
    /\ RequireAuth(r) \/ SendPanics(r) \/ \E k \in Kinds : Allow(r, k)
Reply(r, status, label) ==
    /\ status \in Codes /\ Answer(r, status, label)
    /\ kind'[r] \in Kinds
    /\ IF status = 429 \/ ~Authenticate(kind'[r]) THEN label = Endpoint(kind'[r].path)
       ELSE label = Route(kind'[r].path)
Refused(r) ==
    \E status \in Codes \ {200, 503} : \E label :
        Reply(r, status, label) /\ UNCHANGED <<events, dropped>>
Sent(r) ==
    /\ Reply(r, 200, Route(kind[r].path)) /\ kind' = kind
    /\ events' = [events EXCEPT ![Route(kind[r].path)] = Append(@, r)]
    /\ UNCHANGED dropped
Full(r) ==
    /\ Reply(r, 503, Route(kind[r].path)) /\ kind' = kind
    /\ dropped' = [dropped EXCEPT ![Route(kind[r].path)] = @ + 1]
    /\ UNCHANGED events

(* The adapter's refusals. *)
LEMMA RefusalCode ==
    ASSUME NEW s, NEW k, Refusal(s, k) # None
    PROVE  Refusal(s, k) \in {401, 413, 400}
  BY DEF Refusal

(* A request step is silent, or answers and does what the answer says. *)
LEMMA RequestOutcome ==
    ASSUME AuthInv, Basic, NEW r \in Requests, RequestStep(r)
    PROVE  /\ stage[r] # "done" /\ UNCHANGED <<auth, taken>>
           /\ Silent(r) \/ Refused(r) \/ Sent(r) \/ Full(r)
<1>1. UNCHANGED <<auth, taken>>
  BY ZenonT(30) DEF RequestStep, Handle, RequireAuth, Unauthorized, Refuse, Send, BufferFull,
               SendPanics, Allow, TooManyRequests, server, adapters
<1>2. ASSUME RequireAuth(r) \/ SendPanics(r) \/ \E k \in Kinds : Allow(r, k)
      PROVE  stage[r] # "done" /\ Silent(r)
  <2>1. Silent(r)
    BY <1>2, Zenon DEF RequireAuth, SendPanics, Allow, adapters, counters, Silent
  <2>2. stage[r] # "done"
    BY <1>2, Zenon DEF RequireAuth, SendPanics, Allow, Arrive
  <2> QED  BY <2>1, <2>2, Zenon
<1>3. ASSUME NEW k \in Kinds, TooManyRequests(r, k)
      PROVE  stage[r] # "done" /\ Refused(r)
  <2>1. stage[r] = "unsent" /\ kind' = [kind EXCEPT ![r] = k]
        /\ Answer(r, 429, Endpoint(k.path)) /\ UNCHANGED <<events, dropped>>
    BY <1>3, Zenon DEF TooManyRequests, Arrive, adapters
  <2>2. kind'[r] = k
    BY <2>1, Zenon DEF AuthInv
  <2>3. 429 \in Codes /\ 429 \in Codes \ {200, 503}
    BY DEF Codes
  <2>4. Reply(r, 429, Endpoint(k.path))
    BY <2>1, <2>2, <2>3 DEF Reply
  <2>5. Refused(r)
    BY <2>1, <2>3, <2>4 DEF Refused
  <2> QED  BY <2>1, <2>5, Zenon
<1>4. ASSUME Unauthorized(r)
      PROVE  stage[r] # "done" /\ Refused(r)
  <2>1. /\ stage[r] = "auth" /\ ~Authenticate(kind[r]) /\ kind' = kind
        /\ Answer(r, 401, Endpoint(kind[r].path)) /\ UNCHANGED <<events, dropped>>
    BY <1>4, Zenon DEF Unauthorized, adapters
  <2>2. kind[r] \in Kinds
    BY <2>1, Zenon DEF Basic
  <2>3. 401 \in Codes /\ 401 \in Codes \ {200, 503}
    BY DEF Codes
  <2>4. Reply(r, 401, Endpoint(kind[r].path))
    <3>1. kind'[r] = kind[r] /\ ~Authenticate(kind'[r])
      BY <2>1, Zenon
    <3> QED  BY <2>1, <2>2, <2>3, <3>1 DEF Reply
  <2>5. Refused(r)
    BY <2>1, <2>3, <2>4 DEF Refused
  <2> QED  BY <2>1, <2>5, Zenon
<1>5. ASSUME stage[r] = "handle", kind' = kind
      PROVE  /\ stage[r] # "done" /\ kind[r] \in Kinds
             /\ kind'[r] \in Kinds /\ Authenticate(kind'[r]) /\ kind'[r] = kind[r]
  BY <1>5, Zenon DEF Basic
<1>6. ASSUME Refuse(r)
      PROVE  stage[r] # "done" /\ Refused(r)
  <2> DEFINE s == Route(kind[r].path)
             status == Refusal(s, kind[r])
  <2>1. /\ stage[r] = "handle" /\ status # None /\ kind' = kind
        /\ Answer(r, status, s) /\ UNCHANGED <<events, dropped>>
    BY <1>6, Zenon DEF Refuse, adapters
  <2>2. status \in {401, 413, 400}
    BY <2>1, RefusalCode
  <2> HIDE DEF status
  <2>3. status \in Codes /\ status \in Codes \ {200, 503} /\ status # 429
    BY <2>2 DEF Codes
  <2>4. Reply(r, status, s)
    BY <1>5, <2>1, <2>3, ZenonT(60) DEF Reply
  <2>5. Refused(r)
    BY <2>1, <2>3, <2>4, SMTT(30) DEF Refused
  <2> QED  BY <1>5, <2>1, <2>5, Zenon
<1>7. ASSUME Send(r)
      PROVE  stage[r] # "done" /\ Sent(r)
  <2>1. /\ stage[r] = "handle" /\ kind' = kind /\ Answer(r, 200, Route(kind[r].path))
        /\ events' = [events EXCEPT ![Route(kind[r].path)] = Append(@, r)]
        /\ UNCHANGED dropped
    BY <1>7, Zenon DEF Send
  <2>2. 200 \in Codes /\ 200 # 429
    BY DEF Codes
  <2>3. Reply(r, 200, Route(kind[r].path))
    BY <1>5, <2>1, <2>2, Zenon DEF Reply
  <2>4. Sent(r)
    BY <2>1, <2>3, Zenon DEF Sent
  <2> QED  BY <1>5, <2>1, <2>4, Zenon
<1>8. ASSUME BufferFull(r)
      PROVE  stage[r] # "done" /\ Full(r)
  <2>1. /\ stage[r] = "handle" /\ kind' = kind /\ Answer(r, 503, Route(kind[r].path))
        /\ dropped' = [dropped EXCEPT ![Route(kind[r].path)] = @ + 1]
        /\ UNCHANGED events
    BY <1>8, Zenon DEF BufferFull, adapters
  <2>2. 503 \in Codes /\ 503 # 429
    BY DEF Codes
  <2>3. Reply(r, 503, Route(kind[r].path))
    BY <1>5, <2>1, <2>2, SMTT(30) DEF Reply
  <2>4. Full(r)
    BY <2>1, <2>3, SMTT(30) DEF Full
  <2> QED  BY <1>5, <2>1, <2>4, Zenon
<1>9. stage[r] # "done" /\ (Silent(r) \/ Refused(r) \/ Sent(r) \/ Full(r))
  BY <1>2, <1>3, <1>4, <1>6, <1>7, <1>8, Zenon DEF RequestStep, Handle
<1> QED  BY <1>1, <1>9, Zenon

(* A step of a request answers it or says nothing. *)
LEMMA RequestAnswers ==
    ASSUME AuthInv, Basic, NEW r \in Requests, RequestStep(r)
    PROVE  Silent(r) \/ \E status \in Codes : \E label : Reply(r, status, label)
<1>1. 200 \in Codes /\ 503 \in Codes
  BY DEF Codes
<1>2. Refused(r) => \E status \in Codes : \E label : Reply(r, status, label)
  BY SMTT(30) DEF Refused
<1>3. Sent(r) \/ Full(r) => \E status \in Codes : \E label : Reply(r, status, label)
  BY <1>1, SMTT(30) DEF Sent, Full
<1> QED  BY <1>2, <1>3, RequestOutcome, Zenon

(* What a request step leaves alone. *)
LEMMA RequestFrame ==
    ASSUME AuthInv, Basic, NEW r \in Requests, RequestStep(r)
    PROVE  /\ code[r] = None /\ r \notin Answered
           /\ \A x \in Requests \ {r} :
                 stage'[x] = stage[x] /\ code'[x] = code[x] /\ kind'[x] = kind[x]
           /\ \A status, label : Reply(r, status, label) => code'[r] = status
<1>1. code[r] = None
  <2>1. stage[r] # "done"
    BY RequestOutcome, Zenon
  <2> QED  BY <2>1, Zenon DEF Basic
<1>2. code' = code \/ \E status \in Codes : code' = [code EXCEPT ![r] = status]
  BY RequestAnswers, ZenonT(30) DEF Silent, Reply, Answer
<1>3. kind' = kind \/ \E k : kind' = [kind EXCEPT ![r] = k]
  BY ZenonT(30) DEF RequestStep, Handle, RequireAuth, Unauthorized, Refuse, Send, BufferFull,
               SendPanics, Allow, TooManyRequests, Arrive
<1>4. stage' = stage \/ \E l : stage' = [stage EXCEPT ![r] = l]
  <2>1. ASSUME Silent(r) PROVE \E l : stage' = [stage EXCEPT ![r] = l]
    BY <2>1, Zenon DEF Silent, RequireAuth, SendPanics, Allow
  <2>2. ASSUME NEW status, NEW label, Reply(r, status, label)
        PROVE  \E l : stage' = [stage EXCEPT ![r] = l]
    BY <2>2, Zenon DEF Reply, Answer
  <2> QED  BY <2>1, <2>2, RequestAnswers, Zenon
<1>5. \A x \in Requests \ {r} :
         stage'[x] = stage[x] /\ code'[x] = code[x] /\ kind'[x] = kind[x]
  BY <1>2, <1>3, <1>4, Zenon DEF Basic, AuthInv
<1>6. \A status, label : Reply(r, status, label) => code'[r] = status
  BY DEF Reply, Answer, Basic
<1> QED  BY <1>1, <1>5, <1>6, Zenon DEF Answered

(* An entry once made does not change. *)
LEMMA EntryKept ==
    ASSUME UNCHANGED auth, NEW x, code'[x] = code[x], kind'[x] = kind[x]
    PROVE  Entry(x)' = Entry(x)
  BY DEF Entry, Authenticate, GetClientIP

(* A step of a request keeps Basic. *)
LEMMA BasicStep ==
    ASSUME AuthInv, Basic, NEW r \in Requests, RequestStep(r)
    PROVE  Basic'
<1>1. UNCHANGED auth /\ stage[r] # "done"
  BY RequestOutcome, Zenon
<1>2. ASSUME NEW x \in Requests \ {r}
      PROVE  /\ stage'[x] # "done" => code'[x] = None
             /\ stage'[x] # "unsent" => kind'[x] \in Kinds
             /\ stage'[x] = "handle" => Authenticate(kind[x])'
  <2>1. stage'[x] = stage[x] /\ code'[x] = code[x] /\ kind'[x] = kind[x]
    BY RequestFrame, Zenon
  <2>2. Authenticate(kind[x]) => Authenticate(kind[x])'
    BY <1>1, <2>1, Zenon DEF Authenticate, GetClientIP
  <2> QED  BY <2>1, <2>2, Zenon DEF Basic
<1>3. code' \in [Requests -> Codes \cup {None}]
  <2>1. code' = code \/ \E status \in Codes : code' = [code EXCEPT ![r] = status]
    BY RequestAnswers, ZenonT(30) DEF Silent, Reply, Answer
  <2> QED  BY <2>1, Zenon DEF Basic
<1>4. CASE RequireAuth(r)
  <2>1. /\ stage'[r] = "handle" /\ UNCHANGED <<kind, code>> /\ stage[r] = "auth"
        /\ Authenticate(kind[r])
    BY <1>4, Zenon DEF RequireAuth, AuthInv
  <2>2. Authenticate(kind[r])'
    BY <1>1, <2>1, Zenon DEF Authenticate, GetClientIP
  <2> QED  BY <1>2, <1>3, <2>1, <2>2, Zenon DEF Basic
<1>5. CASE SendPanics(r)
  <2>1. stage'[r] = "aborted" /\ UNCHANGED <<kind, code>> /\ stage[r] = "handle"
    BY <1>5, Zenon DEF SendPanics, AuthInv
  <2> QED  BY <1>2, <1>3, <2>1, Zenon DEF Basic
<1>6. ASSUME NEW k \in Kinds, Allow(r, k)
      PROVE  Basic'
  <2>1. stage'[r] = "auth" /\ kind'[r] = k /\ code' = code /\ stage[r] = "unsent"
    BY <1>6, Zenon DEF Allow, Arrive, AuthInv
  <2> QED  BY <1>2, <1>3, <2>1, Zenon DEF Basic
<1>7. ASSUME NEW status, NEW label, Reply(r, status, label)
      PROVE  Basic'
  <2>1. stage'[r] = "done" /\ kind'[r] \in Kinds
    BY <1>7, Zenon DEF Reply, Answer, AuthInv
  <2> QED  BY <1>2, <1>3, <2>1, Zenon DEF Basic
<1> QED  BY <1>4, <1>5, <1>6, <1>7, RequestAnswers, Zenon DEF Silent

(* The channels. *)
LEMMA DeliveredKept ==
    ASSUME Delivered, \A s \in Sources : All(s)' = All(s),
           \A x \in Requests : /\ code'[x] = 200 <=> code[x] = 200
                               /\ code[x] = 200 => kind'[x] = kind[x]
    PROVE  Delivered'
<1>1. ASSUME NEW s \in Sources
      PROVE  /\ Once(All(s))'
             /\ \A r \in Requests :
                   Holds(All(s), r)' <=> (code'[r] = 200 /\ kind'[r].path = Config[s].path)
  <2>1. /\ Once(All(s))
        /\ \A r \in Requests :
              Holds(All(s), r) <=> (code[r] = 200 /\ kind[r].path = Config[s].path)
    BY ZenonT(60) DEF Delivered
  <2>2. Once(All(s))'
    BY <2>1 DEF Once
  <2>3. \A r : Holds(All(s), r)' <=> Holds(All(s), r)
    BY DEF Holds
  <2> QED  BY <2>1, <2>2, <2>3
<1> QED  BY <1>1, Zenon DEF Delivered

(* A step of a request keeps Delivered: 200 goes with a send. *)
LEMMA DeliveredStep ==
    ASSUME ReplyInv, NEW r \in Requests, RequestStep(r)
    PROVE  Delivered'
<1>0. AuthInv /\ Basic /\ Delivered
  BY Zenon DEF ReplyInv
<1>1. /\ code[r] = None /\ code[r] # 200
      /\ \A x \in Requests \ {r} : code'[x] = code[x] /\ kind'[x] = kind[x]
      /\ \A status, label : Reply(r, status, label) => code'[r] = status
  <2>1. /\ code[r] = None
        /\ \A x \in Requests \ {r} : code'[x] = code[x] /\ kind'[x] = kind[x]
        /\ \A status, label : Reply(r, status, label) => code'[r] = status
    BY <1>0, RequestFrame, Zenon
  <2>2. None # 200 /\ None # 503
    BY NoneAssumption
  <2> QED  BY <2>1, <2>2, Zenon
<1>2. taken' = taken
  BY <1>0, RequestOutcome, Zenon
<1>3. ASSUME events' = events, code'[r] # 200
      PROVE  Delivered'
  <2>1. \A s \in Sources : All(s)' = All(s)
    BY <1>2, <1>3, Zenon DEF All
  <2> QED  BY <1>0, <1>1, <1>3, <2>1, DeliveredKept
<1>4. ASSUME Sent(r)
      PROVE  Delivered'
  <2>0. /\ Reply(r, 200, Route(kind[r].path)) /\ kind' = kind
        /\ events' = [events EXCEPT ![Route(kind[r].path)] = Append(events[Route(kind[r].path)], r)]
    BY <1>4, Zenon DEF Sent
  <2>1. kind[r] \in Kinds /\ code'[r] = 200
    BY <1>1, <2>0 DEF Reply
  <2>2. PICK t \in Sources :
           /\ t = Route(kind[r].path) /\ Config[t].path = kind[r].path
           /\ \A s \in Sources : Config[s].path = kind[r].path => s = t
    BY <2>1, RouteOfPath
  <2>3. ASSUME NEW s \in Sources
        PROVE  taken[s] \in Seq(Requests) /\ events[s] \in Seq(Requests) /\ All(s) \in Seq(Requests)
    <3>1. taken[s] \in Seq(Requests) /\ events[s] \in Seq(Requests)
      BY <1>0, Zenon DEF AuthInv
    <3> QED  BY <3>1 DEF All
  <2>4. /\ events'[t] = Append(events[t], r)
        /\ \A s \in Sources \ {t} : events'[s] = events[s]
    BY <1>0, <2>0, <2>2, Zenon DEF AuthInv
  <2>5. All(t)' = Append(All(t), r)
    <3>1. taken[t] \o Append(events[t], r) = Append(taken[t] \o events[t], r)
      BY <2>3, SendAppends, Zenon
    <3> QED  BY <1>2, <2>4, <3>1, Zenon DEF All
  <2>6. \A s \in Sources \ {t} : All(s)' = All(s)
    BY <1>2, <2>4, Zenon DEF All
  <2>7. ASSUME NEW s \in Sources PROVE Once(All(s)) /\ ~Holds(All(s), r)
    <3>1. Once(All(s)) /\ (Holds(All(s), r) => code[r] = 200)
      BY <1>0, SMTT(30) DEF Delivered
    <3> QED  BY <1>1, <3>1, Zenon
  <2>8. /\ Once(Append(All(t), r))
        /\ \A x \in Requests : Holds(Append(All(t), r), x) <=> (x = r \/ Holds(All(t), x))
    BY <2>2, <2>3, <2>7, AppendHolds, Zenon
  <2>9. ASSUME NEW s \in Sources, NEW x \in Requests
        PROVE  Holds(All(s), x)' <=> (code'[x] = 200 /\ kind'[x].path = Config[s].path)
    <3>1. Holds(All(s), x) <=> (code[x] = 200 /\ kind[x].path = Config[s].path)
      BY <1>0, SMTT(30) DEF Delivered
    <3>2. CASE s = t
      <4>1. Holds(All(s), x)' <=> (x = r \/ Holds(All(s), x))
        BY <2>5, <2>8, <3>2, SMTT(30) DEF Holds
      <4> QED  BY <1>1, <2>0, <2>1, <2>2, <3>1, <3>2, <4>1, ZenonT(60)
    <3>3. CASE s # t
      <4>1. Holds(All(s), x)' <=> Holds(All(s), x)
        BY <2>6, <3>3 DEF Holds
      <4>2. Config[s].path # kind[r].path
        BY <2>2, <3>3, Zenon
      <4> QED  BY <1>1, <2>0, <2>7, <3>1, <4>1, <4>2, ZenonT(60)
    <3> QED  BY <3>2, <3>3, Zenon
  <2>10. ASSUME NEW s \in Sources PROVE Once(All(s))'
    BY <2>5, <2>6, <2>7, <2>8, Zenon DEF Once
  <2> QED  BY <2>9, <2>10, ZenonT(60) DEF Delivered
<1>5. CASE Silent(r)
  BY <1>1, <1>3, <1>5, Zenon DEF Silent
<1>6. ASSUME NEW status, status # 200, NEW label, Reply(r, status, label), events' = events
      PROVE  Delivered'
  BY <1>1, <1>3, <1>6
<1>7. 503 # 200 /\ \A status \in Codes \ {200, 503} : status # 200
  OBVIOUS
<1>8. Refused(r) \/ Full(r) => Delivered'
  BY <1>6, <1>7 DEF Refused, Full
<1> QED  BY <1>0, <1>4, <1>5, <1>8, RequestOutcome, Zenon

(* The dropped events. *)
LEMMA LostKept ==
    ASSUME Dropped, dropped' = dropped,
           \A x \in Requests : /\ code'[x] = 503 <=> code[x] = 503
                               /\ code[x] = 503 => kind'[x] = kind[x]
    PROVE  Dropped'
<1>1. \A s \in Sources : Lost(s)' = Lost(s)
  BY DEF Lost
<1> QED  BY <1>1 DEF Dropped

(* A step of a request keeps Dropped: 503 goes with a full channel. *)
LEMMA DroppedStep ==
    ASSUME ReplyInv, NEW r \in Requests, RequestStep(r)
    PROVE  Dropped'
<1>0. AuthInv /\ Basic /\ Dropped /\ IsFiniteSet(Answered)
  BY Zenon DEF ReplyInv, Counted
<1>1. /\ code[r] = None /\ code[r] # 503
      /\ \A x \in Requests \ {r} : code'[x] = code[x] /\ kind'[x] = kind[x]
      /\ \A status, label : Reply(r, status, label) => code'[r] = status
  <2>1. /\ code[r] = None
        /\ \A x \in Requests \ {r} : code'[x] = code[x] /\ kind'[x] = kind[x]
        /\ \A status, label : Reply(r, status, label) => code'[r] = status
    BY <1>0, RequestFrame, Zenon
  <2>2. None # 200 /\ None # 503
    BY NoneAssumption
  <2> QED  BY <2>1, <2>2, Zenon
<1>2. ASSUME dropped' = dropped, code'[r] # 503
      PROVE  Dropped'
  BY <1>0, <1>1, <1>2, LostKept
<1>3. ASSUME Full(r)
      PROVE  Dropped'
  <2>0. /\ Reply(r, 503, Route(kind[r].path)) /\ kind' = kind
        /\ dropped' = [dropped EXCEPT ![Route(kind[r].path)] = dropped[Route(kind[r].path)] + 1]
    BY <1>3, Zenon DEF Full
  <2>1. kind[r] \in Kinds /\ code'[r] = 503
    BY <1>1, <2>0 DEF Reply
  <2>2. PICK t \in Sources :
           /\ t = Route(kind[r].path) /\ Config[t].path = kind[r].path
           /\ \A s \in Sources : Config[s].path = kind[r].path => s = t
    BY <2>1, RouteOfPath
  <2>3. Lost(t)' = Lost(t) \cup {r} /\ r \notin Lost(t)
    <3>1. \A x \in Requests : (code'[x] = 503 /\ kind'[x].path = Config[t].path) <=>
                                  (x = r \/ (code[x] = 503 /\ kind[x].path = Config[t].path))
      BY <1>1, <2>0, <2>1, <2>2
    <3> QED  BY <1>1, <3>1 DEF Lost
  <2>4. \A s \in Sources \ {t} : Lost(s)' = Lost(s)
    BY <1>1, <2>0, <2>1, <2>2 DEF Lost
  <2>5. IsFiniteSet(Lost(t))
    <3>1. Lost(t) \subseteq Answered
      BY NoneAssumption DEF Lost, Answered
    <3> QED  BY <1>0, <3>1, FS_Subset, Zenon
  <2>6. Cardinality(Lost(t)') = Cardinality(Lost(t)) + 1
    BY <2>3, <2>5, FS_AddElement, Zenon
  <2>7. dropped' = [dropped EXCEPT ![t] = @ + 1] /\ dropped \in [Sources -> Nat]
        /\ \A s \in Sources : dropped[s] = Cardinality(Lost(s))
    BY <1>0, <2>0, <2>2, Zenon DEF Dropped
  <2>8. \A s \in Sources : dropped'[s] = Cardinality(Lost(s)')
    BY <2>4, <2>6, <2>7, Zenon
  <2> QED  BY <2>7, <2>8 DEF Dropped
<1>4. CASE Silent(r)
  BY <1>1, <1>2, <1>4, Zenon DEF Silent
<1>5. ASSUME NEW status, status # 503, NEW label, Reply(r, status, label), dropped' = dropped
      PROVE  Dropped'
  BY <1>1, <1>2, <1>5
<1>6. 200 # 503 /\ \A status \in Codes \ {200, 503} : status # 503
  OBVIOUS
<1>7. Refused(r) \/ Sent(r) => Dropped'
  BY <1>5, <1>6 DEF Refused, Sent
<1> QED  BY <1>0, <1>3, <1>4, <1>7, RequestOutcome, Zenon

(* webhookMetrics. *)
LEMMA CountedKept ==
    ASSUME Counted, UNCHANGED <<metrics, auth, code>>,
           \A x \in Answered : kind'[x] = kind[x]
    PROVE  Counted'
<1>1. Answered' = Answered
  BY Zenon DEF Answered
<1>2. \A x \in Answered : Entry(x)' = Entry(x)
  BY EntryKept, Zenon
<1>3. {Entry(x) : x \in Answered}' = {Entry(x) : x \in Answered}
  BY <1>1, <1>2, Zenon
<1>4. \A y : Tally(y)' = Tally(y)
  BY <1>1, <1>2, Zenon DEF Tally
<1> QED  BY <1>1, <1>3, <1>4, Zenon DEF Counted

(* An answer is counted once. *)
LEMMA CountedReply ==
    ASSUME ReplyInv, NEW r \in Requests, RequestStep(r), NEW status, NEW label,
           Reply(r, status, label)
    PROVE  Counted'
<1> DEFINE new == <<label, status>>
<1>0. AuthInv /\ Basic /\ Counted
  BY Zenon DEF ReplyInv
<1>1. /\ code[r] = None /\ code'[r] = status /\ r \notin Answered /\ UNCHANGED auth
      /\ \A x \in Requests \ {r} : code'[x] = code[x] /\ kind'[x] = kind[x]
  BY <1>0, RequestFrame, RequestOutcome, Zenon
<1>2. Answered' = Answered \cup {r}
  BY <1>1, NoneAssumption, SMTT(30) DEF Answered, Reply, Codes
<1>3. \A x \in Answered : Entry(x)' = Entry(x)
  BY <1>1, EntryKept, Zenon DEF Answered
<1>4. Entry(r)' = new
  <2>1. Authenticate(kind[r])' <=> Authenticate(kind'[r])
    BY <1>1, Zenon DEF Authenticate, GetClientIP
  <2> QED  BY <1>1, <2>1 DEF Entry, Reply
<1>5. metrics' = [x \in DOMAIN metrics \cup {new} |->
                    IF x = new THEN (IF new \in DOMAIN metrics THEN metrics[new] ELSE 0) + 1
                    ELSE metrics[x]]
  BY Zenon DEF Reply, Answer
<1> HIDE DEF new
<1>6. /\ DOMAIN metrics' = DOMAIN metrics \cup {new}
      /\ metrics' = [x \in DOMAIN metrics' |-> metrics'[x]]
      /\ \A x \in DOMAIN metrics \ {new} : metrics'[x] = metrics[x]
      /\ metrics'[new] = (IF new \in DOMAIN metrics THEN metrics[new] ELSE 0) + 1
  BY <1>5, Zenon
<1>7. DOMAIN metrics = {Entry(x) : x \in Answered}
      /\ \A x \in DOMAIN metrics : metrics[x] = Cardinality(Tally(x))
  BY <1>0, Zenon DEF Counted
<1>8. DOMAIN metrics' = {Entry(x) : x \in Answered}'
  BY <1>2, <1>3, <1>4, <1>6, <1>7, Zenon
<1>9. IsFiniteSet(Answered') /\ IsFiniteSet(Answered)
  BY <1>0, <1>2, FS_AddElement, Zenon DEF Counted
<1>10. \A y : IsFiniteSet(Tally(y)) /\ Cardinality(Tally(y)) \in Nat
  <2>1. \A y : Tally(y) \subseteq Answered
    BY Zenon DEF Tally
  <2> QED  BY <1>9, <2>1, FS_Subset, FS_CardinalityType, Zenon
<1>11. Tally(new)' = Tally(new) \cup {r} /\ r \notin Tally(new)
  BY <1>1, <1>2, <1>3, <1>4, Zenon DEF Tally
<1>12. \A y : y # new => Tally(y)' = Tally(y)
  BY <1>1, <1>2, <1>3, <1>4, Zenon DEF Tally
<1>13. Cardinality(Tally(new)') = Cardinality(Tally(new)) + 1
  BY <1>10, <1>11, FS_AddElement, Zenon
<1>14. new \notin DOMAIN metrics => Cardinality(Tally(new)) = 0
  <2>1. new \notin DOMAIN metrics => Tally(new) = {}
    BY <1>7, Zenon DEF Tally
  <2> QED  BY <2>1, FS_EmptySet, Zenon
<1>15. metrics'[new] = Cardinality(Tally(new)')
  BY <1>6, <1>7, <1>13, <1>14, Zenon
<1>16. \A y \in DOMAIN metrics' : metrics'[y] = Cardinality(Tally(y)')
  BY <1>6, <1>7, <1>10, <1>12, <1>15, Zenon
<1> QED  BY <1>6, <1>8, <1>9, <1>16, Zenon DEF Counted

(* Every step keeps the invariant; only request steps answer, and reading  *)
(* an event moves it from one part of All to the other.                    *)
LEMMA NextReplyInv == ReplyInv /\ [Next]_vars => ReplyInv'
<1> SUFFICES ASSUME ReplyInv, [Next]_vars PROVE ReplyInv'
  BY Zenon
<1>0. AuthInv /\ Basic /\ Delivered /\ Dropped /\ Counted /\ AuthInv'
  BY NextAuthInv, Zenon DEF ReplyInv
<1>1. ASSUME NEW r \in Requests, RequestStep(r)
      PROVE  ReplyInv'
  <2>1. Basic' /\ Delivered' /\ Dropped'
    BY <1>0, <1>1, BasicStep, DeliveredStep, DroppedStep, Zenon
  <2>2. CASE Silent(r)
    <3>1. UNCHANGED <<metrics, auth, code>> /\ \A x \in Answered : kind'[x] = kind[x]
      BY <1>0, <1>1, <2>2, RequestFrame, RequestOutcome, Zenon DEF Silent, Answered
    <3> QED  BY <1>0, <2>1, <3>1, CountedKept, Zenon DEF ReplyInv
  <2>3. ASSUME NEW status, NEW label, Reply(r, status, label)
        PROVE  Counted'
    BY <1>1, <2>3, CountedReply, Zenon
  <2> QED  BY <1>0, <1>1, <2>1, <2>2, <2>3, RequestAnswers, Zenon DEF ReplyInv
<1>2. ASSUME UNCHANGED <<auth, requests, counters>>, \A s \in Sources : All(s)' = All(s)
      PROVE  ReplyInv'
  <2>1. UNCHANGED <<auth, kind, stage, code, metrics, dropped>>
    BY <1>2, Zenon DEF requests, counters
  <2>2. Basic'
    <3>1. \A x \in Requests : Authenticate(kind[x]) => Authenticate(kind[x])'
      BY <2>1, Zenon DEF Authenticate, GetClientIP
    <3> QED  BY <1>0, <2>1, <3>1, Zenon DEF Basic
  <2>3. Delivered' /\ Dropped' /\ Counted'
    BY <1>0, <1>2, <2>1, DeliveredKept, LostKept, CountedKept
  <2> QED  BY <1>0, <2>2, <2>3, Zenon DEF ReplyInv
<1>3. ASSUME NEW s \in Sources, ReadEvent(s)
      PROVE  ReplyInv'
  <2>1. /\ events[s] # <<>> /\ UNCHANGED <<auth, requests, counters>>
        /\ taken' = [taken EXCEPT ![s] = Append(taken[s], Head(events[s]))]
        /\ events' = [events EXCEPT ![s] = Tail(events[s])]
    BY <1>3, Zenon DEF ReadEvent, server
  <2>2. /\ taken'[s] = Append(taken[s], Head(events[s])) /\ events'[s] = Tail(events[s])
        /\ \A t \in Sources \ {s} : taken'[t] = taken[t] /\ events'[t] = events[t]
    BY <1>0, <2>1, Zenon DEF AuthInv
  <2>3. taken[s] \in Seq(Requests) /\ events[s] \in Seq(Requests)
    BY <1>0, Zenon DEF AuthInv
  <2>4. Append(taken[s], Head(events[s])) \o Tail(events[s]) = taken[s] \o events[s]
    BY <2>1, <2>3, ReadKeepsAll, Zenon
  <2>5. All(s)' = All(s)
    BY <2>2, <2>4, Zenon DEF All
  <2>6. \A t \in Sources \ {s} : All(t)' = All(t)
    BY <2>2, Zenon DEF All
  <2> QED  BY <1>2, <2>1, <2>5, <2>6, Zenon
<1>4. CASE \/ Tick \/ Cleanup \/ UNCHANGED vars
           \/ \E s \in Sources : StartAdapter(s) \/ StopAdapter(s)
  <2>1. UNCHANGED <<auth, requests, counters, events, taken>>
    BY <1>4, Zenon DEF Tick, Cleanup, StartAdapter, StopAdapter, vars, server, adapters, requests, counters
  <2>2. \A s \in Sources : All(s)' = All(s)
    BY <2>1, Zenon DEF All
  <2> QED  BY <1>2, <2>1, <2>2, Zenon
<1> QED  BY <1>1, <1>3, <1>4, Zenon DEF Next, RequestStep

(* At first nothing is answered, sent or counted. *)
LEMMA InitReplyInv == Init => ReplyInv
<1> SUFFICES ASSUME Init PROVE ReplyInv
  BY Zenon
<1>1. Basic
  BY Zenon DEF Init, Basic
<1>2. ASSUME NEW s \in Sources PROVE All(s) = <<>> /\ DOMAIN All(s) = {}
  <2>1. taken[s] = <<>> /\ events[s] = <<>>
    BY Zenon DEF Init
  <2>2. <<>> \o <<>> = <<>> /\ DOMAIN <<>> = {}
    OBVIOUS
  <2> QED  BY <2>1, <2>2, Zenon DEF All
<1>3. \A r \in Requests : code[r] = None /\ code[r] # 200 /\ code[r] # 503
  BY NoneAssumption DEF Init
<1>4. Delivered
  BY <1>2, <1>3 DEF Delivered, Once, Holds
<1>5. \A s \in Sources : Lost(s) = {}
  BY <1>3 DEF Lost
<1>6. Dropped
  BY <1>5, FS_EmptySet, Zenon DEF Init, Dropped
<1>7. Answered = {} /\ metrics = [x \in {} |-> 1]
  BY <1>3 DEF Answered, Init
<1>8. Counted
  BY <1>7, FS_EmptySet, Zenon DEF Counted
<1> QED  BY <1>1, <1>4, <1>6, <1>8, InitAuthInv, Zenon DEF ReplyInv

(* A 200 stands for one event on its way, or read, a 503 for one dropped   *)
(* and counted as such, and webhookMetrics is the histogram of the answers *)
(* given (HandleWebhook and the middlewares), for any number of requests,  *)
(* webhooks and places in a channel.                                       *)
THEOREM AnswersAreTrue == Spec => []AnswersTrue
<1>1. ReplyInv => AnswersTrue
  <2> SUFFICES ASSUME ReplyInv PROVE AnswersTrue
    BY Zenon
  <2>1. ASSUME NEW r \in Requests, NEW s \in Sources
        PROVE  Cardinality({i \in DOMAIN All(s) : All(s)[i] = r}) =
                  IF code[r] = 200 /\ kind[r].path = Config[s].path THEN 1 ELSE 0
    <3> DEFINE S == {i \in DOMAIN All(s) : All(s)[i] = r}
    <3>1. /\ Once(All(s))
          /\ Holds(All(s), r) <=> (code[r] = 200 /\ kind[r].path = Config[s].path)
      BY DEF ReplyInv, Delivered
    <3>2. CASE Holds(All(s), r)
      <4>1. PICK i \in DOMAIN All(s) : All(s)[i] = r
        BY <3>2, Zenon DEF Holds
      <4>2. S = {i}
        BY <3>1, <4>1 DEF Once
      <4>3. Cardinality(S) = 1
        BY <4>2, FS_Singleton, Zenon
      <4> QED  BY <3>1, <3>2, <4>3, Zenon
    <3>3. CASE ~Holds(All(s), r)
      <4>1. S = {}
        BY <3>3, Zenon DEF Holds
      <4>2. Cardinality(S) = 0
        BY <4>1, FS_EmptySet, Zenon
      <4> QED  BY <3>1, <3>3, <4>2, Zenon
    <3> QED  BY <3>2, <3>3, Zenon
  <2>2. \A s \in Sources : dropped[s] = Cardinality(Lost(s))
    BY Zenon DEF ReplyInv, Dropped
  <2>3. metrics = [x \in {Entry(r) : r \in Answered} |-> Cardinality(Tally(x))]
    BY Zenon DEF ReplyInv, Counted
  <2> QED  BY <2>1, <2>2, <2>3, Zenon DEF AnswersTrue, All, Lost, Tally
<1> QED  BY InitReplyInv, NextReplyInv, <1>1, PTL DEF Spec

=============================================================================
