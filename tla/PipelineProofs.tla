---------------------------- MODULE PipelineProofs ----------------------------
(* Proofs about Pipeline, for every number of workers, events and sources.   *)
EXTENDS Pipeline, FiniteSetTheorems, TLAPS

Step(w) == ApplyFilter(w) \/ ApplyDedup(w) \/ Hooks(w) \/ HookFails(w)
           \/ Blocked(w) \/ Create(w) \/ CreateFails(w)

Busy(w) == pc[w] # "idle"

\* Where a worker is says what its event has been through.  Two workers never
\* have the same event.
Control ==
  /\ \A w \in Workers : Busy(w) =>
       /\ ev[w] \in Events /\ outcome[ev[w]] = "working"
       /\ pc[w] = FirstStage(ev[w]) => ticket[ev[w]] = None
       /\ pc[w] = "filter" /\ DedupFirst(ev[w]) => ticket[ev[w]] # None
       /\ pc[w] = "dedup" => ticket[ev[w]] = None
       /\ pc[w] \in {"hooks", "create"} => ticket[ev[w]] # None
  /\ \A w, v \in Workers : w # v /\ Busy(w) /\ Busy(v) => ev[w] # ev[v]
  /\ \A e \in Events : outcome[e] = None => ticket[e] = None

\* A ticket is given once per key and window.
Tickets ==
  /\ \A e \in Events : ticket[e] # None =>
       /\ ticket[e] <= window[Id(e)]
       /\ ticket[e] = window[Id(e)] => Id(e) \in seen
  /\ \A e, f \in Events : e # f /\ Id(e) = Id(f) /\ ticket[e] = ticket[f]
                            => ticket[e] = None

\* An object belongs to an event that has its ticket and is finished.
Written ==
  /\ \A o \in objects : /\ o.event \in Events /\ ticket[o.event] # None
                        /\ outcome[o.event] \in Ends
  /\ \A o, p \in objects : o.event = p.event => o = p

IInv == TypeOK /\ Control /\ Tickets /\ Written

-------------------------------------------------------------------------------
\* Facts about the operators.

\* The burst in force is a number, with a configuration and without.
LEMMA ConfigBurst == ASSUME NEW s \in Sources PROVE Config(s).burst \in Nat
  BY ConfigAssumption, Zenon DEF Config, NilConfig

\* The stages that the order of a source leads to.
LEMMA StagesType == ASSUME NEW e, NEW stage
                    PROVE /\ FirstStage(e) \in {"filter", "dedup"}
                          /\ After(e, stage) \in {"filter", "dedup", "hooks"}
  BY Zenon DEF FirstStage, SecondStage, After

\* What a strategy compares is a content, and tells the sources apart.
LEMMA IdType ==
  /\ \A e \in Events : Id(e) \in Keys /\ Source[e] \in Sources
  /\ \A e, f \in Events : Id(e) = Id(f) => Source[e] = Source[f]
<1>1. \A e \in Events : Key[e] \in Keys /\ Source[e] \in Sources
  BY SourceAssumption, Zenon
<1>2. \A e \in Events : Id(e) \in Keys
  BY <1>1, KeyAssumption, Zenon DEF Id
<1>3. \A e \in Events : Id(e) \in {Key[e], Fields[Key[e]]}
  BY Zenon DEF Id
<1> QED BY <1>1, <1>2, <1>3, KeyAssumption, Zenon

\* The deduper's limits are positive numbers.
LEMMA BudgetType == ASSUME NEW s \in Sources PROVE Budget(s) \in Nat \ {0}
  BY ConfigAssumption DEF Budget

\* The bucket of a source that spends.
LEMMA SpendType ==
  ASSUME bucket \in [Sources -> Nat], NEW s \in Sources
  PROVE  /\ Spend(s) \in [Sources -> Nat]
         /\ Spend(s)[s] = (IF bucket[s] > 0 THEN bucket[s] - 1 ELSE 0)
         /\ \A r \in Sources : r # s => Spend(s)[r] = bucket[r]
  BY DEF Spend

\* The namespaces that hooks leave are namespaces.
LEMMA PlaceType == HookNamespaces \cup {DefaultPlace} \subseteq [meta : Namespaces, resource : Namespaces]
<1>1. DefaultPlace \in [meta : Namespaces, resource : Namespaces]
  BY NamespacesAssumption, Zenon DEF DefaultPlace
<1> QED BY <1>1, HooksAssumption, Zenon

\* What CreateCRD writes is an object.
LEMMA ObjectType ==
  ASSUME NEW w \in Workers, place \in [Workers -> HookNamespaces \cup {DefaultPlace}],
         ev[w] \in Events
  PROVE  NewObject(w) \in Objects
<1>1. place[w] \in [meta : Namespaces, resource : Namespaces]
  BY PlaceType, Zenon
<1>2. WriteNamespace(w) \in Namespaces
  BY <1>1, NamespacesAssumption, Zenon DEF WriteNamespace, NonEmpty
<1>3. Source[ev[w]] \in Sources
  BY SourceAssumption, Zenon
<1> QED BY <1>2, <1>3, Zenon DEF NewObject, Objects

\* Counters stay numbers.
LEMMA CountType ==
  ASSUME metrics \in [Counters -> Nat],
         CountCreateError \/ UNCHANGED metrics \/ metrics' = [metrics EXCEPT !["created"] = @ + 1]
  PROVE  metrics' \in [Counters -> Nat]
  BY DEF CountCreateError, Counters

-------------------------------------------------------------------------------
\* The types hold at first.
LEMMA TypeInit == Init => TypeOK
<1>1. \A s \in Sources : Budget(s) \in Nat
  BY BudgetType, Zenon
<1> QED BY <1>1, FiltersAssumption DEF Init, TypeOK, Stages, Outcomes, Ends

\* Every step keeps the types.
LEMMA TypeStep == TypeOK /\ Control /\ [Next]_vars => TypeOK'
<1> SUFFICES ASSUME TypeOK, Control, [Next]_vars PROVE TypeOK'
  BY Zenon
<1>1. CASE \E w \in Workers, e \in Events : Begin(w, e)
  <2>1. PICK w \in Workers, e \in Events : Begin(w, e)
    BY <1>1, Zenon
  <2>2. Source[e] \in Sources /\ Config(Source[e]).burst \in Nat
    BY SourceAssumption, ConfigBurst, Zenon
  <2>3. tokens' \in [Sources -> Nat \cup {None}]
    BY <2>1, <2>2, NoneAssumption DEF Begin, TypeOK, Allow, Tokens
  <2>4. pc' \in [Workers -> Stages] /\ ev' \in [Workers -> Events \cup {None}]
        /\ outcome' \in [Events -> Outcomes] /\ allowed' \subseteq Events
    BY <2>1, StagesType, Zenon DEF Begin, TypeOK, Stages, Outcomes, Ends
  <2> QED BY <2>1, <2>3, <2>4, Zenon DEF Begin, TypeOK, dedupVars
<1>2. CASE \E w \in Workers, e \in Events : RateLimited(w, e)
  <2>1. PICK w \in Workers, e \in Events : RateLimited(w, e)
    BY <1>2, Zenon
  <2>2. tokens' \in [Sources -> Nat \cup {None}]
    BY <2>1, SourceAssumption, Zenon DEF RateLimited, TypeOK
  <2> QED BY <2>1, <2>2, Zenon DEF RateLimited, TypeOK, dedupVars, filterVars, Outcomes, Ends
<1>3. CASE \E w \in Workers : Step(w)
  <2>1. PICK w \in Workers : Step(w)
    BY <1>3, Zenon
  <2>2. Busy(w) /\ ev[w] \in Events
    BY <2>1, Zenon DEF Step, Busy, Control, ApplyFilter, ApplyDedup, Hooks, HookFails, Blocked, Create,
       CreateFails
  <2>3. Id(ev[w]) \in Keys /\ Source[ev[w]] \in Sources
    BY <2>2, IdType, Zenon
  <2>4. CASE ApplyFilter(w)
    <3>1. pc' \in [Workers -> Stages] /\ ev' \in [Workers -> Events \cup {None}]
          /\ outcome' \in [Events -> Outcomes]
      BY <2>4, <2>2, StagesType DEF ApplyFilter, TypeOK, Finish, Goto, Stages, Outcomes, Ends
    <3> QED BY <2>4, <3>1, Zenon DEF ApplyFilter, TypeOK, limitVars, filterVars, dedupVars
  <2>5. CASE ApplyDedup(w)
    <3>1. pc' \in [Workers -> Stages] /\ ev' \in [Workers -> Events \cup {None}]
          /\ outcome' \in [Events -> Outcomes]
      <4>1. Goto(w, After(ev[w], "dedup")) \/ Finish(w, "deduped")
        BY <2>5, Zenon DEF ApplyDedup, Duplicate, OverRate, Fresh
      <4> QED BY <4>1, <2>2, StagesType DEF TypeOK, Finish, Goto, Stages, Outcomes, Ends
    <3>2. /\ seen' = seen \/ seen' = seen \cup {Id(ev[w])}
          /\ window' = window
          /\ ticket' = ticket \/ ticket' = [ticket EXCEPT ![ev[w]] = window[Id(ev[w])]]
          /\ bucket' = bucket \/ bucket' = Spend(Source[ev[w]])
      BY <2>5, Zenon DEF ApplyDedup, Duplicate, OverRate, Fresh, Remember, dedupVars
    <3>3. bucket' \in [Sources -> Nat]
      BY <2>3, <3>2, SpendType, ZenonT(30) DEF TypeOK
    <3>4. seen' \subseteq Keys /\ window' \in [Keys -> Nat] /\ ticket' \in [Events -> Nat \cup {None}]
      BY <2>2, <2>3, <3>2, Zenon DEF TypeOK
    <3> QED BY <2>5, <3>1, <3>3, <3>4, Zenon DEF ApplyDedup, TypeOK, limitVars, filterVars
  <2>6. CASE Hooks(w)
    BY <2>6 DEF Hooks, TypeOK, Goto, Stages, limitVars, filterVars, dedupVars
  <2>7. CASE HookFails(w) \/ Blocked(w) \/ Create(w) \/ CreateFails(w)
    <3>1. metrics' \in [Counters -> Nat]
      BY <2>7, CountType, Zenon DEF HookFails, Blocked, Create, CreateFails, TypeOK
    <3>2. pc' \in [Workers -> Stages] /\ ev' \in [Workers -> Events \cup {None}]
          /\ outcome' \in [Events -> Outcomes]
      BY <2>7, <2>2, Zenon DEF HookFails, Blocked, Create, CreateFails, TypeOK, Finish, Stages, Outcomes,
         Ends
    <3>3. objects' \subseteq Objects
      <4>1. NewObject(w) \in Objects
        BY <2>2, ObjectType, Zenon DEF TypeOK
      <4> QED BY <2>7, <4>1, Zenon DEF HookFails, Blocked, Create, CreateFails, TypeOK
    <3>4. UNCHANGED <<limitVars, filterVars, dedupVars>>
      BY <2>7, Zenon DEF HookFails, Blocked, Create, CreateFails
    <3>5. place' \in [Workers -> HookNamespaces \cup {DefaultPlace}]
      <4>1. place' = place \/ Discard(w)
        BY <2>7, Zenon DEF HookFails, Blocked, Create, CreateFails
      <4> QED BY <4>1, Zenon DEF Discard, TypeOK
    <3> QED BY <3>1, <3>2, <3>3, <3>4, <3>5, Zenon DEF TypeOK, limitVars, filterVars, dedupVars
  <2> QED BY <2>1, <2>4, <2>5, <2>6, <2>7, Zenon DEF Step
<1>4. CASE \E F \in Filters : UpdateFilter(F)
  BY <1>4, FiltersAssumption DEF UpdateFilter, TypeOK, procVars, limitVars, dedupVars
<1>5. CASE \E k \in Keys : Forget(k)
  BY <1>5 DEF Forget, TypeOK, procVars, limitVars, filterVars
<1>6. CASE \E s \in Sources : Refill(s)
  <2>1. PICK s \in Sources : Refill(s)
    BY <1>6, Zenon
  <2>2. tokens[s] \in Nat /\ refills[s] \in Nat
    BY <2>1, Zenon DEF Refill, TypeOK
  <2>3. tokens' \in [Sources -> Nat \cup {None}] /\ refills' \in [Sources -> Nat]
    BY <2>1, <2>2 DEF Refill, TypeOK
  <2> QED BY <2>1, <2>3, Zenon DEF Refill, TypeOK, procVars, filterVars, dedupVars
<1>7. CASE \E s \in Sources : Regain(s)
  <2>1. PICK s \in Sources : Regain(s)
    BY <1>7, Zenon
  <2>2. bucket' \in [Sources -> Nat]
    BY <2>1 DEF Regain, TypeOK
  <2> QED BY <2>1, <2>2, Zenon DEF Regain, TypeOK, procVars, limitVars, filterVars
<1>8. CASE Drained \/ UNCHANGED vars
  BY <1>8, Zenon DEF Drained, TypeOK, vars, procVars, limitVars, dedupVars, filterVars
<1> QED BY <1>1, <1>2, <1>3, <1>4, <1>5, <1>6, <1>7, <1>8, Zenon DEF Next, Work, Step

-------------------------------------------------------------------------------
\* At first no worker is busy, no ticket is given and nothing is written.
LEMMA ControlInit == Init => Control /\ Tickets /\ Written
  BY DEF Init, Control, Tickets, Written, Busy

\* A new event starts at the stage its order says.
LEMMA FirstStageOpen == ASSUME NEW e
                        PROVE /\ FirstStage(e) # "idle"
                              /\ FirstStage(e) = "filter" => ~DedupFirst(e)
                              /\ FirstStage(e) = "dedup" => DedupFirst(e)
  BY Zenon DEF FirstStage

\* Begin gives an idle worker an event nobody has touched.
LEMMA BeginStep ==
  ASSUME IInv, NEW w \in Workers, NEW e \in Events, Begin(w, e)
  PROVE  Control' /\ Tickets' /\ Written'
<1>1. /\ pc' = [pc EXCEPT ![w] = FirstStage(e)]
      /\ ev' = [ev EXCEPT ![w] = e]
      /\ outcome' = [outcome EXCEPT ![e] = "working"]
      /\ seen' = seen /\ window' = window /\ ticket' = ticket /\ objects' = objects
      /\ outcome[e] = None
  BY Zenon DEF Begin, dedupVars
<1>2. ticket[e] = None
  BY <1>1, Zenon DEF IInv, Control
<1>3. pc \in [Workers -> Stages] /\ ev \in [Workers -> Events \cup {None}]
      /\ outcome \in [Events -> Outcomes]
  BY Zenon DEF IInv, TypeOK
<1>4. outcome[e] # "working" /\ outcome[e] \notin Ends
  BY <1>1, NoneAssumption, Zenon
<1>5. \A v \in Workers : v # w => pc'[v] = pc[v] /\ ev'[v] = ev[v]
  BY <1>1, <1>3, Zenon
<1>6. \A v \in Workers : v # w /\ Busy(v) => ev[v] # e
  BY <1>4, Zenon DEF IInv, Control
<1>7. pc'[w] = FirstStage(e) /\ ev'[w] = e /\ outcome'[e] = "working"
  BY <1>1, <1>3, Zenon
<1>8. \A f \in Events : f # e => outcome'[f] = outcome[f]
  BY <1>1, <1>3, Zenon
<1>9. Control'
  <2>1. ASSUME NEW v \in Workers, Busy(v)'
        PROVE  /\ ev'[v] \in Events /\ outcome'[ev'[v]] = "working"
               /\ pc'[v] = FirstStage(ev'[v]) => ticket'[ev'[v]] = None
               /\ pc'[v] = "filter" /\ DedupFirst(ev'[v]) => ticket'[ev'[v]] # None
               /\ pc'[v] = "dedup" => ticket'[ev'[v]] = None
               /\ pc'[v] \in {"hooks", "create"} => ticket'[ev'[v]] # None
    <3>1. CASE v = w
      BY <3>1, <1>1, <1>2, <1>7, StagesType, FirstStageOpen, Zenon
    <3>2. CASE v # w
      <4>1. Busy(v)
        BY <2>1, <3>2, <1>5, Zenon DEF Busy
      <4> QED BY <4>1, <3>2, <1>1, <1>5, <1>6, <1>8 DEF IInv, Control
    <3> QED BY <3>1, <3>2, Zenon
  <2>2. ASSUME NEW v \in Workers, NEW u \in Workers, v # u, Busy(v)', Busy(u)'
        PROVE  ev'[v] # ev'[u]
    BY <2>2, <1>5, <1>6, <1>7, SMTT(30) DEF IInv, Control, Busy
  <2>3. \A f \in Events : outcome'[f] = None => ticket'[f] = None
    BY <1>1, <1>7, <1>8, NoneAssumption, Zenon DEF IInv, Control
  <2> QED BY <2>1, <2>2, <2>3, Zenon DEF Control
<1>10. Tickets'
  BY <1>1, Zenon DEF IInv, Tickets
<1>11. Written'
  BY <1>1, <1>4, <1>8, Zenon DEF IInv, Written
<1> QED BY <1>9, <1>10, <1>11, Zenon

\* A worker finishes its event, having written at most one object for it.
LEMMA FinishStep ==
  ASSUME IInv, NEW w \in Workers, Busy(w), NEW o \in Ends, Finish(w, o),
         UNCHANGED <<seen, window, ticket>>, NEW new,
         objects' = objects \/ /\ objects' = objects \cup {new} /\ new.event = ev[w]
                               /\ ticket[ev[w]] # None
  PROVE  Control' /\ Tickets' /\ Written'
<1> DEFINE e == ev[w]
<1>1. /\ pc' = [pc EXCEPT ![w] = "idle"]
      /\ ev' = [ev EXCEPT ![w] = None]
      /\ outcome' = [outcome EXCEPT ![e] = o]
      /\ seen' = seen /\ window' = window /\ ticket' = ticket
  BY Zenon DEF Finish
<1>2. e \in Events /\ outcome[e] = "working"
  BY Zenon DEF IInv, Control
<1>3. pc \in [Workers -> Stages] /\ ev \in [Workers -> Events \cup {None}]
      /\ outcome \in [Events -> Outcomes]
  BY Zenon DEF IInv, TypeOK
<1>4. \A v \in Workers : v # w => pc'[v] = pc[v] /\ ev'[v] = ev[v]
  BY <1>1, <1>3, Zenon
<1>5. \A v \in Workers : v # w /\ Busy(v) => ev[v] # e
  BY Zenon DEF IInv, Control
<1>6. pc'[w] = "idle" /\ outcome'[e] = o /\ o # None
  BY <1>1, <1>2, <1>3, NoneAssumption, Zenon
<1>7. \A f \in Events : f # e => outcome'[f] = outcome[f]
  BY <1>1, <1>3, Zenon
<1>8. Control'
  <2>1. ASSUME NEW v \in Workers, Busy(v)'
        PROVE  v # w /\ Busy(v) /\ ev'[v] = ev[v] /\ pc'[v] = pc[v]
               /\ outcome'[ev[v]] = outcome[ev[v]]
    <3>1. v # w
      BY <2>1, <1>6, Zenon DEF Busy
    <3>2. Busy(v)
      BY <2>1, <3>1, <1>4, Zenon DEF Busy
    <3> QED BY <3>1, <3>2, <1>4, <1>5, <1>7, Zenon DEF IInv, Control
  <2>2. ASSUME NEW v \in Workers, Busy(v)'
        PROVE  /\ ev'[v] \in Events /\ outcome'[ev'[v]] = "working"
               /\ pc'[v] = FirstStage(ev'[v]) => ticket'[ev'[v]] = None
               /\ pc'[v] = "filter" /\ DedupFirst(ev'[v]) => ticket'[ev'[v]] # None
               /\ pc'[v] = "dedup" => ticket'[ev'[v]] = None
               /\ pc'[v] \in {"hooks", "create"} => ticket'[ev'[v]] # None
    <3>1. /\ Busy(v) /\ ev'[v] = ev[v] /\ pc'[v] = pc[v]
          /\ outcome'[ev[v]] = outcome[ev[v]] /\ ticket'[ev[v]] = ticket[ev[v]]
      BY <1>1, <2>1, <2>2, Zenon
    <3>2. /\ ev[v] \in Events /\ outcome[ev[v]] = "working"
          /\ pc[v] = FirstStage(ev[v]) => ticket[ev[v]] = None
          /\ pc[v] = "filter" /\ DedupFirst(ev[v]) => ticket[ev[v]] # None
          /\ pc[v] = "dedup" => ticket[ev[v]] = None
          /\ pc[v] \in {"hooks", "create"} => ticket[ev[v]] # None
      BY <3>1, Zenon DEF IInv, Control
    <3> QED BY <3>1, <3>2, SMTT(30)
  <2>3. ASSUME NEW v \in Workers, NEW u \in Workers, v # u, Busy(v)', Busy(u)'
        PROVE  ev'[v] # ev'[u]
    BY <2>1, <2>3 DEF IInv, Control
  <2>4. \A f \in Events : outcome'[f] = None => ticket'[f] = None
    BY <1>1, <1>6, <1>7, Zenon DEF IInv, Control
  <2> QED BY <2>2, <2>3, <2>4, Zenon DEF Control
<1>9. Tickets'
  BY <1>1, Zenon DEF IInv, Tickets
<1>10. Written'
  <2>1. \A x \in objects : x.event \in Events /\ x.event # e /\ ticket[x.event] # None
                           /\ outcome'[x.event] \in Ends
    BY <1>2, <1>7, Zenon DEF IInv, Written, Ends
  <2>2. CASE objects' = objects
    BY <2>1, <2>2, <1>1, Zenon DEF IInv, Written
  <2>3. CASE objects' = objects \cup {new} /\ new.event = e /\ ticket[e] # None
    BY <2>1, <2>3, <1>1, <1>2, <1>6, SMTT(30) DEF IInv, Written
  <2> QED BY <2>2, <2>3, Zenon
<1> QED BY <1>8, <1>9, <1>10, Zenon

\* A worker goes to another stage, which its ticket allows.
LEMMA GotoStep ==
  ASSUME IInv, NEW w \in Workers, Busy(w), NEW stage \in Stages \ {"idle"}, Goto(w, stage),
         UNCHANGED dedupVars, UNCHANGED objects, stage # FirstStage(ev[w]),
         stage = "filter" /\ DedupFirst(ev[w]) => ticket[ev[w]] # None,
         stage = "dedup" => ticket[ev[w]] = None,
         stage \in {"hooks", "create"} => ticket[ev[w]] # None
  PROVE  Control' /\ Tickets' /\ Written'
<1>1. /\ pc' = [pc EXCEPT ![w] = stage] /\ ev' = ev /\ outcome' = outcome
      /\ seen' = seen /\ window' = window /\ ticket' = ticket
  BY Zenon DEF Goto, dedupVars
<1>2. pc \in [Workers -> Stages]
  BY Zenon DEF IInv, TypeOK
<1>3. \A v \in Workers : v # w => pc'[v] = pc[v]
  BY <1>1, <1>2, Zenon
<1>4. pc'[w] = stage /\ \A v \in Workers : Busy(v)' => Busy(v)
  BY <1>1, <1>2, <1>3, Zenon DEF Busy
<1>5. ASSUME NEW v \in Workers, Busy(v)'
      PROVE  /\ ev'[v] \in Events /\ outcome'[ev'[v]] = "working"
             /\ pc'[v] = FirstStage(ev'[v]) => ticket'[ev'[v]] = None
             /\ pc'[v] = "filter" /\ DedupFirst(ev'[v]) => ticket'[ev'[v]] # None
             /\ pc'[v] = "dedup" => ticket'[ev'[v]] = None
             /\ pc'[v] \in {"hooks", "create"} => ticket'[ev'[v]] # None
  <2>1. CASE v = w
    BY <2>1, <1>1, <1>4, Zenon DEF IInv, Control
  <2>2. CASE v # w
    BY <2>2, <1>1, <1>3, <1>4, <1>5, SMTT(30) DEF IInv, Control
  <2> QED BY <2>1, <2>2, Zenon
<1>6. Control'
  BY <1>1, <1>4, <1>5, Zenon DEF IInv, Control
<1> QED BY <1>1, <1>6, Zenon DEF IInv, Tickets, Written

\* Dedup lets the event of a worker pass and gives it the ticket of the window.
LEMMA PassDedup ==
  ASSUME IInv, NEW w \in Workers, pc[w] = "dedup", Fresh(w), ApplyDedup(w)
  PROVE  Control' /\ Tickets' /\ Written'
<1> DEFINE e == ev[w]
           k == Id(e)
<1>0. Busy(w) /\ e \in Events /\ outcome[e] = "working" /\ ticket[e] = None
  BY Zenon DEF IInv, Control, Busy
<1>1. /\ pc' = [pc EXCEPT ![w] = After(e, "dedup")] /\ ev' = ev /\ outcome' = outcome
      /\ seen' = seen \cup {k} /\ ticket' = [ticket EXCEPT ![e] = window[k]]
      /\ window' = window /\ objects' = objects /\ k \notin seen
  BY Zenon DEF ApplyDedup, Fresh, Goto, Remember
<1>2. /\ pc \in [Workers -> Stages] /\ ticket \in [Events -> Nat \cup {None}]
      /\ window \in [Keys -> Nat] /\ k \in Keys
  BY <1>0, IdType, Zenon DEF IInv, TypeOK
<1>3. ticket'[e] = window[k] /\ window[k] \in Nat /\ window[k] # None
      /\ \A f \in Events : f # e => ticket'[f] = ticket[f]
  BY <1>0, <1>1, <1>2, NoneAssumption, Zenon
<1>4. /\ pc'[w] = After(e, "dedup") /\ pc'[w] # "idle" /\ pc'[w] # "dedup"
      /\ pc'[w] # FirstStage(e)
      /\ \A v \in Workers : v # w => pc'[v] = pc[v]
  BY <1>1, <1>2, Zenon DEF After, FirstStage, SecondStage
<1>5. ASSUME NEW v \in Workers, Busy(v)'
      PROVE  /\ ev'[v] \in Events /\ outcome'[ev'[v]] = "working"
             /\ pc'[v] = FirstStage(ev'[v]) => ticket'[ev'[v]] = None
             /\ pc'[v] = "filter" /\ DedupFirst(ev'[v]) => ticket'[ev'[v]] # None
             /\ pc'[v] = "dedup" => ticket'[ev'[v]] = None
             /\ pc'[v] \in {"hooks", "create"} => ticket'[ev'[v]] # None
  <2>1. CASE v = w
    BY <2>1, <1>0, <1>1, <1>3, <1>4, Zenon
  <2>2. CASE v # w
    <3>1. Busy(v) /\ pc'[v] = pc[v]
      BY <2>2, <1>4, <1>5, Zenon DEF Busy
    <3>2. ev[v] # e /\ ev[v] \in Events
      BY <2>2, <3>1, <1>0, Zenon DEF IInv, Control
    <3>3. ticket'[ev[v]] = ticket[ev[v]]
      BY <1>3, <3>2, Zenon
    <3> QED BY <3>1, <3>2, <3>3, <1>1, SMTT(30) DEF IInv, Control
  <2> QED BY <2>1, <2>2, Zenon
<1>6. Control'
  <2>1. \A v \in Workers : Busy(v)' => Busy(v)
    BY <1>0, <1>4, Zenon DEF Busy
  <2>2. \A f \in Events : outcome'[f] = None => ticket'[f] = None
    BY <1>0, <1>1, <1>3, NoneAssumption, Zenon DEF IInv, Control
  <2> QED BY <1>1, <1>5, <2>1, <2>2, Zenon DEF IInv, Control
<1>7. Tickets'
  <2>1. ASSUME NEW f \in Events, ticket'[f] # None
        PROVE  /\ ticket'[f] <= window'[Id(f)]
               /\ ticket'[f] = window'[Id(f)] => Id(f) \in seen'
    <3>1. CASE f = e
      BY <3>1, <1>1, <1>3
    <3>2. CASE f # e
      BY <2>1, <3>2, <1>1, <1>3, Zenon DEF IInv, Tickets
    <3> QED BY <3>1, <3>2, Zenon
  <2>2. \A f \in Events : f # e /\ Id(f) = k => ticket[f] # window[k]
    BY <1>1, <1>3, Zenon DEF IInv, Tickets
  <2>3. ASSUME NEW f \in Events, NEW g \in Events, f # g, Id(f) = Id(g), ticket'[f] = ticket'[g]
        PROVE  ticket'[f] = None
    <3>1. CASE f = e
      BY <2>2, <2>3, <3>1, <1>3, Zenon
    <3>2. CASE g = e
      BY <2>2, <2>3, <3>2, <1>3, Zenon
    <3>3. CASE f # e /\ g # e
      BY <2>3, <3>3, <1>3, Zenon DEF IInv, Tickets
    <3> QED BY <3>1, <3>2, <3>3, Zenon
  <2> QED BY <2>1, <2>3, Zenon DEF Tickets
<1>8. Written'
  <2>1. \A x \in objects : x.event # e
    BY <1>0, Zenon DEF IInv, Written, Ends
  <2> QED BY <1>1, <1>3, <2>1, Zenon DEF IInv, Written
<1> QED BY <1>6, <1>7, <1>8, Zenon

\* A worker's step keeps the invariant.
LEMMA WorkerStep ==
  ASSUME IInv, NEW w \in Workers, Step(w)
  PROVE  Control' /\ Tickets' /\ Written'
<1>1. Busy(w) /\ ev[w] \in Events
  BY Zenon DEF Step, Busy, IInv, Control, ApplyFilter, ApplyDedup, Hooks, HookFails, Blocked,
     Create, CreateFails
<1>2. CASE ApplyFilter(w)
  <2>1. CASE Rejected(ev[w])
    <3>1. Finish(w, "filtered") /\ UNCHANGED <<seen, window, ticket>> /\ objects' = objects
      BY <2>1, <1>2, Zenon DEF ApplyFilter, dedupVars
    <3> QED BY <3>1, <1>1, FinishStep, Zenon DEF Ends
  <2>2. CASE ~Rejected(ev[w])
    <3>1. /\ After(ev[w], "filter") \in Stages \ {"idle"}
          /\ Goto(w, After(ev[w], "filter")) /\ UNCHANGED dedupVars /\ UNCHANGED objects
      BY <2>2, <1>2, StagesType, Zenon DEF ApplyFilter, Stages
    <3>2. /\ After(ev[w], "filter") # FirstStage(ev[w])
          /\ After(ev[w], "filter") # "filter"
          /\ After(ev[w], "filter") = "dedup" => FirstStage(ev[w]) = "filter"
          /\ After(ev[w], "filter") = "hooks" => DedupFirst(ev[w])
      BY Zenon DEF After, FirstStage, SecondStage
    <3>3. /\ After(ev[w], "filter") = "dedup" => ticket[ev[w]] = None
          /\ After(ev[w], "filter") = "hooks" => ticket[ev[w]] # None
      BY <1>1, <1>2, <3>2, Zenon DEF ApplyFilter, IInv, Control
    <3>4. After(ev[w], "filter") # "create"
      BY StagesType, Zenon
    <3> QED BY <1>1, <3>1, <3>2, <3>3, <3>4, GotoStep, Zenon
  <2> QED BY <2>1, <2>2, Zenon
<1>3. CASE ApplyDedup(w)
  <2>1. CASE Duplicate(w) \/ OverRate(w)
    <3>1. Finish(w, "deduped") /\ UNCHANGED <<seen, window, ticket>> /\ objects' = objects
      BY <2>1, <1>3, Zenon DEF ApplyDedup, Duplicate, OverRate, dedupVars
    <3> QED BY <3>1, <1>1, FinishStep, Zenon DEF Ends
  <2>2. CASE Fresh(w)
    BY <2>2, <1>3, PassDedup, Zenon DEF ApplyDedup
  <2> QED BY <1>3, <2>1, <2>2, Zenon DEF ApplyDedup
<1>4. CASE Hooks(w)
  <2>1. ticket[ev[w]] # None /\ "create" # FirstStage(ev[w])
    BY <1>1, <1>4, Zenon DEF Hooks, IInv, Control, FirstStage
  <2> QED BY <2>1, <1>1, <1>4, GotoStep, ZenonT(30) DEF Hooks, Stages
<1>5. CASE HookFails(w) \/ Blocked(w)
  <2>1. \E o \in Ends : Finish(w, o)
    BY <1>5, Zenon DEF HookFails, Blocked, Ends
  <2>2. UNCHANGED <<seen, window, ticket>> /\ objects' = objects
    BY <1>5, Zenon DEF HookFails, Blocked, dedupVars
  <2> QED BY <2>1, <2>2, <1>1, FinishStep, Zenon
<1>6. CASE Create(w) \/ CreateFails(w)
  <2>1. objects' \in {objects, objects \cup {NewObject(w)}}
    BY <1>6, Zenon DEF Create, CreateFails
  <2>2. NewObject(w).event = ev[w]
    BY Zenon DEF NewObject
  <2>3. ticket[ev[w]] # None
    BY <1>1, <1>6, Zenon DEF Create, CreateFails, IInv, Control
  <2>4. PICK o \in Ends : Finish(w, o)
    BY <1>6, ZenonT(30) DEF Create, CreateFails, Ends
  <2>5. UNCHANGED <<seen, window, ticket>>
    BY <1>6, Zenon DEF Create, CreateFails, dedupVars
  <2> QED BY <2>1, <2>2, <2>3, <2>4, <2>5, <1>1, FinishStep, Zenon
<1> QED BY <1>2, <1>3, <1>4, <1>5, <1>6, Zenon DEF Step

\* Every step keeps the invariant.
LEMMA InductiveStep == IInv /\ [Next]_vars => IInv'
<1> SUFFICES ASSUME IInv, [Next]_vars PROVE IInv'
  BY Zenon
<1>1. TypeOK'
  BY TypeStep, Zenon DEF IInv
<1>2. CASE \E w \in Workers, e \in Events : Begin(w, e)
  BY <1>1, <1>2, BeginStep, Zenon DEF IInv
<1>3. CASE \E w \in Workers : Step(w)
  BY <1>1, <1>3, WorkerStep, Zenon DEF IInv
<1>4. CASE \E w \in Workers, e \in Events : RateLimited(w, e)
  <2>1. PICK w \in Workers, e \in Events : RateLimited(w, e)
    BY <1>4, Zenon
  <2>2. /\ outcome[e] = None /\ outcome' = [outcome EXCEPT ![e] = "rate_limited"]
        /\ UNCHANGED <<pc, ev, seen, window, ticket, objects>>
    BY <2>1, Zenon DEF RateLimited, dedupVars
  <2>3. outcome'[e] \in Ends /\ outcome'[e] # None /\ outcome[e] # "working"
        /\ \A f \in Events : f # e => outcome'[f] = outcome[f]
    BY <2>2, NoneAssumption, Zenon DEF IInv, TypeOK, Ends
  <2>4. Control'
    <3>1. \A v \in Workers : Busy(v)' <=> Busy(v)
      BY <2>2, Zenon DEF Busy
    <3>2. \A v \in Workers : Busy(v) => outcome'[ev[v]] = outcome[ev[v]]
      BY <2>3, ZenonT(60) DEF IInv, Control
    <3> QED
      BY <2>2, <2>3, <3>1, <3>2, ZenonT(60) DEF IInv, Control
  <2>5. Tickets' /\ Written'
    BY <2>2, <2>3, Zenon DEF IInv, Tickets, Written
  <2> QED BY <1>1, <2>4, <2>5, Zenon DEF IInv
<1>5. CASE \E k \in Keys : Forget(k)
  <2>1. PICK k \in Keys : Forget(k)
    BY <1>5, Zenon
  <2>2. /\ seen' = seen \ {k} /\ window' = [window EXCEPT ![k] = @ + 1]
        /\ UNCHANGED <<pc, ev, outcome, ticket, objects>>
    BY <2>1, Zenon DEF Forget, procVars
  <2>3. window'[k] = window[k] + 1 /\ window[k] \in Nat
        /\ \A j \in Keys : j # k => window'[j] = window[j]
    BY <2>2, Zenon DEF IInv, TypeOK
  <2>4. ASSUME NEW e \in Events, ticket'[e] # None
        PROVE  /\ ticket'[e] <= window'[Id(e)]
               /\ ticket'[e] = window'[Id(e)] => Id(e) \in seen'
    <3>1. ticket[e] \in Nat /\ ticket[e] <= window[Id(e)]
          /\ (ticket[e] = window[Id(e)] => Id(e) \in seen) /\ Id(e) \in Keys
      BY <2>2, <2>4, IdType, Zenon DEF IInv, TypeOK, Tickets
    <3>2. CASE Id(e) = k
      BY <2>2, <2>3, <3>1, <3>2
    <3>3. CASE Id(e) # k
      BY <2>2, <2>3, <3>1, <3>3, Zenon
    <3> QED BY <3>2, <3>3, Zenon
  <2>5. Tickets'
    BY <2>2, <2>4, Zenon DEF IInv, Tickets
  <2>6. Control' /\ Written'
    BY <2>2, Zenon DEF IInv, Control, Written, Busy
  <2> QED BY <1>1, <2>5, <2>6, Zenon DEF IInv
<1>6. CASE (\E F \in Filters : UpdateFilter(F)) \/ (\E s \in Sources : Refill(s) \/ Regain(s))
            \/ Drained \/ UNCHANGED vars
  <2>1. UNCHANGED <<pc, ev, outcome, seen, window, ticket, objects>>
    BY <1>6, Zenon DEF UpdateFilter, Refill, Regain, Drained, vars, procVars, dedupVars
  <2> QED BY <1>1, <2>1, ZenonT(30) DEF IInv, Control, Tickets, Written, Busy
<1> QED BY <1>2, <1>3, <1>4, <1>5, <1>6, Zenon DEF Next, Work, Step

\* The pipeline keeps the types of its state, and with them the link between
\* the stage a worker is in and what its event has been through.
THEOREM PipelineInvariant == Spec => []IInv
<1>1. Init => IInv
  BY TypeInit, ControlInit, Zenon DEF IInv
<1> QED BY <1>1, InductiveStep, PTL DEF Spec

\* Every variable of the pipeline keeps its type: each worker is in a stage
\* ProcessEvent has, and each event's outcome is one ProcessEvent can give.
THEOREM PipelineTypes == Spec => []TypeOK
<1>1. IInv => TypeOK
  BY Zenon DEF IInv
<1> QED BY <1>1, PipelineInvariant, PTL

\* However many workers run ProcessEvent, events that the strategy of their
\* source takes for the same are written at most once in a dedup window.
THEOREM AtMostOneObservation == Spec => []OneObservationPerWindow
<1>1. IInv => OneObservationPerWindow
  <2> SUFFICES ASSUME IInv, NEW o \in objects, NEW p \in objects,
                      Id(o.event) = Id(p.event), ticket[o.event] = ticket[p.event]
               PROVE  o = p
    BY Zenon DEF OneObservationPerWindow
  <2>1. o.event \in Events /\ p.event \in Events /\ ticket[o.event] # None
    BY Zenon DEF IInv, Written
  <2>2. o.event = p.event
    BY <2>1, Zenon DEF IInv, Tickets
  <2> QED BY <2>2, Zenon DEF IInv, Written
<1> QED BY <1>1, PipelineInvariant, PTL

-------------------------------------------------------------------------------
(* The filter.                                                             *)

Passed(w) == pc[w] \in {"hooks", "create"} \/ (pc[w] = "dedup" /\ ~DedupFirst(ev[w]))

\* An event under way that the current filter allows has been allowed, and so
\* has an event past the filter, whatever the current filter says.
FilterInv ==
  /\ \A e \in Events : outcome[e] = "working" /\ Key[e] \notin rejects => e \in allowed
  /\ \A w \in Workers : Passed(w) => ev[w] \in allowed
  /\ FilterRespected

\* A worker ends its event; what it writes has passed the filter.
LEMMA FilterFinish ==
  ASSUME IInv, FilterInv, NEW w \in Workers, Busy(w), NEW o \in Ends, Finish(w, o),
         UNCHANGED filterVars, NEW new,
         objects' = objects \/ /\ objects' = objects \cup {new} /\ new.event = ev[w]
                               /\ Passed(w)
  PROVE  FilterInv'
<1>1. /\ pc' = [pc EXCEPT ![w] = "idle"] /\ ev' = [ev EXCEPT ![w] = None]
      /\ outcome' = [outcome EXCEPT ![ev[w]] = o]
      /\ rejects' = rejects /\ allowed' = allowed
  BY Zenon DEF Finish, filterVars
<1>2. pc \in [Workers -> Stages] /\ ev \in [Workers -> Events \cup {None}]
      /\ outcome \in [Events -> Outcomes] /\ ev[w] \in Events /\ o # "working"
  BY Zenon DEF IInv, TypeOK, Control, Ends
<1>3. \A e \in Events : outcome'[e] = "working" => outcome[e] = "working"
  BY <1>1, <1>2, Zenon
<1>4. \A v \in Workers : Passed(v)' => Passed(v) /\ ev'[v] = ev[v]
  BY <1>1, <1>2, Zenon DEF Passed
<1>5. FilterRespected'
  BY <1>1, Zenon DEF FilterInv, FilterRespected
<1>6. \A e \in Events : outcome'[e] = "working" /\ Key[e] \notin rejects' => e \in allowed'
  BY <1>1, <1>3, Zenon DEF FilterInv
<1>7. \A v \in Workers : Passed(v)' => ev'[v] \in allowed'
  <2> SUFFICES ASSUME NEW v \in Workers, Passed(v)' PROVE ev'[v] \in allowed'
    BY Zenon
  <2>1. Passed(v) /\ ev'[v] = ev[v]
    BY <1>4, Zenon
  <2>2. ev[v] \in allowed
    BY <2>1, Zenon DEF FilterInv
  <2> QED BY <1>1, <2>1, <2>2
<1> QED BY <1>5, <1>6, <1>7, Zenon DEF FilterInv

\* A worker goes on; behind the filter only with an event it allowed.
LEMMA FilterGoto ==
  ASSUME IInv, FilterInv, NEW w \in Workers, NEW stage, Goto(w, stage),
         UNCHANGED filterVars, UNCHANGED objects, ev[w] \in allowed \/ stage = "filter"
  PROVE  FilterInv'
<1>1. /\ pc' = [pc EXCEPT ![w] = stage] /\ ev' = ev /\ outcome' = outcome
      /\ rejects' = rejects /\ allowed' = allowed
  BY Zenon DEF Goto, filterVars
<1>2. pc \in [Workers -> Stages]
  BY Zenon DEF IInv, TypeOK
<1>3. \A v \in Workers : Passed(v)' => ev'[v] \in allowed
  BY <1>1, <1>2, Zenon DEF Passed, FilterInv
<1> QED BY <1>1, <1>3, Zenon DEF FilterInv, FilterRespected

\* A worker's step keeps FilterInv.
LEMMA FilterWorker ==
  ASSUME IInv, FilterInv, NEW w \in Workers, Step(w)
  PROVE  FilterInv'
<1>1. Busy(w) /\ ev[w] \in Events /\ outcome[ev[w]] = "working"
  BY Zenon DEF Step, Busy, IInv, Control, ApplyFilter, ApplyDedup, Hooks, HookFails, Blocked,
     Create, CreateFails
<1>2. CASE ApplyFilter(w)
  <2>1. CASE Rejected(ev[w])
    BY <2>1, <1>1, <1>2, FilterFinish, Zenon DEF ApplyFilter, Ends
  <2>2. CASE ~Rejected(ev[w])
    <3>1. ev[w] \in allowed
      BY <2>2, <1>1, Zenon DEF Rejected, FilterInv
    <3> QED BY <2>2, <3>1, <1>2, FilterGoto, Zenon DEF ApplyFilter
  <2> QED BY <2>1, <2>2, Zenon
<1>3. CASE ApplyDedup(w)
  <2>1. CASE Duplicate(w) \/ OverRate(w)
    <3>1. Finish(w, "deduped") /\ UNCHANGED filterVars /\ objects' = objects
      BY <2>1, <1>3, Zenon DEF ApplyDedup, Duplicate, OverRate
    <3> QED BY <3>1, <1>1, FilterFinish, Zenon DEF Ends
  <2>2. CASE Fresh(w)
    <3>1. After(ev[w], "dedup") = "filter" \/ ~DedupFirst(ev[w])
      BY Zenon DEF After, FirstStage, SecondStage
    <3>2. ev[w] \in allowed \/ After(ev[w], "dedup") = "filter"
      BY <3>1, <1>3, Zenon DEF ApplyDedup, FilterInv, Passed
    <3> QED BY <2>2, <3>2, <1>3, FilterGoto, Zenon DEF ApplyDedup, Fresh
  <2> QED BY <1>3, <2>1, <2>2, Zenon DEF ApplyDedup
<1>4. CASE Hooks(w)
  BY <1>4, FilterGoto, Zenon DEF Hooks, FilterInv, Passed
<1>5. CASE HookFails(w) \/ Blocked(w)
  <2>1. \E o \in Ends : Finish(w, o)
    BY <1>5, Zenon DEF HookFails, Blocked, Ends
  <2> QED BY <2>1, <1>1, <1>5, FilterFinish, Zenon DEF HookFails, Blocked
<1>6. CASE Create(w) \/ CreateFails(w)
  <2>1. objects' \in {objects, objects \cup {NewObject(w)}}
    BY <1>6, Zenon DEF Create, CreateFails
  <2>2. NewObject(w).event = ev[w]
    BY Zenon DEF NewObject
  <2>3. Passed(w) /\ UNCHANGED filterVars
    BY <1>6, ZenonT(30) DEF Create, CreateFails, Passed
  <2>4. PICK o \in Ends : Finish(w, o)
    BY <1>6, Zenon DEF Create, CreateFails, Ends
  <2> QED BY <2>1, <2>2, <2>3, <2>4, <1>1, FilterFinish, Zenon
<1> QED BY <1>2, <1>3, <1>4, <1>5, <1>6, Zenon DEF Step

\* Every step keeps FilterInv, the replacement of the filter included.
LEMMA FilterStep == IInv /\ FilterInv /\ [Next]_vars => FilterInv'
<1> SUFFICES ASSUME IInv, FilterInv, [Next]_vars PROVE FilterInv'
  BY Zenon
<1>1. pc \in [Workers -> Stages] /\ ev \in [Workers -> Events \cup {None}]
      /\ outcome \in [Events -> Outcomes]
  BY Zenon DEF IInv, TypeOK
<1>2. CASE \E w \in Workers, e \in Events : Begin(w, e)
  <2>1. PICK w \in Workers, e \in Events : Begin(w, e)
    BY <1>2, Zenon
  <2>2. /\ pc' = [pc EXCEPT ![w] = FirstStage(e)] /\ ev' = [ev EXCEPT ![w] = e]
        /\ outcome' = [outcome EXCEPT ![e] = "working"] /\ rejects' = rejects
        /\ allowed \subseteq allowed' /\ (Key[e] \notin rejects => e \in allowed')
        /\ objects' = objects
    BY <2>1, Zenon DEF Begin
  <2>3. \A v \in Workers : Passed(v)' => v # w /\ Passed(v) /\ ev'[v] = ev[v]
    BY <1>1, <2>2, FirstStageOpen, StagesType, Zenon DEF Passed
  <2>4. \A f \in Events : f # e => outcome'[f] = outcome[f]
    BY <1>1, <2>2, Zenon
  <2> QED BY <2>2, <2>3, <2>4, Zenon DEF FilterInv, FilterRespected
<1>3. CASE \E w \in Workers : Step(w)
  BY <1>3, FilterWorker, Zenon
<1>4. CASE \E w \in Workers, e \in Events : RateLimited(w, e)
  <2>1. PICK w \in Workers, e \in Events : RateLimited(w, e)
    BY <1>4, Zenon
  <2>2. /\ outcome' = [outcome EXCEPT ![e] = "rate_limited"]
        /\ UNCHANGED <<pc, ev, rejects, allowed, objects>>
    BY <2>1, Zenon DEF RateLimited, filterVars
  <2>3. \A f \in Events : outcome'[f] = "working" => outcome[f] = "working"
    BY <1>1, <2>2, Zenon
  <2> QED BY <2>2, <2>3, Zenon DEF FilterInv, FilterRespected, Passed
<1>5. CASE \E F \in Filters : UpdateFilter(F)
  <2>1. PICK F \in Filters : UpdateFilter(F)
    BY <1>5, Zenon
  <2>2. /\ rejects' = F
        /\ allowed' = allowed \cup {e \in Events : outcome[e] = "working" /\ Key[e] \notin F}
        /\ UNCHANGED <<pc, ev, outcome, objects>>
    BY <2>1, Zenon DEF UpdateFilter, procVars
  <2> QED BY <2>2, Zenon DEF FilterInv, FilterRespected, Passed
<1>6. CASE (\E k \in Keys : Forget(k)) \/ (\E s \in Sources : Refill(s) \/ Regain(s))
            \/ Drained \/ UNCHANGED vars
  <2>1. UNCHANGED <<pc, ev, outcome, rejects, allowed, objects>>
    BY <1>6, Zenon DEF Forget, Refill, Regain, Drained, vars, procVars, filterVars
  <2> QED BY <2>1, Zenon DEF FilterInv, FilterRespected, Passed
<1> QED BY <1>2, <1>3, <1>4, <1>5, <1>6, Zenon DEF Next, Work, Step

\* An object is written only for an event some filter in force during its
\* processing allowed, however often Filter.UpdateConfig is called meanwhile.
THEOREM FilterDecides == Spec => []FilterRespected
<1>1. Init => FilterInv
  BY NoneAssumption, Zenon DEF Init, FilterInv, FilterRespected, Passed
<1>2. FilterInv => FilterRespected
  BY Zenon DEF FilterInv
<1> QED BY <1>1, <1>2, FilterStep, PipelineInvariant, PTL DEF Spec

-------------------------------------------------------------------------------
\* Nothing is written outside the allowlist, whatever namespace a hook leaves:
\* CreateCRD asks IsAllowed about the very GVR and namespace it writes.
THEOREM OnlyPermittedWrites == Spec => []WritesPermitted
<1>1. Init => WritesPermitted
  BY Zenon DEF Init, WritesPermitted
<1>2. WritesPermitted /\ [Next]_vars => WritesPermitted'
  <2> SUFFICES ASSUME WritesPermitted, [Next]_vars PROVE WritesPermitted'
    BY Zenon
  <2>1. CASE objects' = objects
    BY <2>1, Zenon DEF WritesPermitted
  <2>2. CASE \E w \in Workers : Create(w) \/ CreateFails(w)
    <3>1. PICK w \in Workers : Create(w) \/ CreateFails(w)
      BY <2>2, Zenon
    <3>2. objects' \in {objects, objects \cup {NewObject(w)}}
      BY <3>1, Zenon DEF Create, CreateFails
    <3>3. IsAllowed(Gvr[Source[ev[w]]], WriteNamespace(w))
      BY <3>1, ZenonT(30) DEF Create, CreateFails, Permitted
    <3>4. /\ NewObject(w).gvr \in AllowedGVRs \ DeniedGVRs
          /\ AllowedNamespaces # {} => NewObject(w).namespace \in AllowedNamespaces
      BY <3>3, Zenon DEF IsAllowed, NewObject
    <3> QED BY <3>2, <3>4, Zenon DEF WritesPermitted
  <2>3. objects' = objects \/ \E w \in Workers : Create(w) \/ CreateFails(w)
    BY ZenonT(30) DEF Next, Work, Begin, RateLimited, ApplyFilter, ApplyDedup, Hooks, HookFails,
           Blocked, UpdateFilter, Forget, Refill, Regain, Drained, vars
  <2> QED BY <2>1, <2>2, <2>3, Zenon
<1> QED BY <1>1, <1>2, PTL DEF Spec

-------------------------------------------------------------------------------
(* The rate limiter.                                                       *)

\* The events of a source that CheckEvent has let through.
Admitted(s) == {e \in Events : /\ Source[e] = s
                               /\ outcome[e] \notin {None, "rate_limited"}}

\* An admitted event has taken a token from what the limiter was given: its
\* burst and the tokens it regained.
LimitInv ==
  \A s \in Sources : Limited(s) =>
    /\ IsFiniteSet(Admitted(s))
    /\ Cardinality(Admitted(s)) + Tokens(s) <= Config(s).burst + refills[s]

\* Tokens, refills and bursts are numbers.
LEMMA TokensType ==
  ASSUME IInv, NEW s \in Sources
  PROVE  Tokens(s) \in Nat /\ refills[s] \in Nat /\ Config(s).burst \in Nat
<1>1. Config(s).burst \in Nat
  BY ConfigBurst, Zenon
<1>2. tokens[s] \in Nat \cup {None} /\ refills[s] \in Nat
  BY Zenon DEF IInv, TypeOK
<1> QED BY <1>1, <1>2, Zenon DEF Tokens

\* Nothing a worker does with an event it has begun concerns the limiter.
LEMMA WorkerAdmits ==
  ASSUME IInv, NEW w \in Workers, Step(w)
  PROVE  /\ UNCHANGED limitVars
         /\ \A s \in Sources : Admitted(s)' = Admitted(s)
<1>1. ev[w] \in Events /\ outcome[ev[w]] = "working"
  BY ZenonT(30) DEF Step, Busy, IInv, Control, ApplyFilter, ApplyDedup, Hooks, HookFails, Blocked,
     Create, CreateFails
<1>2. \/ outcome' = outcome
      \/ \E o \in Ends \ {"rate_limited"} : outcome' = [outcome EXCEPT ![ev[w]] = o]
  BY ZenonT(30) DEF Step, Finish, Goto, Ends, ApplyFilter, ApplyDedup, Duplicate, OverRate, Fresh,
     Hooks, HookFails, Blocked, Create, CreateFails
<1>3. \A e \in Events : outcome'[e] \in {None, "rate_limited"}
                          <=> outcome[e] \in {None, "rate_limited"}
  BY <1>1, <1>2, NoneAssumption, ZenonT(30) DEF IInv, TypeOK, Ends
<1>4. UNCHANGED limitVars
  BY Zenon DEF Step, ApplyFilter, ApplyDedup, Hooks, HookFails, Blocked, Create, CreateFails
<1> QED BY <1>3, <1>4, Zenon DEF Admitted

\* An event CheckEvent lets through costs its limiter a token.
LEMMA BeginAdmits ==
  ASSUME IInv, LimitInv, NEW w \in Workers, NEW e \in Events, Begin(w, e)
  PROVE  LimitInv'
<1> SUFFICES ASSUME NEW s \in Sources, Limited(s)
             PROVE  /\ IsFiniteSet(Admitted(s))'
                    /\ (Cardinality(Admitted(s)) + Tokens(s) <= Config(s).burst + refills[s])'
  BY Zenon DEF LimitInv, Limited
<1>1. /\ outcome[e] = None /\ outcome' = [outcome EXCEPT ![e] = "working"]
      /\ refills' = refills
  BY Zenon DEF Begin
<1>2. outcome \in [Events -> Outcomes] /\ tokens \in [Sources -> Nat \cup {None}]
  BY Zenon DEF IInv, TypeOK
<1>3. outcome'[e] = "working" /\ \A f \in Events : f # e => outcome'[f] = outcome[f]
  BY <1>1, <1>2, Zenon
<1>4. /\ IsFiniteSet(Admitted(s))
      /\ Cardinality(Admitted(s)) + Tokens(s) <= Config(s).burst + refills[s]
  BY Zenon DEF LimitInv
<1>5. Cardinality(Admitted(s)) \in Nat
  BY <1>4, FS_CardinalityType, Zenon
<1>6. CASE Source[e] = s
  <2>1. Admitted(s)' = Admitted(s) \cup {e} /\ e \notin Admitted(s)
    BY <1>1, <1>3, <1>6, NoneAssumption, Zenon DEF Admitted
  <2>2. IsFiniteSet(Admitted(s)') /\ Cardinality(Admitted(s)') = Cardinality(Admitted(s)) + 1
    BY <1>4, <2>1, FS_AddElement, Zenon
  <2>3. tokens' = [tokens EXCEPT ![s] = Tokens(s) - 1] /\ Tokens(s) > 0
    BY <1>6, ZenonT(30) DEF Begin, Allow
  <2>4. Tokens(s)' = Tokens(s) - 1
    <3>1. tokens'[s] = Tokens(s) - 1 /\ Tokens(s) - 1 \in Nat
      BY <1>2, <2>3, TokensType, SMTT(30)
    <3> QED BY <3>1, NoneAssumption, Zenon DEF Tokens
  <2> QED BY <1>1, <1>4, <1>5, <2>2, <2>4, TokensType, SMTT(30) DEF Config
<1>7. CASE Source[e] # s
  <2>1. Admitted(s)' = Admitted(s)
    BY <1>3, <1>7, Zenon DEF Admitted
  <2>2. tokens'[s] = tokens[s]
    BY <1>2, <1>7, Zenon DEF Begin
  <2> QED BY <1>1, <1>4, <2>1, <2>2, Zenon DEF Tokens, Config
<1> QED BY <1>6, <1>7, Zenon

\* Every step keeps LimitInv: an admission takes a token, a refill is counted.
LEMMA LimitStep == IInv /\ LimitInv /\ [Next]_vars => LimitInv'
<1> SUFFICES ASSUME IInv, LimitInv, [Next]_vars PROVE LimitInv'
  BY Zenon
<1>1. outcome \in [Events -> Outcomes] /\ tokens \in [Sources -> Nat \cup {None}]
      /\ refills \in [Sources -> Nat]
  BY Zenon DEF IInv, TypeOK
<1>2. CASE /\ \A s \in Sources : Admitted(s)' = Admitted(s)
           /\ UNCHANGED limitVars
  BY <1>2, Zenon DEF LimitInv, limitVars, Tokens, Limited, Config
<1>3. CASE \E w \in Workers, e \in Events : Begin(w, e)
  BY <1>3, BeginAdmits, Zenon
<1>4. CASE \E w \in Workers : Step(w)
  BY <1>2, <1>4, WorkerAdmits, Zenon
<1>5. CASE \E w \in Workers, e \in Events : RateLimited(w, e)
  <2>1. PICK w \in Workers, e \in Events : RateLimited(w, e)
    BY <1>5, Zenon
  <2>2. /\ outcome[e] = None /\ outcome' = [outcome EXCEPT ![e] = "rate_limited"]
        /\ tokens' = [tokens EXCEPT ![Source[e]] = 0] /\ refills' = refills
        /\ ~(Tokens(Source[e]) > 0) /\ Source[e] \in Sources
    BY <2>1, SourceAssumption, Zenon DEF RateLimited, Allow
  <2>3. \A s \in Sources : Admitted(s)' = Admitted(s)
    BY <1>1, <2>2, Zenon DEF Admitted
  <2>4. ASSUME NEW s \in Sources PROVE Tokens(s)' = Tokens(s)
    <3>1. CASE s = Source[e]
      BY <1>1, <2>2, <3>1, TokensType, NoneAssumption, SMTT(30) DEF Tokens
    <3>2. CASE s # Source[e]
      BY <1>1, <2>2, <3>2, Zenon DEF Tokens, Config
    <3> QED BY <3>1, <3>2, Zenon
  <2> QED BY <2>2, <2>3, <2>4, Zenon DEF LimitInv, Limited, Config
<1>6. CASE \E s \in Sources : Refill(s)
  <2>1. PICK r \in Sources : Refill(r)
    BY <1>6, Zenon
  <2>2. \A s \in Sources : Admitted(s)' = Admitted(s)
    BY <2>1, Zenon DEF Refill, procVars, Admitted
  <2>3. ASSUME NEW s \in Sources, Limited(s)
        PROVE  /\ IsFiniteSet(Admitted(s))'
               /\ (Cardinality(Admitted(s)) + Tokens(s) <= Config(s).burst + refills[s])'
    <3>1. /\ IsFiniteSet(Admitted(s))
          /\ Cardinality(Admitted(s)) + Tokens(s) <= Config(s).burst + refills[s]
      BY <2>3, Zenon DEF LimitInv
    <3>2. Cardinality(Admitted(s)) \in Nat
      BY <3>1, FS_CardinalityType, Zenon
    <3>3. CASE s = r
      <4>1. tokens[s] \in Nat /\ tokens'[s] = tokens[s] + 1 /\ refills'[s] = refills[s] + 1
        BY <1>1, <2>1, <3>3, Zenon DEF Refill
      <4>2. Tokens(s)' = Tokens(s) + 1
        BY <4>1, NoneAssumption, SMTT(30) DEF Tokens
      <4> QED BY <2>2, <3>1, <3>2, <4>1, <4>2, TokensType DEF Config
    <3>4. CASE s # r
      <4>1. tokens'[s] = tokens[s] /\ refills'[s] = refills[s]
        BY <1>1, <2>1, <3>4, Zenon DEF Refill
      <4> QED BY <2>2, <3>1, <4>1, Zenon DEF Tokens, Config
    <3> QED BY <3>3, <3>4, Zenon
  <2> QED BY <2>3, Zenon DEF LimitInv, Limited
<1>7. CASE (\E F \in Filters : UpdateFilter(F)) \/ (\E k \in Keys : Forget(k))
            \/ (\E s \in Sources : Regain(s)) \/ Drained \/ UNCHANGED vars
  <2>1. UNCHANGED <<outcome, tokens, refills>>
    BY <1>7, Zenon DEF UpdateFilter, Forget, Regain, Drained, vars, procVars, limitVars
  <2> QED BY <1>2, <2>1, Zenon DEF Admitted, limitVars
<1> QED BY <1>3, <1>4, <1>5, <1>6, <1>7, Zenon DEF Next, Work, Step

\* A source with a rate limit never gets more events past CheckEvent than its
\* burst and the tokens regained since, whatever the number of workers.
THEOREM AdmittedWithinLimit == Spec => []RateLimitHolds
<1>1. Init => LimitInv
  <2> SUFFICES ASSUME Init, NEW s \in Sources
               PROVE  /\ IsFiniteSet(Admitted(s))
                      /\ Cardinality(Admitted(s)) + Tokens(s) <= Config(s).burst + refills[s]
    BY Zenon DEF LimitInv
  <2>1. Admitted(s) = {} /\ tokens[s] = None /\ refills[s] = 0
    BY Zenon DEF Init, Admitted
  <2> QED BY <2>1, FS_EmptySet, ConfigBurst DEF Tokens
<1>2. IInv /\ LimitInv => RateLimitHolds
  <2> SUFFICES ASSUME IInv, LimitInv, NEW s \in Sources, Limited(s)
               PROVE  Cardinality(Admitted(s)) <= Config(s).burst + refills[s]
    BY Zenon DEF RateLimitHolds, Admitted
  <2>1. /\ IsFiniteSet(Admitted(s))
        /\ Cardinality(Admitted(s)) + Tokens(s) <= Config(s).burst + refills[s]
    BY Zenon DEF LimitInv
  <2>2. Cardinality(Admitted(s)) \in Nat
    BY <2>1, FS_CardinalityType, Zenon
  <2> QED BY <2>1, <2>2, TokensType
<1> QED BY <1>1, <1>2, LimitStep, PipelineInvariant, PTL DEF Spec

-------------------------------------------------------------------------------
(* The metrics.                                                            *)

MetricsInv == IsFiniteSet(objects) /\ MetricsAgree

\* A worker that is refused leaves the objects alone and counts an error.
LEMMA NoWriteStep ==
  ASSUME IInv, MetricsInv, objects' = objects, metrics'["created"] = metrics["created"],
         metrics'["create_errors"] = metrics["create_errors"] + 1
  PROVE  MetricsInv'
<1>1. /\ IsFiniteSet(objects) /\ metrics["created"] <= Cardinality(objects)
      /\ Cardinality(objects) <= metrics["created"] + metrics["create_errors"]
  BY Zenon DEF MetricsInv, MetricsAgree
<1>2. Cardinality(objects) \in Nat /\ metrics["created"] \in Nat /\ metrics["create_errors"] \in Nat
  BY <1>1, FS_CardinalityType, Zenon DEF IInv, TypeOK, Counters
<1> QED BY <1>1, <1>2 DEF MetricsInv, MetricsAgree

\* Every object is for an event of its own: the one a worker is about to write
\* is new.
LEMMA ObjectIsNew ==
  ASSUME IInv, NEW w \in Workers, pc[w] = "create"
  PROVE  NewObject(w) \notin objects
<1>1. outcome[ev[w]] = "working" /\ "working" \notin Ends
  BY Zenon DEF IInv, Control, Busy, Ends
<1>2. NewObject(w).event = ev[w]
  BY Zenon DEF NewObject
<1> QED BY <1>1, <1>2, Zenon DEF IInv, Written

\* Every step keeps MetricsInv: a write adds one object and one count.
LEMMA MetricsStep == IInv /\ MetricsInv /\ [Next]_vars => MetricsInv'
<1> SUFFICES ASSUME IInv, MetricsInv, [Next]_vars PROVE MetricsInv'
  BY Zenon
<1>0. metrics \in [Counters -> Nat] /\ {"created", "create_errors"} \subseteq Counters
      /\ metrics["created"] \in Nat /\ metrics["create_errors"] \in Nat
  BY Zenon DEF IInv, TypeOK, Counters
<1>1. CASE \E w \in Workers : Create(w) \/ CreateFails(w)
  <2>1. PICK w \in Workers : Create(w) \/ CreateFails(w)
    BY <1>1, Zenon
  <2>2. /\ objects' = objects \/ objects' = objects \cup {NewObject(w)}
        /\ Create(w) => objects' = objects \cup {NewObject(w)}
    BY <2>1, Zenon DEF Create, CreateFails
  <2>3. NewObject(w) \notin objects
    BY <2>1, ObjectIsNew, Zenon DEF Create, CreateFails
  <2>4. /\ IsFiniteSet(objects) /\ metrics["created"] <= Cardinality(objects)
        /\ Cardinality(objects) <= metrics["created"] + metrics["create_errors"]
    BY Zenon DEF MetricsInv, MetricsAgree
  <2>5. Cardinality(objects) \in Nat
    BY <2>4, FS_CardinalityType, Zenon
  <2>6. /\ IsFiniteSet(objects')
        /\ objects' # objects => Cardinality(objects') = Cardinality(objects) + 1
    BY <2>2, <2>3, <2>4, FS_AddElement, Zenon
  <2>7. CASE Create(w)
    <3>1. metrics'["created"] = metrics["created"] + 1
          /\ metrics'["create_errors"] = metrics["create_errors"]
      BY <2>7, <1>0, Zenon DEF Create
    <3>2. Cardinality(objects') = Cardinality(objects) + 1
      <4>1. objects' = objects \cup {NewObject(w)}
        BY <2>2, <2>7, Zenon
      <4> QED  BY <2>3, <2>6, <4>1, Zenon
    <3> QED BY <3>1, <3>2, <1>0, <2>4, <2>5, <2>6, SMTT(30) DEF MetricsInv, MetricsAgree
  <2>8. CASE CreateFails(w)
    <3>1. metrics'["created"] = metrics["created"]
          /\ metrics'["create_errors"] = metrics["create_errors"] + 1
      BY <2>8, <1>0, Zenon DEF CreateFails, CountCreateError
    <3> QED BY <3>1, <1>0, <2>4, <2>5, <2>6, SMTT(30) DEF MetricsInv, MetricsAgree
  <2> QED BY <2>1, <2>7, <2>8, Zenon
<1>2. CASE \E w \in Workers : Blocked(w)
  <2>1. PICK w \in Workers : Blocked(w)
    BY <1>2, Zenon
  <2>2. /\ metrics'["created"] = metrics["created"]
        /\ metrics'["create_errors"] = metrics["create_errors"] + 1
        /\ objects' = objects
    BY <2>1, <1>0, Zenon DEF Blocked, CountCreateError
  <2> QED BY <2>2, NoWriteStep, Zenon
<1>3. CASE UNCHANGED <<objects, metrics>>
  BY <1>3, Zenon DEF MetricsInv, MetricsAgree
<1>4. \/ \E w \in Workers : Create(w) \/ CreateFails(w) \/ Blocked(w)
      \/ UNCHANGED <<objects, metrics>>
  BY ZenonT(60) DEF Next, Work, Begin, RateLimited, ApplyFilter, ApplyDedup, Hooks, HookFails,
               UpdateFilter, Forget, Refill, Regain, Drained, vars
<1> QED BY <1>1, <1>2, <1>3, <1>4, Zenon

\* observations_created_total counts no object that is not there, and every
\* object it misses is one whose creation was counted as an error.
THEOREM MetricsTrue == Spec => []MetricsAgree
<1>1. Init => MetricsInv
  <2> SUFFICES ASSUME Init PROVE MetricsInv
    BY Zenon
  <2>1. objects = {} /\ metrics["created"] = 0 /\ metrics["create_errors"] = 0
    BY Zenon DEF Init, Counters
  <2> QED BY <2>1, FS_EmptySet DEF MetricsInv, MetricsAgree
<1>2. MetricsInv => MetricsAgree
  BY Zenon DEF MetricsInv
<1> QED BY <1>1, <1>2, MetricsStep, PipelineInvariant, PTL DEF Spec

-------------------------------------------------------------------------------
(* Duplicates.                                                             *)

\* A key in the cache is there for an event that passed in the current window.
\* An event that passed dedup after its filter cannot be filtered any more.
OriginalInv ==
  /\ \A k \in seen : \E f \in Events : Id(f) = k /\ ticket[f] = window[k]
  /\ \A f \in Events : ticket[f] # None /\ ~DedupFirst(f) => outcome[f] # "filtered"

\* A worker ends or begins its event; no ticket changes.
LEMMA OriginalFinish ==
  ASSUME IInv, OriginalInv, NEW e \in Events, NEW o \in Outcomes,
         outcome' = [outcome EXCEPT ![e] = o], UNCHANGED <<seen, window, ticket>>,
         o = "filtered" => ticket[e] = None \/ DedupFirst(e)
  PROVE  OriginalInv'
<1>1. outcome'[e] = o /\ \A f \in Events : f # e => outcome'[f] = outcome[f]
  BY Zenon DEF IInv, TypeOK
<1>2. \A k \in seen' : \E f \in Events : Id(f) = k /\ ticket'[f] = window'[k]
  BY Zenon DEF OriginalInv
<1>3. \A f \in Events : ticket'[f] # None /\ ~DedupFirst(f) => outcome'[f] # "filtered"
  BY <1>1, SMTT(30) DEF OriginalInv
<1> QED BY <1>2, <1>3, Zenon DEF OriginalInv

\* A worker that asks the deduper has an event of its own without a ticket.
LEMMA DedupsOwn ==
  ASSUME IInv, NEW w \in Workers, ApplyDedup(w)
  PROVE  /\ ev[w] \in Events /\ ticket[ev[w]] = None /\ outcome[ev[w]] = "working"
         /\ Id(ev[w]) \in Keys /\ Source[ev[w]] \in Sources
<1>1. pc[w] = "dedup" /\ "dedup" # "idle"
  BY Zenon DEF ApplyDedup
<1>2. ev[w] \in Events /\ ticket[ev[w]] = None /\ outcome[ev[w]] = "working"
  BY <1>1, Zenon DEF IInv, Control, Busy
<1> QED  BY <1>2, IdType, Zenon

\* Dedup lets an event pass: it is the original of its content from now on.
LEMMA OriginalPasses ==
  ASSUME IInv, OriginalInv, NEW w \in Workers, Fresh(w), ApplyDedup(w)
  PROVE  OriginalInv'
<1>0. PICK e, k : e = ev[w] /\ k = Id(e)
  BY Zenon
<1>1. e \in Events /\ ticket[e] = None /\ outcome[e] = "working" /\ k \in Keys
  BY <1>0, DedupsOwn, Zenon
<1>2. outcome' = outcome /\ seen' = seen \cup {k} /\ window' = window
      /\ ticket' = [ticket EXCEPT ![e] = window[k]]
  BY <1>0, Zenon DEF Fresh, Goto, Remember
<1>3. window[k] # None /\ ticket \in [Events -> Nat \cup {None}]
  BY <1>1, NoneAssumption, Zenon DEF IInv, TypeOK
<1>4. ticket'[e] = window[k] /\ \A f \in Events : f # e => ticket'[f] = ticket[f]
  BY <1>1, <1>2, <1>3, Zenon
<1>5. \A f \in Events : ticket[f] # None => f # e
  BY <1>1, Zenon
<1>6. \A j \in seen' : \E f \in Events : Id(f) = j /\ ticket'[f] = window'[j]
  <2>1. Id(e) = k /\ ticket'[e] = window'[k]
    BY <1>0, <1>2, <1>4, Zenon
  <2>2. ASSUME NEW j \in seen
        PROVE  \E f \in Events : Id(f) = j /\ ticket'[f] = window'[j]
    <3>1. PICK f \in Events : Id(f) = j /\ ticket[f] = window[j]
      BY Zenon DEF OriginalInv
    <3>2. window[j] # None
      BY NoneAssumption, SMTT(30) DEF IInv, TypeOK
    <3> QED BY <1>2, <1>4, <1>5, <3>1, <3>2, Zenon
  <2> QED BY <1>1, <1>2, <2>1, <2>2, Zenon
<1>7. \A f \in Events : ticket'[f] # None /\ ~DedupFirst(f) => outcome'[f] # "filtered"
  <2>1. "working" # "filtered"
    BY Zenon
  <2> QED BY <1>1, <1>2, <1>4, <2>1, Zenon DEF OriginalInv
<1> QED BY <1>6, <1>7, Zenon DEF OriginalInv

\* Every step keeps OriginalInv.
LEMMA OriginalStep == IInv /\ OriginalInv /\ [Next]_vars => OriginalInv'
<1> SUFFICES ASSUME IInv, OriginalInv, [Next]_vars PROVE OriginalInv'
  BY Zenon
<1>1. CASE \E w \in Workers, e \in Events : Begin(w, e) \/ RateLimited(w, e)
  <2>1. PICK w \in Workers, e \in Events : Begin(w, e) \/ RateLimited(w, e)
    BY <1>1, Zenon
  <2>2. /\ \E o \in {"working", "rate_limited"} : outcome' = [outcome EXCEPT ![e] = o]
        /\ UNCHANGED <<seen, window, ticket>>
    BY <2>1, ZenonT(30) DEF Begin, RateLimited, dedupVars
  <2> QED BY <2>2, OriginalFinish, Zenon DEF Outcomes, Ends
<1>2. CASE \E w \in Workers : ApplyFilter(w)
  <2>1. PICK w \in Workers : ApplyFilter(w)
    BY <1>2, Zenon
  <2>2. /\ ev[w] \in Events /\ UNCHANGED <<seen, window, ticket>>
        /\ ticket[ev[w]] = None \/ DedupFirst(ev[w])
    BY <2>1, Zenon DEF ApplyFilter, IInv, Control, Busy, FirstStage, dedupVars
  <2>3. outcome' = outcome \/ outcome' = [outcome EXCEPT ![ev[w]] = "filtered"]
    BY <2>1, Zenon DEF ApplyFilter, Finish, Goto
  <2>4. CASE outcome' = outcome
    BY <2>2, <2>4, ZenonT(30) DEF OriginalInv
  <2>5. CASE outcome' = [outcome EXCEPT ![ev[w]] = "filtered"]
    BY <2>2, <2>5, OriginalFinish, Zenon DEF Outcomes, Ends
  <2> QED BY <2>3, <2>4, <2>5, Zenon
<1>3. CASE \E w \in Workers : ApplyDedup(w)
  <2>1. PICK w \in Workers : ApplyDedup(w)
    BY <1>3, Zenon
  <2>2. CASE Duplicate(w) \/ OverRate(w)
    <3>1. outcome' = [outcome EXCEPT ![ev[w]] = "deduped"] /\ UNCHANGED <<seen, window, ticket>>
      BY <2>2, Zenon DEF Duplicate, OverRate, Finish, dedupVars
    <3> QED BY <2>1, <3>1, DedupsOwn, OriginalFinish, Zenon DEF Outcomes, Ends
  <2>3. CASE Fresh(w)
    BY <2>1, <2>3, OriginalPasses, Zenon
  <2> QED BY <2>1, <2>2, <2>3, Zenon DEF ApplyDedup
<1>4. CASE \E w \in Workers : HookFails(w) \/ Blocked(w) \/ Create(w) \/ CreateFails(w)
  <2>1. PICK w \in Workers : HookFails(w) \/ Blocked(w) \/ Create(w) \/ CreateFails(w)
    BY <1>4, Zenon
  <2>2. ev[w] \in Events /\ UNCHANGED <<seen, window, ticket>>
    BY <2>1, ZenonT(30) DEF HookFails, Blocked, Create, CreateFails, IInv, Control, Busy, dedupVars
  <2>3. \E o \in {"hook_error", "blocked", "created", "create_error"} :
          outcome' = [outcome EXCEPT ![ev[w]] = o]
    BY <2>1, ZenonT(30) DEF HookFails, Blocked, Create, CreateFails, Finish
  <2> QED BY <2>2, <2>3, OriginalFinish, Zenon DEF Outcomes, Ends
<1>5. CASE \E k \in Keys : Forget(k)
  <2>1. PICK k \in Keys : Forget(k)
    BY <1>5, Zenon
  <2>2. /\ seen' = seen \ {k} /\ window' = [window EXCEPT ![k] = @ + 1]
        /\ outcome' = outcome /\ ticket' = ticket
    BY <2>1, Zenon DEF Forget, procVars
  <2>3. \A j \in Keys : j # k => window'[j] = window[j]
    BY <2>2, Zenon DEF IInv, TypeOK
  <2>4. ASSUME NEW j \in seen'
        PROVE  \E f \in Events : Id(f) = j /\ ticket'[f] = window'[j]
    <3>1. j \in seen /\ j \in Keys /\ j # k
      BY <2>2, Zenon DEF IInv, TypeOK
    <3>2. PICK f \in Events : Id(f) = j /\ ticket[f] = window[j]
      BY <3>1, Zenon DEF OriginalInv
    <3> QED BY <2>2, <2>3, <3>1, <3>2, Zenon
  <2> QED BY <2>2, <2>4, Zenon DEF OriginalInv
<1>6. CASE UNCHANGED <<outcome, seen, window, ticket>>
  BY <1>6, ZenonT(30) DEF OriginalInv
<1>7. \/ \E w \in Workers : \/ \E e \in Events : Begin(w, e) \/ RateLimited(w, e)
                            \/ ApplyFilter(w) \/ ApplyDedup(w) \/ HookFails(w) \/ Blocked(w)
                            \/ Create(w) \/ CreateFails(w)
      \/ \E k \in Keys : Forget(k)
      \/ UNCHANGED <<outcome, seen, window, ticket>>
  BY Zenon DEF Next, Work, Hooks, Goto, UpdateFilter, Refill, Regain, Drained, vars, procVars,
               dedupVars
<1> QED BY <1>1, <1>2, <1>3, <1>4, <1>5, <1>6, <1>7, Zenon

-------------------------------------------------------------------------------
(* What the deduper turns away.                                            *)

\* An event that passed is taken for the same as d, or the limit was exhausted.
Accounted(d) ==
  \/ \E f \in Events \ {d} : Id(f) = Id(d) /\ ticket[f] # None
  \/ Cardinality(Decided(Source[d]) \ {d}) >= Budget(Source[d])

\* What a bucket has lost, an event of its source has taken.
DroppedInv ==
  /\ \A s \in Sources : /\ IsFiniteSet(Decided(s))
                        /\ Cardinality(Decided(s)) + bucket[s] >= Budget(s)
  /\ \A d \in Events : outcome[d] = "deduped" => Accounted(d)

\* Buckets and limits are numbers.
LEMMA BucketType ==
  ASSUME IInv, NEW s \in Sources
  PROVE  bucket[s] \in Nat /\ Budget(s) \in Nat
<1>1. bucket[s] \in Nat
  BY Zenon DEF IInv, TypeOK
<1> QED BY <1>1, BudgetType

\* A dropped event stays accounted for: no ticket is taken back and no decision.
LEMMA AccountedKept ==
  ASSUME IInv, NEW d \in Events, Accounted(d),
         \A f \in Events : ticket[f] # None => ticket'[f] # None,
         NEW D, D = Decided(Source[d]), IsFiniteSet(D),
         D \subseteq Decided(Source[d])', IsFiniteSet(Decided(Source[d])')
  PROVE  Accounted(d)'
<1>1. CASE \E f \in Events \ {d} : Id(f) = Id(d) /\ ticket[f] # None
  BY <1>1, Zenon DEF Accounted
<1>2. CASE Cardinality(D \ {d}) >= Budget(Source[d])
  <2> DEFINE E == Decided(Source[d])'
  <2>1. IsFiniteSet(D \ {d}) /\ IsFiniteSet(E \ {d}) /\ D \ {d} \subseteq E \ {d}
    BY FS_Difference, Zenon
  <2>2. Cardinality(D \ {d}) <= Cardinality(E \ {d})
    BY <2>1, FS_Subset, Zenon
  <2>3. Cardinality(D \ {d}) \in Nat /\ Cardinality(E \ {d}) \in Nat
    BY <2>1, FS_CardinalityType, Zenon
  <2>4. Budget(Source[d]) \in Nat
    BY IdType, BudgetType
  <2>5. Cardinality(E \ {d}) >= Budget(Source[d])
    BY <1>2, <2>2, <2>3, <2>4
  <2> QED BY <2>5, Zenon DEF Accounted
<1> QED BY <1>1, <1>2, Zenon DEF Accounted

\* A step that asks no deduper decides about no event.
LEMMA NotAsked ==
  ASSUME IInv, [Next]_vars, ~ \E w \in Workers : ApplyDedup(w)
  PROVE  /\ ticket' = ticket
         /\ \A f \in Events : outcome'[f] = "deduped" <=> outcome[f] = "deduped"
         /\ bucket' = bucket \/ \E s \in Sources : Regain(s)
<1>1. CASE \E w \in Workers, e \in Events : Begin(w, e) \/ RateLimited(w, e)
  <2>1. PICK w \in Workers, e \in Events : Begin(w, e) \/ RateLimited(w, e)
    BY <1>1, Zenon
  <2>2. /\ outcome' = [outcome EXCEPT ![e] = "working"]
           \/ outcome' = [outcome EXCEPT ![e] = "rate_limited"]
        /\ ticket' = ticket /\ bucket' = bucket /\ outcome[e] # "deduped"
    BY <2>1, NoneAssumption, ZenonT(30) DEF Begin, RateLimited, dedupVars, Ends
  <2> QED BY <2>2, Zenon DEF IInv, TypeOK
<1>2. CASE \E w \in Workers : Step(w)
  <2>1. PICK w \in Workers : Step(w)
    BY <1>2, Zenon
  <2>2. ev[w] \in Events /\ outcome[ev[w]] = "working"
    BY <2>1, ZenonT(30) DEF Step, Busy, IInv, Control, ApplyFilter, ApplyDedup, Hooks, HookFails,
       Blocked, Create, CreateFails
  <2>3. /\ ticket' = ticket /\ bucket' = bucket
        /\ \/ outcome' = outcome
           \/ \E o \in Ends \ {"deduped"} : outcome' = [outcome EXCEPT ![ev[w]] = o]
    BY <2>1, ZenonT(30) DEF Step, Finish, Goto, Ends, ApplyFilter, Hooks, HookFails, Blocked,
       Create, CreateFails, dedupVars
  <2> QED BY <2>2, <2>3, Zenon DEF IInv, TypeOK
<1>3. CASE UNCHANGED <<outcome, ticket>> /\ (bucket' = bucket \/ \E s \in Sources : Regain(s))
  BY <1>3, Zenon
<1>4. \/ \E w \in Workers : (\E e \in Events : Begin(w, e) \/ RateLimited(w, e)) \/ Step(w)
      \/ UNCHANGED <<outcome, ticket>> /\ (bucket' = bucket \/ \E s \in Sources : Regain(s))
  BY Zenon DEF Next, Work, Step, UpdateFilter, Forget, Refill, Regain, Drained, vars, procVars,
               dedupVars
<1> QED BY <1>1, <1>2, <1>3, <1>4, Zenon

\* What asking the deduper does to the decisions: the event of the worker is
\* decided about, and no other.
LEMMA Asked ==
  ASSUME IInv, NEW w \in Workers, ApplyDedup(w), NEW e, e = ev[w]
  PROVE  /\ Decided(Source[e])' = Decided(Source[e]) \cup {e}
         /\ e \notin Decided(Source[e])
         /\ \A s \in Sources : s # Source[e] => Decided(s)' = Decided(s)
         /\ \A f \in Events : ticket[f] # None => ticket'[f] # None
         /\ \A f \in Events : f # e => (outcome'[f] = "deduped" <=> outcome[f] = "deduped")
<1>1. /\ e \in Events /\ ticket[e] = None /\ outcome[e] = "working"
      /\ Id(e) \in Keys /\ Source[e] \in Sources
  BY DedupsOwn, Zenon
<1>2. e \notin Decided(Source[e])
  BY <1>1, Zenon DEF Decided
<1>3. ticket'[e] # None \/ outcome'[e] = "deduped"
  <2>1. CASE Duplicate(w) \/ OverRate(w)
    BY <1>1, <2>1, Zenon DEF Duplicate, OverRate, Finish, IInv, TypeOK
  <2>2. CASE Fresh(w)
    <3>1. window[Id(e)] # None
      BY <1>1, NoneAssumption, Zenon DEF IInv, TypeOK
    <3> QED BY <1>1, <2>2, <3>1, Zenon DEF Fresh, IInv, TypeOK
  <2> QED BY <2>1, <2>2, Zenon DEF ApplyDedup
<1>4. \A f \in Events : f # e => ticket'[f] = ticket[f] /\ outcome'[f] = outcome[f]
  <2>1. CASE Duplicate(w) \/ OverRate(w)
    BY <1>1, <2>1, Zenon DEF Duplicate, OverRate, Finish, dedupVars, IInv, TypeOK
  <2>2. CASE Fresh(w)
    BY <1>1, <2>2, Zenon DEF Fresh, Goto, IInv, TypeOK
  <2> QED BY <2>1, <2>2, Zenon DEF ApplyDedup
<1>5. Decided(Source[e])' = Decided(Source[e]) \cup {e}
  BY <1>1, <1>3, <1>4, Zenon DEF Decided
<1>6. \A s \in Sources : s # Source[e] => Decided(s)' = Decided(s)
  BY <1>1, <1>4, Zenon DEF Decided
<1> QED BY <1>1, <1>2, <1>4, <1>5, <1>6, Zenon

\* The deduper keeps DroppedInv: it turns an event away for a key in its cache,
\* which someone put there, or because its bucket is empty.
LEMMA AskedDropped ==
  ASSUME IInv, OriginalInv, DroppedInv, NEW w \in Workers, ApplyDedup(w)
  PROVE  DroppedInv'
<1>a. PICK e : e = ev[w]
  BY Zenon
<1>b. PICK t : t = Source[e]
  BY Zenon
<1>0. e \in Events /\ ticket[e] = None /\ Id(e) \in Keys /\ t \in Sources
  BY <1>a, <1>b, DedupsOwn, Zenon
<1>c. /\ Decided(t)' = Decided(t) \cup {e} /\ e \notin Decided(t)
      /\ \A s \in Sources : s # t => Decided(s)' = Decided(s)
      /\ \A f \in Events : ticket[f] # None => ticket'[f] # None
      /\ \A f \in Events : f # e => (outcome'[f] = "deduped" <=> outcome[f] = "deduped")
  BY <1>a, <1>b, Asked, ZenonT(30)
<1>1. \A s \in Sources : IsFiniteSet(Decided(s))
  BY Zenon DEF DroppedInv
<1>2. IsFiniteSet(Decided(t)') /\ Cardinality(Decided(t)') = Cardinality(Decided(t)) + 1
  BY <1>0, <1>1, <1>c, FS_AddElement, Zenon
<1>3. \A s \in Sources : IsFiniteSet(Decided(s)') /\ Decided(s) \subseteq Decided(s)'
  BY <1>1, <1>2, <1>c, Zenon
<1>4. /\ \A s \in Sources \ {t} : bucket'[s] = bucket[s]
      /\ bucket'[t] = bucket[t] \/ (bucket[t] > 0 /\ bucket'[t] = bucket[t] - 1)
  <2>1. bucket \in [Sources -> Nat]
    BY Zenon DEF IInv, TypeOK
  <2>2. bucket' = bucket \/ bucket' = Spend(t)
    BY <1>a, <1>b, Zenon DEF ApplyDedup, Duplicate, OverRate, Fresh, dedupVars
  <2> QED BY <1>0, <2>1, <2>2, SpendType
<1>5. ASSUME NEW s \in Sources
      PROVE  (Cardinality(Decided(s)) + bucket[s] >= Budget(s))'
  <2>1. Cardinality(Decided(s)) + bucket[s] >= Budget(s) /\ Cardinality(Decided(s)) \in Nat
    BY <1>1, FS_CardinalityType, Zenon DEF DroppedInv
  <2>2. bucket[s] \in Nat /\ Budget(s) \in Nat
    BY BucketType
  <2>3. CASE s = t
    <3>1. Cardinality(Decided(s)') + bucket'[s] >= Budget(s)
      BY <1>2, <1>4, <2>1, <2>2, <2>3
    <3> QED BY <3>1 DEF Budget, Strategy, Config
  <2>4. CASE s # t
    <3>1. Cardinality(Decided(s)') + bucket'[s] >= Budget(s)
      BY <1>4, <1>c, <2>1, <2>4, Zenon
    <3> QED BY <3>1 DEF Budget, Strategy, Config
  <2> QED BY <2>3, <2>4, Zenon
<1>6. ASSUME NEW d \in Events, outcome'[d] = "deduped", d # e
      PROVE  Accounted(d)'
  <2>1. Accounted(d) /\ Source[d] \in Sources
    BY <1>6, <1>c, IdType, Zenon DEF DroppedInv
  <2> QED BY <1>1, <1>3, <1>c, <2>1, AccountedKept, Zenon
<1>7. ASSUME outcome'[e] = "deduped" PROVE Accounted(e)'
  <2>1. CASE Duplicate(w)
    <3>1. PICK f \in Events : Id(f) = Id(e) /\ ticket[f] = window[Id(e)]
      BY <1>a, <2>1, Zenon DEF Duplicate, OriginalInv
    <3>2. window[Id(e)] # None
      BY <1>0, NoneAssumption, Zenon DEF IInv, TypeOK
    <3>3. f # e /\ ticket'[f] # None
      BY <1>0, <1>c, <3>1, <3>2, Zenon
    <3> QED BY <3>1, <3>3, Zenon DEF Accounted
  <2>2. CASE OverRate(w)
    <3>1. bucket[t] = 0 /\ Cardinality(Decided(t)) + bucket[t] >= Budget(t)
      BY <2>2, <1>0, <1>a, <1>b, Zenon DEF OverRate, DroppedInv
    <3>2. Cardinality(Decided(t)) \in Nat /\ Budget(t) \in Nat
      BY <1>0, <1>1, FS_CardinalityType, BucketType
    <3>3. Cardinality(Decided(t)) >= Budget(t)
      BY <3>1, <3>2
    <3>4. Decided(t)' \ {e} = Decided(t)
      BY <1>c, Zenon
    <3>5. Cardinality(Decided(t)' \ {e}) >= Budget(t)
      BY <3>3, <3>4, Zenon
    <3> QED BY <1>b, <3>5, Zenon DEF Accounted
  <2>3. CASE Fresh(w)
    <3>1. outcome'[e] = "working"
      BY <1>a, <2>3, DedupsOwn, Zenon DEF Fresh, Goto
    <3> QED BY <1>7, <3>1, Zenon
  <2> QED BY <2>1, <2>2, <2>3, Zenon DEF ApplyDedup
<1> QED BY <1>3, <1>5, <1>6, <1>7, Zenon DEF DroppedInv

\* Every step keeps DroppedInv.
LEMMA DroppedStep == IInv /\ OriginalInv /\ DroppedInv /\ [Next]_vars => DroppedInv'
<1> SUFFICES ASSUME IInv, OriginalInv, DroppedInv, [Next]_vars PROVE DroppedInv'
  BY Zenon
<1>1. CASE \E w \in Workers : ApplyDedup(w)
  BY <1>1, AskedDropped, Zenon
<1>2. CASE ~ \E w \in Workers : ApplyDedup(w)
  <2>1. /\ ticket' = ticket
        /\ \A f \in Events : outcome'[f] = "deduped" <=> outcome[f] = "deduped"
        /\ bucket' = bucket \/ \E s \in Sources : Regain(s)
    BY <1>2, NotAsked, Zenon
  <2>2. \A s \in Sources : Decided(s)' = Decided(s)
    BY <2>1, Zenon DEF Decided
  <2>3. ASSUME NEW s \in Sources
        PROVE  (Cardinality(Decided(s)) + bucket[s] >= Budget(s))'
    <3>1. /\ Cardinality(Decided(s)) + bucket[s] >= Budget(s) /\ Cardinality(Decided(s)) \in Nat
      BY FS_CardinalityType, Zenon DEF DroppedInv
    <3>2. bucket[s] \in Nat /\ Budget(s) \in Nat
      BY BucketType
    <3>3. bucket'[s] \in {bucket[s], bucket[s] + 1}
      BY <2>1, ZenonT(30) DEF Regain, IInv, TypeOK
    <3>4. Cardinality(Decided(s)') + bucket'[s] >= Budget(s)
      BY <2>2, <3>1, <3>2, <3>3
    <3> QED BY <3>4 DEF Budget, Strategy, Config
  <2>4. ASSUME NEW d \in Events, outcome'[d] = "deduped" PROVE Accounted(d)'
    <3>1. Accounted(d) /\ Source[d] \in Sources
      BY <2>1, <2>4, IdType, Zenon DEF DroppedInv
    <3>2. Decided(Source[d])' = Decided(Source[d])
      BY <2>2, <3>1, Zenon
    <3> QED BY <2>1, <3>1, <3>2, Zenon DEF Accounted
  <2> QED BY <2>2, <2>3, <2>4, Zenon DEF DroppedInv
<1> QED BY <1>1, <1>2, Zenon

\* No event is lost as a duplicate of nothing: applyDedup drops it only if another
\* event that its strategy takes for the same has passed, where the filter comes
\* first one that the filter did not drop, or if the deduper had decided about as
\* many other events of the source as its own limit on their number allows.
THEOREM DuplicatesHaveOriginals == Spec => []DuplicateHasOriginal
<1>1. Init => OriginalInv /\ DroppedInv
  <2> SUFFICES ASSUME Init PROVE OriginalInv /\ DroppedInv
    BY Zenon
  <2>1. \A e \in Events : outcome[e] # "deduped" /\ outcome[e] # "filtered" /\ ticket[e] = None
    BY NoneAssumption, Zenon DEF Init, Ends
  <2>2. \A s \in Sources : Decided(s) = {} /\ bucket[s] = Budget(s) /\ Budget(s) \in Nat
    BY <2>1, BudgetType, Zenon DEF Decided, Init
  <2>3. \A s \in Sources : IsFiniteSet(Decided(s)) /\ Cardinality(Decided(s)) + bucket[s] >= Budget(s)
    BY <2>2, FS_EmptySet
  <2> QED BY <2>1, <2>3, Zenon DEF OriginalInv, DroppedInv, Init
<1>2. OriginalInv /\ DroppedInv => DuplicateHasOriginal
  <2> SUFFICES ASSUME OriginalInv, DroppedInv, NEW e \in Events, outcome[e] = "deduped",
                      ~ (Cardinality(Decided(Source[e]) \ {e}) >= Budget(Source[e]))
               PROVE  Original(e)
    BY Zenon DEF DuplicateHasOriginal
  <2>1. PICK f \in Events \ {e} : Id(f) = Id(e) /\ ticket[f] # None
    BY Zenon DEF DroppedInv, Accounted
  <2>2. Source[f] = Source[e]
    BY <2>1, IdType, Zenon
  <2>3. SourceConfig[Source[e]].order = "filter_first" => ~DedupFirst(f)
    BY <2>2, Zenon DEF DedupFirst, ProcessingOrder, Config, NilConfig
  <2>4. SourceConfig[Source[e]].order = "filter_first" => outcome[f] # "filtered"
    BY <2>1, <2>3, Zenon DEF OriginalInv
  <2> QED BY <2>1, <2>4, Zenon DEF Original
<1> QED BY <1>1, <1>2, OriginalStep, DroppedStep, PipelineInvariant, PTL DEF Spec

===============================================================================
