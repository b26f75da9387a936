------------------------- MODULE BatchProcessorProofs -------------------------
(***************************************************************************)
(* Batching loses no event and processes none twice, for any number of     *)
(* sources, readers, flush goroutines and events and any batch size.       *)
(***************************************************************************)
EXTENDS BatchProcessor, FiniteSetTheorems, TLAPS

\* What the control state says about the rest: a goroutine holds events exactly
\* while it processes them, and knows its batch from the moment it was spawned.
Control ==
  /\ \A r \in Readers : pc[r] \in ReaderStates /\ target[r] = ReaderSource[r]
  /\ \A f \in Flushers : pc[f] \in FlusherStates
  /\ \A g \in Goroutines : /\ pc[g] \in {"take", "process"} => target[g] \in Sources
                           /\ pc[g] = "process" <=> work[g] # <<>>

\* No event occurs twice in a queue, or in two queues of a family.
Apart(q, D) ==
  /\ \A c \in D : \A i, j \in 1..Len(q[c]) : q[c][i] = q[c][j] => i = j
  /\ \A c, d \in D : \A e \in Values(q[c]) : e \in Values(q[d]) => c = d

\* No event occurs in both families.
Disjoint(p, C, q, D) ==
  \A c \in C, d \in D : \A e \in Values(p[c]) : e \notin Values(q[d])

\* Every event of the family is among the events S and has the count n[e] = 0.
Pending(q, D, S, n) == \A c \in D : \A e \in Values(q[c]) : e \in S /\ n[e] = 0

\* Every event has at most one place among the channels, the batches and the
\* hands of the goroutines, and none once it is processed.
OnePlace ==
  /\ Apart(stream, Readers) /\ Apart(batches, Sources) /\ Apart(work, Goroutines)
  /\ Disjoint(stream, Readers, batches, Sources)
  /\ Disjoint(stream, Readers, work, Goroutines)
  /\ Disjoint(batches, Sources, work, Goroutines)
  /\ Pending(stream, Readers, sent, runs) /\ Pending(batches, Sources, sent, runs)
  /\ Pending(work, Goroutines, sent, runs)
  /\ \A e \in Events : runs[e] \in {0, 1} /\ (runs[e] = 1 => e \in sent)

Held(q, D, e) == \E c \in D : e \in Values(q[c])

\* Every event that was sent has a place or is processed.
SomePlace ==
  \A e \in sent : \/ Held(stream, Readers, e) \/ Held(batches, Sources, e)
                  \/ Held(work, Goroutines, e) \/ runs[e] = 1

IInv == TypeOK /\ Control /\ OnePlace /\ SomePlace

-------------------------------------------------------------------------------
(* Facts about one queue.                                                  *)

(* The values of a sequence. *)
LEMMA ValuesOfSeq ==
  ASSUME NEW S, NEW q \in Seq(S)
  PROVE  /\ Values(q) \subseteq S
         /\ \A e : e \in Values(q) <=> \E i \in 1..Len(q) : q[i] = e
         /\ Values(<<>>) = {} /\ (q # <<>> => Values(q) # {})
  BY DEF Values

(* Appending a new value to a sequence without repetitions. *)
LEMMA AppendFacts ==
  ASSUME NEW S, NEW q \in Seq(S), NEW e \in S, e \notin Values(q),
         \A i, j \in 1..Len(q) : q[i] = q[j] => i = j
  PROVE  /\ Append(q, e) \in Seq(S) /\ Append(q, e) # <<>>
         /\ Values(Append(q, e)) = Values(q) \cup {e}
         /\ \A i, j \in 1..Len(Append(q, e)) : Append(q, e)[i] = Append(q, e)[j] => i = j
  <1> DEFINE a == Append(q, e)
  <1>1. /\ a \in Seq(S) /\ Len(a) = Len(q) + 1 /\ Len(q) \in Nat /\ a[Len(q) + 1] = e
        /\ \A i \in 1..Len(q) : a[i] = q[i]
    <2>1. a \in Seq(S) /\ Len(q) \in Nat
      OBVIOUS
    <2>2. Len(a) = Len(q) + 1
      OBVIOUS
    <2>3. a[Len(q) + 1] = e
      OBVIOUS
    <2>4. \A i \in 1..Len(q) : a[i] = q[i]
      OBVIOUS
    <2> QED
      BY <2>1, <2>2, <2>3, <2>4, Zenon
  <1> HIDE DEF a
  <1>2. \A x : x \in Values(a) <=> \E i \in 1..Len(a) : a[i] = x
    BY <1>1, ValuesOfSeq
  <1>3. \A x : x \in Values(q) <=> \E i \in 1..Len(q) : q[i] = x
    BY ValuesOfSeq, Zenon
  <1>4. Values(a) = Values(q) \cup {e}
    <2>1. \A x \in Values(a) : x \in Values(q) \cup {e}
      BY <1>1, <1>2, <1>3
    <2>2. \A x \in Values(q) \cup {e} : x \in Values(a)
      BY <1>1, <1>2, <1>3
    <2> QED
      BY <2>1, <2>2, Zenon
  <1>5. \A i, j \in 1..Len(a) : a[i] = a[j] => i = j
    BY <1>1, <1>3
  <1>6. a # <<>>
    BY <1>1
  <1> QED
    BY <1>1, <1>4, <1>5, <1>6, Zenon DEF a

(* Taking the head of a sequence without repetitions. *)
LEMMA TailFacts ==
  ASSUME NEW S, NEW q \in Seq(S), q # <<>>,
         \A i, j \in 1..Len(q) : q[i] = q[j] => i = j
  PROVE  /\ Head(q) \in Values(q) /\ Tail(q) \in Seq(S)
         /\ Values(Tail(q)) = Values(q) \ {Head(q)}
         /\ Len(q) \in Nat
         /\ \A i, j \in 1..Len(Tail(q)) : Tail(q)[i] = Tail(q)[j] => i = j
  <1> DEFINE a == Tail(q)  h == Head(q)
  <1>1. /\ a \in Seq(S) /\ Len(q) \in Nat \ {0} /\ Len(a) = Len(q) - 1 /\ h = q[1]
        /\ \A i \in 1..Len(a) : a[i] = q[i + 1]
    OBVIOUS
  <1> HIDE DEF a, h
  <1>2. \A x : x \in Values(a) <=> \E i \in 1..Len(a) : a[i] = x
    BY <1>1, ValuesOfSeq
  <1>3. \A x : x \in Values(q) <=> \E i \in 1..Len(q) : q[i] = x
    BY ValuesOfSeq, Zenon
  <1>4. \A i \in 1..Len(q) : i = 1 \/ (i - 1 \in 1..Len(a) /\ a[i - 1] = q[i])
    BY <1>1
  <1>5. Values(a) = Values(q) \ {h}
    <2>1. \A x \in Values(a) : x \in Values(q) /\ x # h
      BY <1>1, <1>2, <1>3
    <2>2. \A x \in Values(q) : x # h => x \in Values(a)
      BY <1>1, <1>2, <1>3, <1>4, ZenonT(60)
    <2> QED
      BY <2>1, <2>2, Zenon
  <1>6. \A i, j \in 1..Len(a) : a[i] = a[j] => i = j
    BY <1>1
  <1>8. h \in Values(q)
    BY <1>1, <1>3
  <1> QED
    BY <1>1, <1>5, <1>6, <1>8, Zenon DEF a, h

(* Facts about a family of queues.                                         *)

Grow(q, c, e) == [q EXCEPT ![c] = Append(@, e)]
Shrink(q, c) == [q EXCEPT ![c] = Tail(@)]

\* Family p holds what family q holds, with event e in its queue c, or without e.
Added(p, q, D, c, e) ==
  \A d \in D : \A x : x \in Values(p[d]) <=> x \in Values(q[d]) \/ (d = c /\ x = e)
Removed(p, q, D, e) ==
  \A d \in D : \A x : x \in Values(p[d]) <=> x \in Values(q[d]) /\ x # e

(* A new value appended to one of several disjoint sequences. *)
LEMMA GrowFamily ==
  ASSUME NEW S, NEW D, NEW q \in [D -> Seq(S)], NEW c \in D, NEW e \in S,
         Apart(q, D), \A d \in D : e \notin Values(q[d])
  PROVE  /\ Grow(q, c, e) \in [D -> Seq(S)] /\ Apart(Grow(q, c, e), D)
         /\ Added(Grow(q, c, e), q, D, c, e)
  <1> DEFINE p == Grow(q, c, e)
             a == Append(q[c], e)
  <1>1. /\ a \in Seq(S) /\ Values(a) = Values(q[c]) \cup {e}
        /\ \A i, j \in 1..Len(a) : a[i] = a[j] => i = j
    BY AppendFacts, SMTT(30) DEF Apart
  <1>2. p[c] = a /\ \A d \in D \ {c} : p[d] = q[d]
    BY Zenon DEF Grow
  <1>3. p \in [D -> Seq(S)]
    BY <1>1, Zenon DEF Grow
  <1> HIDE DEF p, a
  <1>4. Added(p, q, D, c, e)
    BY <1>1, <1>2, Zenon DEF Added
  <1>5. Apart(p, D)
    <2>1. \A d \in D : \A i, j \in 1..Len(p[d]) : p[d][i] = p[d][j] => i = j
      BY <1>1, <1>2, Zenon DEF Apart
    <2>2. \A b, d \in D : \A x \in Values(p[b]) : x \in Values(p[d]) => b = d
      <3> SUFFICES ASSUME NEW b \in D, NEW d \in D, NEW x \in Values(p[b]), x \in Values(p[d])
                   PROVE  b = d
        BY Zenon
      <3>1. CASE x = e
        BY <1>4, <3>1, Zenon DEF Added
      <3>2. CASE x # e
        BY <1>4, <3>2, Zenon DEF Apart, Added
      <3> QED
        BY <3>1, <3>2, Zenon
    <2> QED
      BY <2>1, <2>2, Zenon DEF Apart
  <1> QED
    BY <1>3, <1>4, <1>5, Zenon DEF p

(* The head taken from one of several disjoint sequences. *)
LEMMA ShrinkFamily ==
  ASSUME NEW S, NEW D, NEW q \in [D -> Seq(S)], NEW c \in D, q[c] # <<>>, Apart(q, D)
  PROVE  /\ Shrink(q, c) \in [D -> Seq(S)] /\ Apart(Shrink(q, c), D)
         /\ Head(q[c]) \in Values(q[c]) /\ Head(q[c]) \in S
         /\ Removed(Shrink(q, c), q, D, Head(q[c]))
  <1> DEFINE p == Shrink(q, c)
             a == Tail(q[c])
             h == Head(q[c])
  <1>1. /\ a \in Seq(S) /\ h \in Values(q[c]) /\ Values(a) = Values(q[c]) \ {h}
        /\ \A i, j \in 1..Len(a) : a[i] = a[j] => i = j
    BY TailFacts, Zenon DEF Apart
  <1>2. p[c] = a /\ \A d \in D \ {c} : p[d] = q[d]
    BY Zenon DEF Shrink
  <1>3. p \in [D -> Seq(S)] /\ h \in S
    BY <1>1, ValuesOfSeq, Zenon DEF Shrink
  <1> HIDE DEF p, a, h
  <1>4. Removed(p, q, D, h)
    BY <1>1, <1>2, Zenon DEF Apart, Removed
  <1>5. Apart(p, D)
    BY <1>1, <1>2, <1>4, ZenonT(60) DEF Apart, Removed
  <1> QED
    BY <1>1, <1>2, <1>3, <1>4, <1>5, Zenon DEF p, h, a

(* One of several disjoint sequences replaced. *)
LEMMA SetFamily ==
  ASSUME NEW D, NEW q, NEW p, NEW c \in D, Apart(q, D),
         \A d \in D \ {c} : p[d] = q[d],
         \A i, j \in 1..Len(p[c]) : p[c][i] = p[c][j] => i = j,
         \A d \in D \ {c} : \A x \in Values(p[c]) : x \notin Values(q[d])
  PROVE  Apart(p, D)
  <1>1. \A d \in D : \A i, j \in 1..Len(p[d]) : p[d][i] = p[d][j] => i = j
    BY Zenon DEF Apart
  <1>2. ASSUME NEW b \in D, NEW d \in D, NEW x \in Values(p[b]), x \in Values(p[d])
        PROVE  b = d
    <2>1. CASE b # c /\ d # c
      BY <1>2, <2>1, Zenon DEF Apart
    <2>2. CASE b = c \/ d = c
      BY <1>2, <2>2, Zenon
    <2> QED
      BY <2>1, <2>2, Zenon
  <1> QED
    BY <1>1, <1>2, Zenon DEF Apart

\* The initial state.
LEMMA InitInv == Init => IInv
  <1> SUFFICES ASSUME Init PROVE IInv
    BY Zenon
  <1>1. TypeOK
    BY ReaderSourceAssumption DEF Init, TypeOK, Goroutines, ReaderStates, FlusherStates, StopStates
  <1>2. Control
    BY ReaderSourceAssumption, GoroutinesDistinct, Zenon
    DEF Init, Control, Goroutines, ReaderStates, FlusherStates
  <1>3. OnePlace /\ SomePlace
    BY DEF Init, OnePlace, SomePlace, Apart, Disjoint, Pending, Values
  <1> QED
    BY <1>1, <1>2, <1>3, Zenon DEF IInv

-------------------------------------------------------------------------------
\* Steps that move no event: only the control state may change.
LEMMA FrameInv ==
  ASSUME OnePlace, SomePlace, UNCHANGED <<sent, stream, batches, work, runs>>
  PROVE  OnePlace' /\ SomePlace'
  BY Zenon DEF OnePlace, SomePlace, Held

(* An adapter sends an event into its channel. *)
LEMMA EmitInv ==
  ASSUME IInv, NEW r \in Readers, NEW e \in Events, Emit(r, e)
  PROVE  IInv'
  <1>0. /\ e \notin sent /\ sent' = sent \cup {e}
        /\ stream' = [stream EXCEPT ![r] = Append(@, e)]
        /\ UNCHANGED <<closed, known, batches, aged, mu, todo, loop, pc, target, work,
                       stop, runs, owed>>
    BY Zenon DEF Emit, batchVars, sweepVars, goVars
  <1>t. TypeOK /\ Control /\ OnePlace /\ SomePlace /\ stream \in [Readers -> Seq(Events)]
    BY Zenon DEF IInv, TypeOK
  <1>1. /\ stream' \in [Readers -> Seq(Events)] /\ Apart(stream', Readers)
        /\ Added(stream', stream, Readers, r, e)
    <2>1. Apart(stream, Readers) /\ \A d \in Readers : e \notin Values(stream[d])
      BY <1>0, <1>t, Zenon DEF OnePlace, Pending, Added, Removed
    <2>2. stream' = Grow(stream, r, e)
      BY <1>0, Zenon DEF Grow
    <2> QED
      BY <1>t, <2>1, <2>2, GrowFamily, Zenon
  <1>3. TypeOK'
    BY <1>0, <1>1, <1>t, Zenon DEF TypeOK
  <1>4. Control'
    BY <1>0, <1>t, Zenon DEF Control
  <1>5. OnePlace'
    <2>1. Pending(stream, Readers, sent, runs)'
      BY <1>0, <1>1, <1>t DEF OnePlace, Pending, Added, Removed
    <2>2. Pending(batches, Sources, sent, runs)' /\ Pending(work, Goroutines, sent, runs)'
      BY <1>0, <1>t, Zenon DEF OnePlace, Pending, Added, Removed
    <2>3. /\ \A s \in Sources : e \notin Values(batches[s])
          /\ \A g \in Goroutines : e \notin Values(work[g])
      BY <1>0, <1>t, Zenon DEF OnePlace, Pending, Added, Removed
    <2>4. Disjoint(stream', Readers, batches, Sources)
      BY <1>1, <1>t, <2>3, ZenonT(40) DEF OnePlace, Disjoint, Added, Removed
    <2>5. Disjoint(stream', Readers, work, Goroutines)
      BY <1>1, <1>t, <2>3 DEF OnePlace, Disjoint, Added, Removed
    <2> QED
      BY <1>0, <1>1, <1>t, <2>1, <2>2, <2>4, <2>5, Zenon DEF OnePlace
  <1>6. SomePlace'
    BY <1>0, <1>1, <1>t, Zenon DEF SomePlace, Held, Added, Removed
  <1> QED
    BY <1>3, <1>4, <1>5, <1>6, Zenon DEF IInv

(* A reader moves an event from the channel into the batch (AddEvent). *)
LEMMA AddEventInv ==
  ASSUME IInv, NEW r \in Readers, AddEvent(r)
  PROVE  IInv'
  <1> DEFINE s == ReaderSource[r]
             e == Head(stream[r])
  <1>0. /\ pc[r] = "recv" /\ stream[r] # <<>>
        /\ stream' = [stream EXCEPT ![r] = Tail(@)] /\ known' = known \cup {s}
        /\ batches' = [batches EXCEPT ![s] = Append(@, e)]
        /\ \/ pc' = [pc EXCEPT ![r] = "take"] \/ pc' = [pc EXCEPT ![r] = "recv"]
        /\ UNCHANGED <<sent, closed, aged, mu, todo, loop, target, work, stop, runs, owed>>
    BY Zenon DEF AddEvent, sweepVars
  <1>t. /\ TypeOK /\ Control /\ OnePlace /\ SomePlace /\ s \in Sources /\ r \in Goroutines
        /\ stream \in [Readers -> Seq(Events)] /\ batches \in [Sources -> Seq(Events)]
    BY ReaderSourceAssumption, Zenon DEF IInv, TypeOK, Goroutines
  <1> HIDE DEF s, e
  <1>1. /\ stream' \in [Readers -> Seq(Events)] /\ Apart(stream', Readers)
        /\ e \in Values(stream[r]) /\ e \in Events
        /\ Removed(stream', stream, Readers, e)
    <2>1. /\ Apart(stream, Readers) /\ stream \in [Readers -> Seq(Events)]
          /\ stream[r] # <<>> /\ stream' = Shrink(stream, r)
      BY <1>0, <1>t, Zenon DEF OnePlace, Shrink
    <2> QED
      BY <2>1, ShrinkFamily, Zenon DEF e
  <1>2. /\ \A d \in Sources : e \notin Values(batches[d])
        /\ \A g \in Goroutines : e \notin Values(work[g])
        /\ e \in sent /\ runs[e] = 0
    <2>1. \A d \in Sources : e \notin Values(batches[d])
      BY <1>1, <1>t, Zenon DEF OnePlace, Disjoint, Added, Removed
    <2>2. \A g \in Goroutines : e \notin Values(work[g])
      BY <1>1, <1>t, Zenon DEF OnePlace, Disjoint, Added, Removed
    <2>3. e \in sent /\ runs[e] = 0
      BY <1>1, <1>t, Zenon DEF OnePlace, Pending, Added, Removed
    <2> QED
      BY <2>1, <2>2, <2>3, Zenon
  <1>3. /\ batches' \in [Sources -> Seq(Events)] /\ Apart(batches', Sources)
        /\ Added(batches', batches, Sources, s, e)
    <2>1. /\ Apart(batches, Sources) /\ batches \in [Sources -> Seq(Events)]
          /\ s \in Sources /\ e \in Events /\ \A d \in Sources : e \notin Values(batches[d])
          /\ batches' = Grow(batches, s, e)
      BY <1>0, <1>1, <1>2, <1>t, Zenon DEF OnePlace, Grow
    <2> QED
      BY <2>1, GrowFamily, Zenon
  <1>4. TypeOK'
    BY <1>0, <1>1, <1>3, <1>t, Zenon DEF TypeOK, ReaderStates
  <1>5. Control'
    BY <1>0, <1>t, GoroutinesDistinct, ReaderSourceAssumption, ZenonT(60)
    DEF Control, TypeOK, ReaderStates, Goroutines
  <1>6. OnePlace'
    <2>1. Pending(stream', Readers, sent, runs)
      BY <1>1, <1>t, Zenon DEF OnePlace, Pending, Added, Removed
    <2>2. Pending(batches', Sources, sent, runs)
      BY <1>2, <1>3, <1>t DEF OnePlace, Pending, Added, Removed
    <2>3. Disjoint(stream', Readers, batches', Sources)
      BY <1>1, <1>3, <1>t, Zenon DEF OnePlace, Disjoint, Added, Removed
    <2>4. Disjoint(stream', Readers, work, Goroutines)
      BY <1>1, <1>t, Zenon DEF OnePlace, Disjoint, Added, Removed
    <2>5. Disjoint(batches', Sources, work, Goroutines)
      <3>1. Disjoint(batches, Sources, work, Goroutines)
        BY <1>t, Zenon DEF OnePlace
      <3> QED
        BY <1>2, <1>3, <3>1, Zenon DEF Disjoint, Added, Removed
    <2> QED
      BY <1>0, <1>1, <1>3, <1>t, <2>1, <2>2, <2>3, <2>4, <2>5, Zenon DEF OnePlace
  <1>7. SomePlace'
    <2> SUFFICES ASSUME NEW x \in sent
                 PROVE  \/ Held(stream', Readers, x) \/ Held(batches', Sources, x)
                        \/ Held(work, Goroutines, x) \/ runs[x] = 1
      BY <1>0, Zenon DEF SomePlace
    <2>1. CASE x = e
      BY <1>3, <1>t, <2>1, Zenon DEF Held, Added, Removed
    <2>2. CASE x # e
      BY <1>1, <1>3, <1>t, <2>2, Zenon DEF SomePlace, Held, Added, Removed
    <2> QED
      BY <2>1, <2>2, Zenon
  <1> QED
    BY <1>4, <1>5, <1>6, <1>7, Zenon DEF IInv

(* A goroutine takes the whole batch (TakeEvents). *)
LEMMA TakeEventsInv ==
  ASSUME IInv, NEW g \in Goroutines, TakeEvents(g)
  PROVE  IInv'
  <1> DEFINE s == target[g]
  <1>t. /\ TypeOK /\ Control /\ OnePlace /\ SomePlace
        /\ batches \in [Sources -> Seq(Events)] /\ work \in [Goroutines -> Seq(Events)]
        /\ pc[g] = "take" /\ s \in Sources /\ work[g] = <<>> /\ batches[s] \in Seq(Events)
    BY Zenon DEF IInv, TypeOK, Control, TakeEvents
  <1>0. /\ batches' = [batches EXCEPT ![s] = <<>>]
        /\ work' = [work EXCEPT ![g] = batches[s]]
        /\ aged' = [aged EXCEPT ![s] = FALSE]
        /\ pc' = [pc EXCEPT ![g] = IF batches[s] = <<>> THEN Idle(g) ELSE "process"]
        /\ target' = [target EXCEPT ![g] = IF batches[s] = <<>> THEN NoTarget(g) ELSE s]
        /\ UNCHANGED <<sent, stream, closed, known, mu, todo, loop, stop, runs, owed>>
    BY Zenon DEF TakeEvents, NewEvents, chanVars, sweepVars
  <1> HIDE DEF s
  <1>1. /\ batches' \in [Sources -> Seq(Events)] /\ work' \in [Goroutines -> Seq(Events)]
        /\ batches'[s] = <<>> /\ \A d \in Sources \ {s} : batches'[d] = batches[d]
        /\ work'[g] = batches[s] /\ \A h \in Goroutines \ {g} : work'[h] = work[h]
    BY <1>0, <1>t, Zenon
  <1>2. Values(<<>>) = {} /\ Len(<<>>) = 0
    BY DEF Values
  <1>3. TypeOK'
    BY <1>0, <1>1, <1>t, ReaderSourceAssumption, Zenon
    DEF TypeOK, ReaderStates, FlusherStates, Idle, NoTarget, Goroutines
  <1>4. Control'
    <2>1. /\ pc'[g] = IF batches[s] = <<>> THEN Idle(g) ELSE "process"
          /\ target'[g] = IF batches[s] = <<>> THEN NoTarget(g) ELSE s
          /\ \A h \in Goroutines \ {g} : pc'[h] = pc[h] /\ target'[h] = target[h]
      BY <1>0, <1>t, Zenon DEF TypeOK
    <2>2. g \in Readers => s = ReaderSource[g]
      BY <1>t, Zenon DEF Control, s
    <2>3. \A r \in Readers : pc'[r] \in ReaderStates /\ target'[r] = ReaderSource[r]
      BY <1>t, <2>1, <2>2, Zenon DEF Control, ReaderStates, Goroutines, Idle, NoTarget
    <2>4. \A f \in Flushers : pc'[f] \in FlusherStates
      BY <1>t, <2>1, GoroutinesDistinct, Zenon DEF Control, FlusherStates, Goroutines, Idle
    <2>5. \A h \in Goroutines : /\ pc'[h] \in {"take", "process"} => target'[h] \in Sources
                                /\ pc'[h] = "process" <=> work'[h] # <<>>
      BY <1>1, <1>t, <2>1, ZenonT(40) DEF Control, Idle
    <2> QED
      BY <2>3, <2>4, <2>5, Zenon DEF Control
  <1>5. OnePlace'
    <2>1. Apart(batches', Sources)
      <3>1. Apart(batches, Sources)
        BY <1>t, Zenon DEF OnePlace
      <3>2. /\ \A i, j \in 1..Len(batches'[s]) : batches'[s][i] = batches'[s][j] => i = j
            /\ \A d \in Sources \ {s} : \A x \in Values(batches'[s]) : x \notin Values(batches[d])
        BY <1>1, <1>2
      <3>3. s \in Sources /\ \A d \in Sources \ {s} : batches'[d] = batches[d]
        BY <1>1, <1>t, Zenon
      <3> QED
        BY <3>1, <3>2, <3>3, SetFamily, Zenon
    <2>2. Apart(work', Goroutines)
      <3>1. Apart(work, Goroutines)
        BY <1>t, Zenon DEF OnePlace
      <3>2. \A i, j \in 1..Len(work'[g]) : work'[g][i] = work'[g][j] => i = j
        <4>1. Apart(batches, Sources)
          BY <1>t, Zenon DEF OnePlace
        <4>2. s \in Sources /\ work'[g] = batches[s]
          BY <1>1, <1>t, Zenon
        <4> QED BY <4>1, <4>2, Zenon DEF Apart
      <3>3. \A h \in Goroutines \ {g} : \A x \in Values(work'[g]) : x \notin Values(work[h])
        BY <1>1, <1>t, Zenon DEF OnePlace, Disjoint
      <3> QED
        BY <1>1, <3>1, <3>2, <3>3, SetFamily, Zenon
    <2>3. Disjoint(stream, Readers, batches', Sources)
      BY <1>1, <1>2, <1>t, Zenon DEF OnePlace, Disjoint
    <2>4. Disjoint(stream, Readers, work', Goroutines)
      BY <1>1, <1>t, ZenonT(30) DEF OnePlace, Disjoint
    <2>5. Disjoint(batches', Sources, work', Goroutines)
      BY <1>1, <1>2, <1>t, ZenonT(120) DEF OnePlace, Disjoint, Apart
    <2>6. Pending(batches', Sources, sent, runs)
      BY <1>1, <1>2, <1>t, ZenonT(30) DEF OnePlace, Pending
    <2>7. Pending(work', Goroutines, sent, runs)
      <3>1. /\ Pending(work, Goroutines, sent, runs)
            /\ \A x \in Values(work'[g]) : x \in sent /\ runs[x] = 0
        <4>1. Pending(work, Goroutines, sent, runs) /\ Pending(batches, Sources, sent, runs)
          BY <1>t, Zenon DEF OnePlace
        <4>2. s \in Sources /\ work'[g] = batches[s]
          BY <1>1, <1>t, Zenon
        <4> QED
          BY ONLY <4>1, <4>2, Zenon DEF Pending
      <3> QED
        BY <1>1, <3>1, ZenonT(30) DEF Pending
    <2> QED
      BY <1>0, <1>t, <2>1, <2>2, <2>3, <2>4, <2>5, <2>6, <2>7, Zenon DEF OnePlace
  <1>6. SomePlace'
    <2> SUFFICES ASSUME NEW x \in sent
                 PROVE  \/ Held(stream, Readers, x) \/ Held(batches', Sources, x)
                        \/ Held(work', Goroutines, x) \/ runs[x] = 1
      BY <1>0, Zenon DEF SomePlace
    <2>1. Held(batches, Sources, x) => Held(batches', Sources, x) \/ Held(work', Goroutines, x)
      BY <1>1, Zenon DEF Held
    <2>2. Held(work, Goroutines, x) => Held(work', Goroutines, x)
      BY <1>1, <1>2, <1>t, Zenon DEF Held
    <2> QED
      BY <1>t, <2>1, <2>2, Zenon DEF SomePlace
  <1> QED
    BY <1>3, <1>4, <1>5, <1>6, Zenon DEF IInv

(* A goroutine processes the first event it holds. *)
LEMMA ProcessEventInv ==
  ASSUME IInv, NEW g \in Goroutines, ProcessEvent(g)
  PROVE  IInv'
  <1> DEFINE e == Head(work[g])
  <1>t. /\ TypeOK /\ Control /\ OnePlace /\ SomePlace /\ runs \in [Events -> Nat]
        /\ work \in [Goroutines -> Seq(Events)] /\ pc[g] = "process" /\ work[g] # <<>>
    BY Zenon DEF IInv, TypeOK, Control, ProcessEvent
  <1>0. /\ runs' = [runs EXCEPT ![e] = @ + 1] /\ work' = [work EXCEPT ![g] = Tail(@)]
        /\ pc' = [pc EXCEPT ![g] = IF Tail(work[g]) = <<>> THEN Idle(g) ELSE "process"]
        /\ target' = [target EXCEPT ![g] = IF Tail(work[g]) = <<>> THEN NoTarget(g) ELSE @]
        /\ UNCHANGED <<sent, stream, closed, known, batches, aged, mu, todo, loop, stop, owed>>
    BY Zenon DEF ProcessEvent, Rest, chanVars, batchVars, sweepVars
  <1> HIDE DEF e
  <1>1. /\ work' \in [Goroutines -> Seq(Events)] /\ Apart(work', Goroutines)
        /\ e \in Values(work[g]) /\ e \in Events /\ Removed(work', work, Goroutines, e)
        /\ work'[g] = Tail(work[g])
        /\ \A h \in Goroutines \ {g} : work'[h] = work[h]
    <2>1. Apart(work, Goroutines) /\ work' = Shrink(work, g)
      BY <1>0, <1>t, Zenon DEF OnePlace, Shrink
    <2>2. /\ work' \in [Goroutines -> Seq(Events)] /\ Apart(work', Goroutines)
          /\ e \in Values(work[g]) /\ e \in Events /\ Removed(work', work, Goroutines, e)
      BY <1>t, <2>1, ShrinkFamily, Zenon DEF e
    <2>3. /\ work'[g] = Tail(work[g])
          /\ \A h \in Goroutines \ {g} : work'[h] = work[h]
      BY <1>0, <1>t, Zenon
    <2> QED
      BY <2>2, <2>3, Zenon
  <1>2. e \in sent /\ runs[e] = 0
    BY <1>1, <1>t, Zenon DEF OnePlace, Pending
  <1>3. runs'[e] = 1 /\ \A x \in Events \ {e} : runs'[x] = runs[x]
    BY <1>0, <1>1, <1>2, <1>t
  <1>4. TypeOK'
    <2>1. /\ Idle(g) \in ReaderStates \cup FlusherStates /\ "process" \in ReaderStates
          /\ NoTarget(g) \in Sources \cup {NoSource}
      BY ReaderSourceAssumption, Zenon DEF ReaderStates, FlusherStates, Idle, NoTarget
    <2>2. /\ pc' \in [Goroutines -> ReaderStates \cup FlusherStates]
          /\ target' \in [Goroutines -> Sources \cup {NoSource}]
      BY <1>0, <1>t, <2>1, Zenon DEF TypeOK
    <2>3. runs' \in [Events -> Nat]
      <3>1. runs[e] + 1 \in Nat
        BY <1>2
      <3> QED
        BY <1>0, <1>1, <1>t, <3>1, Zenon
    <2> QED
      BY <1>0, <1>1, <1>t, <2>2, <2>3, Zenon DEF TypeOK
  <1>5. Control'
    <2>1. /\ pc'[g] = IF Tail(work[g]) = <<>> THEN Idle(g) ELSE "process"
          /\ target'[g] = IF Tail(work[g]) = <<>> THEN NoTarget(g) ELSE target[g]
          /\ \A h \in Goroutines \ {g} : pc'[h] = pc[h] /\ target'[h] = target[h]
      BY <1>0, <1>t, Zenon DEF TypeOK
    <2> QED
      BY <1>1, <1>t, <2>1, GoroutinesDistinct, ZenonT(60)
      DEF Control, ReaderStates, FlusherStates, Goroutines, Idle, NoTarget
  <1>6. OnePlace'
    <2>1. Disjoint(stream, Readers, work', Goroutines)
      BY <1>1, <1>t, Zenon DEF OnePlace, Disjoint, Removed
    <2>2. Disjoint(batches, Sources, work', Goroutines)
      BY <1>1, <1>t, Zenon DEF OnePlace, Disjoint, Removed
    <2>3. Pending(stream, Readers, sent, runs')
      <3>1. \A c \in Readers : Values(stream[c]) \subseteq Events
        <4> SUFFICES ASSUME NEW c \in Readers PROVE Values(stream[c]) \subseteq Events
          BY Zenon
        <4>1. stream[c] \in Seq(Events)
          BY <1>t, Zenon DEF TypeOK
        <4> QED BY <4>1, ValuesOfSeq, Zenon
      <3>2. \A c \in Readers : e \notin Values(stream[c])
        BY <1>1, <1>t, Zenon DEF OnePlace, Disjoint
      <3>3. Pending(stream, Readers, sent, runs)
        BY <1>t, Zenon DEF OnePlace
      <3> SUFFICES ASSUME NEW c \in Readers, NEW x \in Values(stream[c])
                   PROVE  x \in sent /\ runs'[x] = 0
        BY Zenon DEF Pending
      <3>4. x \in sent /\ runs[x] = 0
        BY <3>3, Zenon DEF Pending
      <3>5. x \in Events \ {e}
        BY <3>1, <3>2, Zenon
      <3> QED
        BY <1>3, <3>4, <3>5, Zenon
    <2>4. Pending(batches, Sources, sent, runs')
      <3>1. \A c \in Sources : Values(batches[c]) \subseteq Events
        <4> SUFFICES ASSUME NEW c \in Sources PROVE Values(batches[c]) \subseteq Events
          BY Zenon
        <4>1. batches[c] \in Seq(Events)
          BY <1>t, Zenon DEF TypeOK
        <4> QED BY <4>1, ValuesOfSeq, Zenon
      <3>2. \A c \in Sources : e \notin Values(batches[c])
        BY <1>1, <1>t, Zenon DEF OnePlace, Disjoint
      <3>3. Pending(batches, Sources, sent, runs)
        BY <1>t, Zenon DEF OnePlace
      <3> SUFFICES ASSUME NEW c \in Sources, NEW x \in Values(batches[c])
                   PROVE  x \in sent /\ runs'[x] = 0
        BY Zenon DEF Pending
      <3>4. x \in sent /\ runs[x] = 0
        BY <3>3, Zenon DEF Pending
      <3>5. x \in Events \ {e}
        BY <3>1, <3>2, Zenon
      <3> QED
        BY <1>3, <3>4, <3>5, Zenon
    <2>5. Pending(work', Goroutines, sent, runs')
      <3>1. \A c \in Goroutines : Values(work[c]) \subseteq Events
        BY <1>t, ValuesOfSeq, Zenon
      <3>2. \A c \in Goroutines : \A x \in Values(work'[c]) : x \in Values(work[c]) /\ x # e
        BY <1>1, Zenon DEF Removed
      <3>3. Pending(work, Goroutines, sent, runs)
        BY <1>t, Zenon DEF OnePlace
      <3> SUFFICES ASSUME NEW c \in Goroutines, NEW x \in Values(work'[c])
                   PROVE  x \in sent /\ runs'[x] = 0
        BY Zenon DEF Pending
      <3>4. x \in sent /\ runs[x] = 0
        BY <3>2, <3>3, Zenon DEF Pending
      <3>5. x \in Events \ {e}
        BY <3>1, <3>2, Zenon
      <3> QED
        BY <1>3, <3>4, <3>5, Zenon
    <2>6. \A x \in Events : runs'[x] \in {0, 1} /\ (runs'[x] = 1 => x \in sent)
      BY <1>2, <1>3, <1>t, Zenon DEF OnePlace
    <2> QED
      BY <1>0, <1>1, <1>t, <2>1, <2>2, <2>3, <2>4, <2>5, <2>6, Zenon DEF OnePlace
  <1>7. SomePlace'
    <2> SUFFICES ASSUME NEW x \in sent
                 PROVE  \/ Held(stream, Readers, x) \/ Held(batches, Sources, x)
                        \/ Held(work', Goroutines, x) \/ runs'[x] = 1
      BY <1>0, Zenon DEF SomePlace
    <2>1. CASE x = e
      BY <1>3, <2>1, Zenon
    <2>2. CASE x # e
      <3>1. x \in Events /\ runs'[x] = runs[x]
        BY <1>3, <1>t, <2>2, Zenon DEF TypeOK
      <3>2. Held(work, Goroutines, x) => Held(work', Goroutines, x)
        BY <1>1, <2>2, Zenon DEF Held, Removed
      <3> QED
        BY <1>t, <3>1, <3>2, Zenon DEF SomePlace
    <2> QED
      BY <2>1, <2>2, Zenon
  <1> QED
    BY <1>4, <1>5, <1>6, <1>7, Zenon DEF IInv

-------------------------------------------------------------------------------
\* Steps that change the control state of one goroutine and move no event.
LEMMA ControlInv ==
  ASSUME IInv, NEW g \in Goroutines, pc[g] # "process",
         NEW c, NEW s \in Sources \cup {NoSource},
         g \in Readers => c \in ReaderStates /\ s = ReaderSource[g],
         g \in Flushers => c \in FlusherStates,
         c = "take" => s \in Sources, c # "process",
         pc' = [pc EXCEPT ![g] = c], target' = [target EXCEPT ![g] = s],
         UNCHANGED <<sent, stream, batches, work, runs>>
  PROVE  /\ pc' \in [Goroutines -> ReaderStates \cup FlusherStates]
         /\ target' \in [Goroutines -> Sources \cup {NoSource}]
         /\ Control' /\ OnePlace' /\ SomePlace'
  <1>1. TypeOK /\ Control /\ OnePlace /\ SomePlace
    BY Zenon DEF IInv
  <1>2. /\ pc' \in [Goroutines -> ReaderStates \cup FlusherStates]
        /\ target' \in [Goroutines -> Sources \cup {NoSource}]
    BY <1>1, Zenon DEF TypeOK, Goroutines
  <1>3. /\ pc'[g] = c /\ target'[g] = s
        /\ \A h \in Goroutines \ {g} : pc'[h] = pc[h] /\ target'[h] = target[h]
    BY <1>1, Zenon DEF TypeOK
  <1>4. Control'
    <2>1. \A r \in Readers : pc'[r] \in ReaderStates /\ target'[r] = ReaderSource[r]
      BY <1>1, <1>3, Zenon DEF Control, Goroutines
    <2>2. \A f \in Flushers : pc'[f] \in FlusherStates
      BY <1>1, <1>3, Zenon DEF Control, Goroutines
    <2>3. \A h \in Goroutines : /\ pc'[h] \in {"take", "process"} => target'[h] \in Sources
                                /\ pc'[h] = "process" <=> work'[h] # <<>>
      BY <1>1, <1>3, Zenon DEF Control
    <2> QED
      BY <2>1, <2>2, <2>3, Zenon DEF Control
  <1> QED
    BY <1>1, <1>2, <1>4, FrameInv, Zenon

\* A reader starts or ends: pc[r] changes, target[r] stays.
LEMMA ReaderInv ==
  ASSUME IInv, NEW r \in Readers, StartAdapter(r) \/ ReaderExit(r)
  PROVE  IInv'
  <1>1. PICK c \in {"recv", "exited"} :
          /\ pc' = [pc EXCEPT ![r] = c] /\ pc[r] # "process"
          /\ UNCHANGED <<sent, stream, closed, known, batches, aged, mu, todo, loop, target,
                         work, stop, runs, owed>>
    BY Zenon DEF StartAdapter, ReaderExit, chanVars, batchVars, sweepVars
  <1>2. /\ r \in Goroutines /\ c \in ReaderStates /\ c # "process" /\ c # "take"
        /\ target[r] = ReaderSource[r] /\ ReaderSource[r] \in Sources \cup {NoSource}
        /\ target' = [target EXCEPT ![r] = ReaderSource[r]] /\ r \notin Flushers
    BY <1>1, ReaderSourceAssumption, GoroutinesDistinct, Zenon
    DEF IInv, TypeOK, Control, Goroutines, ReaderStates
  <1>3. /\ pc' \in [Goroutines -> ReaderStates \cup FlusherStates]
        /\ Control' /\ OnePlace' /\ SomePlace'
    BY <1>1, <1>2, ControlInv, Zenon
  <1> QED
    BY <1>1, <1>3, Zenon DEF IInv, TypeOK

(* The sweep starts a flush goroutine. *)
LEMMA SweepSpawnInv ==
  ASSUME IInv, NEW s \in Sources, NEW f \in Flushers, SweepSpawn(s, f)
  PROVE  IInv'
  <1>1. /\ pc[f] # "process" /\ pc' = [pc EXCEPT ![f] = "take"]
        /\ target' = [target EXCEPT ![f] = s] /\ todo' = todo \ {s}
        /\ UNCHANGED <<sent, stream, closed, known, batches, aged, mu, loop, work, stop, runs,
                       owed>>
    BY Zenon DEF SweepSpawn, chanVars, batchVars
  <1>2. /\ f \in Goroutines /\ f \notin Readers /\ "take" \in FlusherStates
        /\ s \in Sources \cup {NoSource}
    BY GoroutinesDistinct, Zenon DEF Goroutines, FlusherStates
  <1>3. /\ pc' \in [Goroutines -> ReaderStates \cup FlusherStates]
        /\ target' \in [Goroutines -> Sources \cup {NoSource}]
        /\ Control' /\ OnePlace' /\ SomePlace'
    BY <1>1, <1>2, ControlInv, Zenon
  <1> QED
    BY <1>1, <1>3, Zenon DEF IInv, TypeOK

\* Steps of the adapters, the clock, the sweep and Stop that touch no goroutine
\* and no event.
OtherStep ==
  \/ \E r \in Readers : StopAdapter(r)
  \/ \E s \in Sources : Age(s) \/ SweepSkip(s)
  \/ Tick \/ ContextDone \/ SweepEnd
  \/ StopCancel \/ StopCancelBatch \/ StopSweep \/ StopReturn

(* Steps that move no event. *)
LEMMA OtherInv ==
  ASSUME IInv, OtherStep
  PROVE  IInv'
  <1>1. TypeOK /\ Control /\ OnePlace /\ SomePlace
    BY Zenon DEF IInv
  <1>2. UNCHANGED <<sent, stream, batches, work, runs, pc, target>>
    BY Zenon DEF OtherStep, StopAdapter, Age, SweepSkip, Tick, ContextDone, SweepEnd, StopCancel,
           StopCancelBatch, StopSweep, StopReturn, chanVars, batchVars, sweepVars, goVars
  <1>3. Control' /\ OnePlace' /\ SomePlace'
    BY <1>1, <1>2, FrameInv, Zenon DEF Control
  <1>4. TypeOK'
    <2> USE DEF chanVars, batchVars, sweepVars, goVars
    <2>1. CASE \E r \in Readers : StopAdapter(r)
      BY <1>1, <2>1, Zenon DEF TypeOK, StopAdapter
    <2>2. CASE \E s \in Sources : Age(s)
      BY <1>1, <2>2, Zenon DEF TypeOK, Age
    <2>3. CASE \E s \in Sources : SweepSkip(s)
      BY <1>1, <2>3, Zenon DEF TypeOK, SweepSkip
    <2>4. CASE Tick
      BY <1>1, <2>4, Zenon DEF TypeOK, Tick
    <2>5. CASE ContextDone
      BY <1>1, <2>5, Zenon DEF TypeOK, ContextDone
    <2>6. CASE SweepEnd
      BY <1>1, <2>6, Zenon DEF TypeOK, SweepEnd, LoopAfter, StopStates
    <2>7. CASE StopCancel \/ StopSweep \/ StopReturn
      BY <1>1, <2>7, Zenon DEF TypeOK, StopCancel, StopSweep, StopReturn, StopStates
    <2>8. CASE StopCancelBatch
      <3>1. owed' \subseteq Events
        BY <1>1, <2>8, ValuesOfSeq DEF TypeOK, StopCancelBatch
      <3> QED
        BY <1>1, <2>8, <3>1, Zenon DEF TypeOK, StopCancelBatch, StopStates
    <2> QED
      BY <2>1, <2>2, <2>3, <2>4, <2>5, <2>6, <2>7, <2>8, Zenon DEF OtherStep
  <1> QED
    BY <1>3, <1>4, Zenon DEF IInv

\* Every step keeps the invariant.
LEMMA NextInv == IInv /\ [Next]_vars => IInv'
  <1> SUFFICES ASSUME IInv, [Next]_vars PROVE IInv'
    BY Zenon
  <1>1. CASE \E r \in Readers, e \in Events : Emit(r, e)
    BY <1>1, EmitInv, Zenon
  <1>2. CASE \E r \in Readers : AddEvent(r)
    BY <1>2, AddEventInv, Zenon
  <1>3. CASE \E g \in Goroutines : TakeEvents(g)
    BY <1>3, TakeEventsInv, Zenon
  <1>4. CASE \E g \in Goroutines : ProcessEvent(g)
    BY <1>4, ProcessEventInv, Zenon
  <1>5. CASE \E r \in Readers : StartAdapter(r) \/ ReaderExit(r)
    BY <1>5, ReaderInv, Zenon
  <1>6. CASE \E s \in Sources, f \in Flushers : SweepSpawn(s, f)
    BY <1>6, SweepSpawnInv, Zenon
  <1>7. CASE OtherStep
    BY <1>7, OtherInv, Zenon
  <1>8. CASE UNCHANGED vars
    BY <1>8, FrameInv, Zenon
    DEF vars, chanVars, batchVars, sweepVars, goVars, IInv, TypeOK, Control
  <1> QED
    BY <1>1, <1>2, <1>3, <1>4, <1>5, <1>6, <1>7, <1>8, Zenon DEF Next, OtherStep, Terminated

\* What the inductive invariant says in the terms of the runs.
LEMMA IInvImplies == IInv => TypeOK /\ AtMostOnce /\ NoSilentLoss
  <1> SUFFICES ASSUME IInv PROVE TypeOK /\ AtMostOnce /\ NoSilentLoss
    BY Zenon
  <1>1. TypeOK /\ OnePlace /\ SomePlace
    BY Zenon DEF IInv
  <1>2. AtMostOnce
    BY <1>1 DEF OnePlace, AtMostOnce
  <1>b. \A e : e \in Buffered <=> Held(stream, Readers, e) \/ Held(batches, Sources, e)
    <2> DEFINE A == UNION {Values(stream[r]) : r \in Readers}
               B == UNION {Values(batches[s]) : s \in Sources}
    <2>1. \A e : e \in A <=> Held(stream, Readers, e)
      BY Zenon DEF Held
    <2>2. \A e : e \in B <=> Held(batches, Sources, e)
      BY Zenon DEF Held
    <2>3. Buffered = A \cup B
      BY Zenon DEF Buffered
    <2> HIDE DEF A, B
    <2> QED
      BY <2>1, <2>2, <2>3, Zenon
  <1>h. \A e : e \in InHand <=> Held(work, Goroutines, e)
    BY Zenon DEF InHand, Held
  <1>3. \A e \in sent : e \in Buffered \cup InHand \cup Processed
    BY <1>1, <1>b, <1>h DEF SomePlace, Processed, TypeOK
  <1>4. Buffered \subseteq sent /\ InHand \subseteq sent
    <2>1. \A e : Held(stream, Readers, e) => e \in sent
      BY <1>1, Zenon DEF OnePlace, Pending, Held
    <2>2. \A e : Held(batches, Sources, e) => e \in sent
      BY <1>1, Zenon DEF OnePlace, Pending, Held
    <2>3. \A e : Held(work, Goroutines, e) => e \in sent
      BY <1>1, Zenon DEF OnePlace, Pending, Held
    <2> QED
      BY <1>b, <1>h, <2>1, <2>2, <2>3, Zenon
  <1>5. Processed \subseteq sent
    BY <1>1 DEF OnePlace, Processed
  <1> QED
    BY <1>1, <1>2, <1>3, <1>4, <1>5, Zenon DEF NoSilentLoss

\* batch_processor.go keeps its types.
THEOREM TypeCorrect == Spec => []TypeOK
  <1>1. IInv => TypeOK
    BY Zenon DEF IInv
  <1> QED
    BY <1>1, InitInv, NextInv, PTL DEF Spec

\* AddEvent, TakeEvents and processBatch call ProcessEvent at most once per event.
THEOREM ProcessedAtMostOnce == Spec => []AtMostOnce
  BY IInvImplies, InitInv, NextInv, PTL DEF Spec

\* AddEvent, TakeEvents and processBatch lose no event, in any interleaving.
THEOREM NothingLost == Spec => []NoSilentLoss
  BY IInvImplies, InitInv, NextInv, PTL DEF Spec

-------------------------------------------------------------------------------
(* The bound on a batch.                                                   *)

\* Readers that found the batch of s ready and have not taken it.
Taking(s) == {r \in Readers : pc[r] = "take" /\ ReaderSource[r] = s}

BoundInv == \A s \in Sources : Len(batches[s]) < MaxBatchSize + Cardinality(Taking(s))

(* The readers about to take a batch are readers of its source. *)
LEMMA TakingFinite ==
  ASSUME NEW s
  PROVE  /\ IsFiniteSet(Taking(s)) /\ Cardinality(Taking(s)) \in Nat
         /\ Cardinality(Taking(s)) <= Cardinality({r \in Readers : ReaderSource[r] = s})
  <1> DEFINE R == {r \in Readers : ReaderSource[r] = s}
  <1>1. IsFiniteSet(R) /\ Taking(s) \subseteq R
    BY ReadersFinite, FS_Subset, Zenon DEF Taking
  <1> QED
    BY <1>1, FS_Subset, FS_CardinalityType, Zenon

(* Batches are empty at first. *)
LEMMA BoundInit == Init => BoundInv
  <1> SUFFICES ASSUME Init, NEW s \in Sources
               PROVE  Len(batches[s]) < MaxBatchSize + Cardinality(Taking(s))
    BY Zenon DEF BoundInv
  <1>1. Len(batches[s]) = 0 /\ Cardinality(Taking(s)) \in Nat
    BY TakingFinite, Zenon DEF Init
  <1> QED
    BY <1>1, MaxBatchSizeAssumption

\* Steps that leave the batches alone and make no reader start or stop taking.
LEMMA BoundFrame ==
  ASSUME BoundInv, UNCHANGED batches,
         \A r \in Readers : pc'[r] = "take" <=> pc[r] = "take"
  PROVE  BoundInv'
  <1>1. \A s : Taking(s)' = Taking(s)
    BY Zenon DEF Taking
  <1> QED
    BY <1>1, Zenon DEF BoundInv

\* AddEvent's append to the batch makes it one event longer.
LEMMA AppendLonger ==
  ASSUME NEW E, NEW b \in Seq(E), NEW e \in E
  PROVE  Len(Append(b, e)) = Len(b) + 1 /\ Len(b) \in Nat
  OBVIOUS

\* One more event and one more reader about to take keep the bound.
LEMMA OneMoreBelow ==
  ASSUME NEW n \in Nat, NEW m \in Nat, NEW c \in Nat, n < m + c,
         NEW n2, n2 = n + 1, NEW c2, c2 = c + 1
  PROVE  n2 < m + c2
  OBVIOUS

\* AddEvent keeps the bound: a reader that fills a batch goes on to take it.
LEMMA BoundAddEvent ==
  ASSUME IInv, BoundInv, NEW r \in Readers, AddEvent(r)
  PROVE  BoundInv'
  <1> DEFINE s == ReaderSource[r]
  <1>0. /\ s \in Sources /\ batches[s] \in Seq(Events) /\ stream[r] \in Seq(Events)
        /\ r \in DOMAIN pc /\ s \in DOMAIN batches
    BY ReaderSourceAssumption, Zenon DEF IInv, TypeOK, Goroutines
  <1>1. /\ s \in Sources /\ batches[s] \in Seq(Events) /\ Head(stream[r]) \in Events
        /\ pc[r] = "recv" /\ r \in DOMAIN pc /\ s \in DOMAIN batches
        /\ MaxBatchSize \in Nat /\ Cardinality(Taking(s)) \in Nat
    <2>1. pc[r] = "recv" /\ stream[r] # <<>>
      BY Zenon DEF AddEvent
    <2>2. Head(stream[r]) \in Events
      BY <1>0, <2>1
    <2> QED
      BY <1>0, <2>1, <2>2, MaxBatchSizeAssumption, TakingFinite, Zenon
  <1>2. /\ Len(batches'[s]) = Len(batches[s]) + 1 /\ Len(batches[s]) \in Nat
        /\ \A d \in Sources \ {s} : batches'[d] = batches[d]
        /\ \A q \in Readers \ {r} : pc'[q] = pc[q]
        /\ pc'[r] = IF IsReadyForProcessing(s, Len(batches[s]) + 1) THEN "take" ELSE "recv"
    <2>1. /\ batches' = [batches EXCEPT ![s] = Append(batches[s], Head(stream[r]))]
          /\ pc' = [pc EXCEPT ![r] = IF IsReadyForProcessing(s, Len(batches[s]) + 1)
                                       THEN "take" ELSE "recv"]
      BY Zenon DEF AddEvent
    <2>2. /\ batches \in [Sources -> Seq(Events)]
          /\ DOMAIN pc = Goroutines
      BY Zenon DEF IInv, TypeOK
    <2>3. batches'[s] = Append(batches[s], Head(stream[r]))
      BY <1>1, <2>1, Zenon
    <2>4. Len(batches'[s]) = Len(batches[s]) + 1 /\ Len(batches[s]) \in Nat
      <3>1. /\ Len(Append(batches[s], Head(stream[r]))) = Len(batches[s]) + 1
            /\ Len(batches[s]) \in Nat
        BY <1>1, AppendLonger, Zenon
      <3> QED
        BY ONLY <3>1, <2>3, Zenon
    <2>5. \A d \in Sources \ {s} : batches'[d] = batches[d]
      BY <2>1, <2>2, Zenon
    <2>6. \A q \in Readers \ {r} : pc'[q] = pc[q]
      BY <2>1, <2>2, Zenon DEF Goroutines
    <2> QED
      BY <1>1, <2>1, <2>4, <2>5, <2>6, Zenon
  <1>3. ASSUME NEW d \in Sources \ {s}
        PROVE  Len(batches'[d]) < MaxBatchSize + Cardinality(Taking(d)')
    <2>1. Taking(d)' = Taking(d)
      BY <1>2, Zenon DEF Taking
    <2> QED
      BY <1>2, <2>1, Zenon DEF BoundInv
  <1>4. Len(batches'[s]) < MaxBatchSize + Cardinality(Taking(s)')
    <2>1. CASE pc'[r] = "take"
      <3>1. Taking(s)' = Taking(s) \cup {r} /\ r \notin Taking(s)
        BY <1>1, <1>2, <2>1, Zenon DEF Taking
      <3>2. Cardinality(Taking(s)') = Cardinality(Taking(s)) + 1
        BY <3>1, TakingFinite, FS_AddElement, Zenon
      <3>3. Len(batches[s]) < MaxBatchSize + Cardinality(Taking(s))
        BY <1>1, Zenon DEF BoundInv
      <3> QED
        <4>1. /\ Len(batches[s]) \in Nat /\ MaxBatchSize \in Nat /\ Cardinality(Taking(s)) \in Nat
              /\ Len(batches'[s]) = Len(batches[s]) + 1
          BY <1>1, <1>2, Zenon
        <4> QED
          BY ONLY <4>1, <3>2, <3>3, OneMoreBelow, Zenon
    <2>2. CASE pc'[r] = "recv"
      <3>1. Taking(s)' = Taking(s)
        BY <1>1, <1>2, <2>2, Zenon DEF Taking
      <3>2. Len(batches[s]) + 1 < MaxBatchSize
        BY <1>1, <1>2, <2>2 DEF IsReadyForProcessing
      <3> QED
        BY <1>1, <1>2, <3>1, <3>2, SMTT(30)
    <2> QED
      BY <1>2, <2>1, <2>2, Zenon
  <1> QED
    BY <1>3, <1>4, Zenon DEF BoundInv

(* One reader less is about to take, and the batch is empty. *)
LEMMA BoundTakeEvents ==
  ASSUME IInv, BoundInv, NEW g \in Goroutines, TakeEvents(g)
  PROVE  BoundInv'
  <1>0. PICK s \in Sources : s = target[g]
    BY Zenon DEF IInv, Control, TakeEvents
  <1>1. /\ pc[g] = "take" /\ MaxBatchSize \in Nat \ {0}
        /\ g \in Readers => s = ReaderSource[g]
    BY <1>0, MaxBatchSizeAssumption, Zenon DEF IInv, Control, TakeEvents
  <1>2. /\ batches'[s] = <<>> /\ \A d \in Sources \ {s} : batches'[d] = batches[d]
        /\ \A h \in Goroutines \ {g} : pc'[h] = pc[h]
        /\ pc'[g] # "take"
    BY <1>0, <1>1, Zenon DEF TakeEvents, NewEvents, IInv, TypeOK, Idle
  <1>3. ASSUME NEW d \in Sources \ {s}
        PROVE  Len(batches'[d]) < MaxBatchSize + Cardinality(Taking(d)')
    <2>1. Taking(d)' = Taking(d)
      BY <1>1, <1>2, Zenon DEF Taking, Goroutines
    <2> QED
      BY <1>2, <2>1, Zenon DEF BoundInv
  <1>4. Len(batches'[s]) < MaxBatchSize + Cardinality(Taking(s)')
    <2>1. Len(batches'[s]) = 0
      BY <1>2
    <2>2. Cardinality(Taking(s)') \in Nat
      <3>1. Taking(s)' \subseteq Readers
        BY Zenon DEF Taking
      <3> QED
        BY <3>1, ReadersFinite, FS_Subset, FS_CardinalityType, Zenon
    <2> QED
      BY <1>1, <2>1, <2>2
  <1> QED
    BY <1>3, <1>4, Zenon DEF BoundInv

(* Only AddEvent lengthens a batch; a full one its reader is to take. *)
LEMMA BoundNext == IInv /\ BoundInv /\ [Next]_vars => BoundInv'
  <1> SUFFICES ASSUME IInv, BoundInv, [Next]_vars PROVE BoundInv'
    BY Zenon
  <1>t. pc \in [Goroutines -> ReaderStates \cup FlusherStates]
    BY Zenon DEF IInv, TypeOK
  <1> USE DEF chanVars, batchVars, sweepVars, goVars
  <1>1. CASE \E r \in Readers : AddEvent(r)
    BY <1>1, BoundAddEvent, Zenon
  <1>2. CASE \E g \in Goroutines : TakeEvents(g)
    BY <1>2, BoundTakeEvents, Zenon
  <1>3. CASE \E g \in Goroutines : ProcessEvent(g)
    BY <1>3, <1>t, BoundFrame, Zenon DEF ProcessEvent, Idle, Goroutines
  <1>4. CASE \E r \in Readers : StartAdapter(r) \/ ReaderExit(r)
    BY <1>4, <1>t, BoundFrame, Zenon DEF StartAdapter, ReaderExit, Goroutines
  <1>5. CASE \E s \in Sources, f \in Flushers : SweepSpawn(s, f)
    BY <1>5, <1>t, BoundFrame, GoroutinesDistinct, Zenon DEF SweepSpawn, Goroutines
  <1>6. CASE \E r \in Readers, e \in Events : Emit(r, e)
    BY <1>6, BoundFrame, Zenon DEF Emit
  <1>7. CASE OtherStep
    <2>1. UNCHANGED <<batches, pc>>
      BY <1>7, Zenon
      DEF OtherStep, StopAdapter, Age, SweepSkip, Tick, ContextDone, SweepEnd, StopCancel,
          StopCancelBatch, StopSweep, StopReturn
    <2> QED
      BY <2>1, BoundFrame, Zenon
  <1>8. CASE UNCHANGED vars
    BY <1>8, BoundFrame, Zenon DEF vars
  <1> QED
    BY <1>1, <1>2, <1>3, <1>4, <1>5, <1>6, <1>7, <1>8, Zenon DEF Next, OtherStep, Terminated

\* AddEvent keeps a batch below MaxBatchSize plus the readers of its source: the
\* memory a source may hold, however late the goroutines take the batch.
THEOREM BatchBounded == Spec => []BatchBound
  <1>1. IInv /\ BoundInv => BatchBound
    <2> SUFFICES ASSUME IInv, BoundInv, NEW s \in Sources
                 PROVE  Len(batches[s]) <
                          MaxBatchSize + Cardinality({r \in Readers : ReaderSource[r] = s})
      BY Zenon DEF BatchBound
    <2>1. Len(batches[s]) \in Nat /\ MaxBatchSize \in Nat
      BY MaxBatchSizeAssumption DEF IInv, TypeOK
    <2>2. Cardinality({r \in Readers : ReaderSource[r] = s}) \in Nat
      <3>1. IsFiniteSet({r \in Readers : ReaderSource[r] = s})
        BY ReadersFinite, FS_Subset, Zenon
      <3> QED
        BY <3>1, FS_CardinalityType, Zenon
    <2>3. /\ Cardinality(Taking(s)) <= Cardinality({r \in Readers : ReaderSource[r] = s})
          /\ Cardinality(Taking(s)) \in Nat
      BY TakingFinite, Zenon
    <2>4. Len(batches[s]) < MaxBatchSize + Cardinality(Taking(s))
      BY Zenon DEF BoundInv
    <2> QED
      BY <2>1, <2>2, <2>3, <2>4
  <1> QED
    BY <1>1, InitInv, NextInv, BoundInit, BoundNext, PTL DEF Spec

-------------------------------------------------------------------------------
(* Batching implements EventDelivery.                                      *)

(* The two ways to say that a goroutine holds an event. *)
LEMMA InHandHeld ==
  ASSUME NEW e
  PROVE  (e \in InHand <=> Held(work, Goroutines, e)) /\
         (e \in InHand' <=> Held(work', Goroutines, e))
  BY Zenon DEF InHand, Held

\* The mapping, event by event, where the invariant holds.
PhaseOf(e, S, n, w) == IF n[e] = 1 THEN "done"
                       ELSE IF Held(w, Goroutines, e) THEN "active"
                       ELSE IF e \in S THEN "accepted" ELSE "new"

(* The refinement mapping, read off the counter and the hands. *)
LEMMA PhaseBarIs ==
  ASSUME OnePlace, OnePlace', NEW e \in Events
  PROVE  /\ phaseBar[e] = PhaseOf(e, sent, runs, work)
         /\ phaseBar'[e] = PhaseOf(e, sent', runs', work')
  <1>1. runs[e] \in {0, 1} /\ runs'[e] \in {0, 1}
    BY Zenon DEF OnePlace
  <1>2. phaseBar[e] = PhaseOf(e, sent, runs, work)
    BY <1>1, InHandHeld DEF phaseBar, PhaseOf
  <1>3. phaseBar'[e] = PhaseOf(e, sent', runs', work')
    BY <1>1, InHandHeld DEF phaseBar, PhaseOf
  <1> QED
    BY <1>2, <1>3, Zenon

(* At first every event is new to EventDelivery. *)
LEMMA PhaseInit == Init => ED!Init
  <1> SUFFICES ASSUME Init, NEW e \in Events PROVE phaseBar[e] = "new"
    BY Zenon DEF ED!Init, phaseBar
  <1>1. runs[e] = 0 /\ e \notin sent
    BY Zenon DEF Init
  <1>2. e \notin InHand
    BY DEF Init, InHand, Values
  <1> QED
    BY <1>1, <1>2 DEF phaseBar

\* A step that sends, takes and processes nothing is a stuttering step.
LEMMA PhaseFrame ==
  ASSUME UNCHANGED <<sent, runs, work>>
  PROVE  UNCHANGED phaseBar
  BY DEF phaseBar, InHand

(* Sending is accepting. *)
LEMMA PhaseEmit ==
  ASSUME IInv, IInv', NEW r \in Readers, NEW e \in Events, Emit(r, e)
  PROVE  ED!Accept(e)
  <1>1. OnePlace /\ OnePlace' /\ e \notin sent /\ sent' = sent \cup {e} /\ UNCHANGED <<runs, work>>
    BY Zenon DEF IInv, Emit, goVars
  <1>2. runs[e] = 0 /\ ~Held(work, Goroutines, e)
    BY <1>1, Zenon DEF OnePlace, Pending, Held
  <1>3. phaseBar[e] = "new" /\ phaseBar'[e] = "accepted"
    <2>1. /\ phaseBar[e] = PhaseOf(e, sent, runs, work)
          /\ phaseBar'[e] = PhaseOf(e, sent', runs', work')
      BY <1>1, PhaseBarIs, Zenon
    <2>2. PhaseOf(e, sent, runs, work) = "new"
      BY <1>1, <1>2 DEF PhaseOf
    <2>3. PhaseOf(e, sent', runs', work') = "accepted"
      BY <1>1, <1>2 DEF PhaseOf
    <2> QED
      BY <2>1, <2>2, <2>3, Zenon
  <1>4. \A x \in Events \ {e} : phaseBar'[x] = phaseBar[x]
    BY <1>1 DEF phaseBar, InHand
  <1>5. phaseBar' = [phaseBar EXCEPT ![e] = "accepted"]
    <2>1. /\ phaseBar = [x \in Events |-> phaseBar[x]]
          /\ phaseBar' = [x \in Events |-> phaseBar'[x]]
      BY DEF phaseBar
    <2> HIDE DEF phaseBar
    <2> QED
      BY <1>3, <1>4, <2>1, Zenon
  <1> QED
    BY <1>3, <1>5, Zenon DEF ED!Accept

(* Taking a batch is picking up its events, or nothing if it is empty. *)
LEMMA PhaseTake ==
  ASSUME IInv, IInv', NEW g \in Goroutines, TakeEvents(g)
  PROVE  (\E S \in SUBSET Events : ED!PickUp(S)) \/ UNCHANGED phaseBar
  <1>0. PICK s \in Sources : s = target[g]
    BY Zenon DEF IInv, Control, TakeEvents
  <1> DEFINE S == Values(batches[s])
  <1>1. /\ OnePlace /\ OnePlace' /\ UNCHANGED <<sent, runs>> /\ batches[s] \in Seq(Events)
        /\ work[g] = <<>> /\ work'[g] = batches[s]
        /\ \A h \in Goroutines \ {g} : work'[h] = work[h]
    <2>1. OnePlace /\ OnePlace' /\ UNCHANGED <<sent, runs>>
      BY Zenon DEF IInv, TakeEvents, chanVars
    <2>2. batches[s] \in Seq(Events) /\ work \in [Goroutines -> Seq(Events)]
      BY Zenon DEF IInv, TypeOK
    <2>3. work[g] = <<>>
      BY Zenon DEF IInv, Control, TakeEvents
    <2>4. work' = [work EXCEPT ![g] = batches[s]]
      BY <1>0, Zenon DEF TakeEvents
    <2> QED
      BY <2>1, <2>2, <2>3, <2>4, Zenon
  <1>2. S \subseteq Events /\ Values(<<>>) = {}
    BY <1>1, ValuesOfSeq, Zenon
  <1>3. \A e : Held(work', Goroutines, e) <=> Held(work, Goroutines, e) \/ e \in S
    <2>1. \A e : e \in Values(work'[g]) <=> e \in S
      BY <1>1, Zenon
    <2>2. \A e : e \notin Values(work[g])
      BY <1>1, <1>2, Zenon
    <2> HIDE DEF S
    <2> QED
      BY <1>1, <2>1, <2>2, Zenon DEF Held
  <1>4. \A e \in S : e \in sent /\ runs[e] = 0 /\ ~Held(work, Goroutines, e)
    BY <1>1, ZenonT(60) DEF OnePlace, Pending, Disjoint, Held
  <1> HIDE DEF S
  <1>5. \A e \in S : phaseBar[e] = "accepted" /\ phaseBar'[e] = "active"
    <2> SUFFICES ASSUME NEW e \in S PROVE phaseBar[e] = "accepted" /\ phaseBar'[e] = "active"
      BY Zenon
    <2>1. /\ phaseBar[e] = PhaseOf(e, sent, runs, work)
          /\ phaseBar'[e] = PhaseOf(e, sent', runs', work')
      BY <1>1, <1>2, PhaseBarIs, Zenon
    <2>2. PhaseOf(e, sent, runs, work) = "accepted"
      BY <1>4, SMTT(30) DEF PhaseOf
    <2>3. runs'[e] = 0 /\ Held(work', Goroutines, e)
      BY <1>1, <1>3, <1>4, Zenon
    <2>4. PhaseOf(e, sent', runs', work') = "active"
      BY <2>3, SMTT(30) DEF PhaseOf
    <2> QED
      BY <2>1, <2>2, <2>4, Zenon
  <1>6. \A e \in Events \ S : phaseBar'[e] = phaseBar[e]
    BY <1>1, <1>3, PhaseBarIs DEF PhaseOf
  <1>7. phaseBar' = [e \in Events |-> IF e \in S THEN "active" ELSE phaseBar[e]]
    BY <1>2, <1>5, <1>6, Zenon DEF phaseBar
  <1>8. CASE S = {}
    BY <1>6, <1>8, Zenon DEF phaseBar
  <1>9. CASE S # {}
    BY <1>2, <1>5, <1>7, <1>9, Zenon DEF ED!PickUp
  <1> QED
    BY <1>8, <1>9, Zenon

(* Processing is finishing. *)
LEMMA PhaseProcess ==
  ASSUME IInv, IInv', NEW g \in Goroutines, ProcessEvent(g)
  PROVE  \E e \in Events : ED!Finish(e)
  <1>1. /\ OnePlace /\ OnePlace' /\ work \in [Goroutines -> Seq(Events)] /\ work[g] # <<>>
        /\ UNCHANGED sent /\ runs \in [Events -> Nat] /\ work' = Shrink(work, g)
        /\ Apart(work, Goroutines)
    BY Zenon DEF IInv, TypeOK, Control, ProcessEvent, Rest, chanVars, Shrink, OnePlace
  <1>2. PICK e \in Events : e = Head(work[g]) /\ e \in Values(work[g])
    BY <1>1, ShrinkFamily, Zenon
  <1>3. Removed(work', work, Goroutines, e)
    BY <1>1, <1>2, ShrinkFamily, Zenon
  <1>4. runs' = [runs EXCEPT ![e] = @ + 1]
    BY <1>2, Zenon DEF ProcessEvent
  <1>5. runs[e] = 0 /\ Held(work, Goroutines, e)
    BY <1>1, <1>2, Zenon DEF OnePlace, Pending, Held
  <1>6. runs'[e] = 1 /\ \A x \in Events \ {e} : runs'[x] = runs[x]
    BY <1>1, <1>4, <1>5
  <1>7. phaseBar[e] = "active" /\ phaseBar'[e] = "done"
    <2>1. /\ phaseBar[e] = PhaseOf(e, sent, runs, work)
          /\ phaseBar'[e] = PhaseOf(e, sent', runs', work')
      BY <1>1, PhaseBarIs, Zenon
    <2>2. PhaseOf(e, sent, runs, work) = "active"
      BY <1>5, SMTT(30) DEF PhaseOf
    <2>3. PhaseOf(e, sent', runs', work') = "done"
      BY <1>6, Zenon DEF PhaseOf
    <2> QED
      BY <2>1, <2>2, <2>3, Zenon
  <1>8. \A x \in Events \ {e} : Held(work', Goroutines, x) <=> Held(work, Goroutines, x)
    BY <1>3, Zenon DEF Held, Removed
  <1>9. \A x \in Events \ {e} : phaseBar'[x] = phaseBar[x]
    BY <1>1, <1>6, <1>8, PhaseBarIs DEF PhaseOf
  <1> QED
    BY <1>7, <1>9, ZenonT(60) DEF ED!Finish, phaseBar

(* Every step is a step of EventDelivery or a stutter. *)
LEMMA PhaseNext == IInv /\ IInv' /\ [Next]_vars => [ED!Next]_phaseBar
  <1> SUFFICES ASSUME IInv, IInv', [Next]_vars PROVE ED!Next \/ UNCHANGED phaseBar
    BY Zenon
  <1> USE DEF chanVars, batchVars, sweepVars, goVars
  <1>1. CASE \E r \in Readers, e \in Events : Emit(r, e)
    BY <1>1, PhaseEmit, Zenon DEF ED!Next
  <1>2. CASE \E g \in Goroutines : TakeEvents(g)
    BY <1>2, PhaseTake, Zenon DEF ED!Next
  <1>3. CASE \E g \in Goroutines : ProcessEvent(g)
    BY <1>3, PhaseProcess, Zenon DEF ED!Next
  <1>4. CASE \E r \in Readers : AddEvent(r) \/ StartAdapter(r) \/ ReaderExit(r)
    BY <1>4, PhaseFrame, Zenon DEF AddEvent, StartAdapter, ReaderExit
  <1>5. CASE \E s \in Sources, f \in Flushers : SweepSpawn(s, f)
    BY <1>5, PhaseFrame, Zenon DEF SweepSpawn
  <1>6. CASE OtherStep
    <2>1. UNCHANGED <<sent, runs, work>>
      BY <1>6, Zenon
      DEF OtherStep, StopAdapter, Age, SweepSkip, Tick, ContextDone, SweepEnd, StopCancel,
          StopCancelBatch, StopSweep, StopReturn
    <2> QED
      BY <2>1, PhaseFrame, Zenon
  <1>7. CASE UNCHANGED vars
    BY <1>7, PhaseFrame, Zenon DEF vars
  <1> QED
    BY <1>1, <1>2, <1>3, <1>4, <1>5, <1>6, <1>7, Zenon DEF Next, OtherStep, Terminated

\* The batching of batch_processor.go implements the delivery its callers rely on:
\* each event accepted, picked up and processed once.
THEOREM Implements == Spec => ED!Spec
  BY InitInv, NextInv, PhaseInit, PhaseNext, PTL DEF Spec, ED!Spec

===============================================================================
