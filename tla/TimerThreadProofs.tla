-------------------------- MODULE TimerThreadProofs --------------------------
(***************************************************************************)
(* Proofs about TimerThread, for any events, jobs and tick times, and that *)
(* the scripts of ScriptTimers use it as it is specified.                  *)
(***************************************************************************)
EXTENDS TimerThread, FiniteSetTheorems, SequenceTheorems, TLAPS

(***************************************************************************)
(* Lists.                                                                  *)
(***************************************************************************)
\* What InsertAt of the community modules returns.
LEMMA InsertAtFacts ==
  ASSUME NEW S, NEW q \in Seq(S), NEW p \in 1..(Len(q) + 1), NEW e \in S
  PROVE  LET r == InsertAt(q, p, e) IN
         /\ r \in Seq(S) /\ Len(r) = Len(q) + 1
         /\ \A i \in 1..(Len(q) + 1) :
              r[i] = IF i < p THEN q[i] ELSE IF i = p THEN e ELSE q[i - 1]
<1> DEFINE a == SubSeq(q, 1, p - 1)
           b == SubSeq(q, p, Len(q))
<1>1. a \in Seq(S) /\ Len(a) = p - 1 /\ \A i \in 1..(p - 1) : a[i] = q[i]
  BY SubSeqProperties
<1>2. b \in Seq(S) /\ Len(b) = Len(q) - p + 1
      /\ \A i \in 1..(Len(q) - p + 1) : b[i] = q[p + i - 1]
  BY SubSeqProperties
<1>3. <<e>> \in Seq(S) /\ Len(<<e>>) = 1 /\ <<e>>[1] = e
  OBVIOUS
<1>4. /\ a \o <<e>> \in Seq(S) /\ Len(a \o <<e>>) = p
      /\ \A i \in 1..p : (a \o <<e>>)[i] = IF i < p THEN q[i] ELSE e
  BY <1>1, <1>3, ConcatProperties
<1>5. InsertAt(q, p, e) = (a \o <<e>>) \o b
  BY DEF InsertAt
<1> HIDE DEF a, b
<1> QED
  BY <1>2, <1>4, <1>5, ConcatProperties

\* What RemoveAt of the community modules returns.
LEMMA RemoveAtFacts ==
  ASSUME NEW S, NEW q \in Seq(S), NEW p \in 1..Len(q)
  PROVE  LET r == RemoveAt(q, p) IN
         /\ r \in Seq(S) /\ Len(r) = Len(q) - 1
         /\ \A i \in 1..(Len(q) - 1) : r[i] = IF i < p THEN q[i] ELSE q[i + 1]
<1> DEFINE a == SubSeq(q, 1, p - 1)
           b == SubSeq(q, p + 1, Len(q))
<1>1. a \in Seq(S) /\ Len(a) = p - 1 /\ \A i \in 1..(p - 1) : a[i] = q[i]
  BY SubSeqProperties
<1>2. b \in Seq(S) /\ Len(b) = Len(q) - p
      /\ \A i \in 1..(Len(q) - p) : b[i] = q[p + i]
  BY SubSeqProperties
<1>3. RemoveAt(q, p) = a \o b
  BY DEF RemoveAt
<1> HIDE DEF a, b
<1> QED
  BY <1>1, <1>2, <1>3, ConcatProperties

LEMMA TailFacts ==
  ASSUME NEW S, NEW q \in Seq(S), q # <<>>
  PROVE  /\ Len(q) \in Nat \ {0}
         /\ Tail(q) \in Seq(S) /\ Len(Tail(q)) = Len(q) - 1
         /\ \A i \in 1..(Len(q) - 1) : Tail(q)[i] = q[i + 1]
         /\ q[1] \in S
  OBVIOUS

\* The elements of a list, that it holds each once, that it is sorted.
Elements(q) == {q[i] : i \in 1..Len(q)}
Distinct(q) == \A i, k \in 1..Len(q) : q[i] = q[k] => i = k
SortedBy(q, f) == \A i, k \in 1..Len(q) : i < k => f[q[i]].due <= f[q[k]].due

Timings == [Events -> [job : TimedJobs, tick : BOOLEAN, due : Int]]

LEMMA InsertKeeps ==
  ASSUME NEW q \in Seq(Events), NEW p \in 1..(Len(q) + 1), NEW e \in Events,
         Distinct(q), e \notin Elements(q)
  PROVE  /\ Distinct(InsertAt(q, p, e))
         /\ Elements(InsertAt(q, p, e)) = Elements(q) \union {e}
         /\ InsertAt(q, p, e)[1] = IF p = 1 THEN e ELSE q[1]
         /\ InsertAt(q, p, e) # <<>>
<1> DEFINE r == InsertAt(q, p, e)
<1>1. /\ r \in Seq(Events) /\ Len(r) = Len(q) + 1 /\ Len(q) \in Nat
      /\ \A i \in 1..(Len(q) + 1) :
           r[i] = IF i < p THEN q[i] ELSE IF i = p THEN e ELSE q[i - 1]
  BY InsertAtFacts
<1> HIDE DEF r
<1> DEFINE Old(i) == IF i < p THEN i ELSE i - 1
<1>o. ASSUME NEW i \in 1..Len(r), i # p
      PROVE  Old(i) \in 1..Len(q) /\ r[i] = q[Old(i)] /\ r[i] # e
  <2>1. Old(i) \in 1..Len(q) /\ r[i] = q[Old(i)]
    BY <1>1, <1>o
  <2> QED
    BY <2>1 DEF Elements
<1>r. r[p] = e
  BY <1>1
<1>2. Distinct(r)
  <2> SUFFICES ASSUME NEW i \in 1..Len(r), NEW k \in 1..Len(r), r[i] = r[k]
               PROVE  i = k
    BY DEF Distinct
  <2>1. CASE i = p \/ k = p
    BY <1>o, <1>r, <2>1
  <2>2. CASE i # p /\ k # p
    <3>1. Old(i) = Old(k)
      BY <1>o, <2>2 DEF Distinct
    <3> QED
      BY <3>1, <2>2, <1>1
  <2> QED
    BY <2>1, <2>2
<1>3. Elements(r) \subseteq Elements(q) \union {e}
  BY <1>1 DEF Elements
<1>4. ASSUME NEW i \in 1..Len(q) PROVE q[i] \in Elements(r)
  <2>1. CASE i < p
    BY <1>1, <2>1 DEF Elements
  <2>2. CASE i >= p
    <3>1. i + 1 \in 1..Len(r) /\ r[i + 1] = q[i]
      BY <1>1, <2>2
    <3> QED
      BY <3>1 DEF Elements
  <2> QED
    BY <2>1, <2>2
<1>5. e \in Elements(r)
  BY <1>1 DEF Elements
<1>6. r[1] = (IF p = 1 THEN e ELSE q[1]) /\ r # <<>>
  BY <1>1
<1>7. Elements(r) = Elements(q) \union {e}
  BY <1>3, <1>4, <1>5 DEF Elements
<1> QED
  BY <1>2, <1>6, <1>7 DEF r

LEMMA RemoveKeeps ==
  ASSUME NEW q \in Seq(Events), NEW p \in 1..Len(q), Distinct(q)
  PROVE  /\ Distinct(RemoveAt(q, p))
         /\ Elements(RemoveAt(q, p)) = Elements(q) \ {q[p]}
         /\ p > 1 => RemoveAt(q, p)[1] = q[1]
<1> DEFINE r == RemoveAt(q, p)
<1>1. /\ r \in Seq(Events) /\ Len(r) = Len(q) - 1 /\ Len(q) \in Nat
      /\ \A i \in 1..(Len(q) - 1) : r[i] = IF i < p THEN q[i] ELSE q[i + 1]
  <2>1. /\ r \in Seq(Events) /\ Len(r) = Len(q) - 1
        /\ \A i \in 1..(Len(q) - 1) : r[i] = IF i < p THEN q[i] ELSE q[i + 1]
    BY RemoveAtFacts, Zenon
  <2>2. Len(q) \in Nat
    OBVIOUS
  <2> QED
    BY <2>1, <2>2
<1> HIDE DEF r
<1> DEFINE Old(i) == IF i < p THEN i ELSE i + 1
<1>o. ASSUME NEW i \in 1..Len(r) PROVE Old(i) \in 1..Len(q) /\ r[i] = q[Old(i)]
  BY <1>1
<1>2. Distinct(r)
  <2> SUFFICES ASSUME NEW i \in 1..Len(r), NEW k \in 1..Len(r), r[i] = r[k]
               PROVE  i = k
    BY DEF Distinct
  <2>1. Old(i) = Old(k)
    BY <1>o DEF Distinct
  <2> QED
    BY <2>1, <1>1
<1>3. Elements(r) \subseteq Elements(q) \ {q[p]}
  BY <1>1 DEF Elements, Distinct
<1>4. ASSUME NEW i \in 1..Len(q), i # p PROVE q[i] \in Elements(r)
  <2>1. CASE i < p
    BY <1>1, <2>1 DEF Elements
  <2>2. CASE i > p
    <3>1. i - 1 \in 1..Len(r) /\ r[i - 1] = q[i]
      BY <1>1, <2>2
    <3> QED
      BY <3>1 DEF Elements
  <2> QED
    BY <1>4, <2>1, <2>2
<1>5. Elements(r) = Elements(q) \ {q[p]}
  BY <1>3, <1>4 DEF Elements
<1>6. p > 1 => r[1] = q[1]
  BY <1>1
<1> QED
  BY <1>2, <1>5, <1>6 DEF r

LEMMA TailKeeps ==
  ASSUME NEW q \in Seq(Events), q # <<>>, Distinct(q)
  PROVE  /\ Distinct(Tail(q)) /\ Elements(Tail(q)) = Elements(q) \ {q[1]}
         /\ q[1] \in Elements(q)
<1> DEFINE r == Tail(q)
<1>1. /\ r \in Seq(Events) /\ Len(r) = Len(q) - 1 /\ Len(q) \in Nat \ {0}
      /\ \A i \in 1..(Len(q) - 1) : r[i] = q[i + 1]
  BY TailFacts
<1> HIDE DEF r
<1>2. Distinct(r)
  BY <1>1 DEF Distinct
<1>3. Elements(r) \subseteq Elements(q) \ {q[1]}
  BY <1>1 DEF Elements, Distinct
<1>4. ASSUME NEW i \in 1..Len(q), i # 1 PROVE q[i] \in Elements(r)
  <2>1. i - 1 \in 1..Len(r) /\ r[i - 1] = q[i]
    BY <1>1, <1>4
  <2> QED
    BY <2>1 DEF Elements
<1>5. Elements(r) = Elements(q) \ {q[1]}
  BY <1>3, <1>4 DEF Elements
<1>6. q[1] \in Elements(q)
  BY <1>1 DEF Elements
<1> QED
  BY <1>2, <1>5, <1>6 DEF r

\* An event put at its place keeps the list sorted.
LEMMA InsertSorted ==
  ASSUME NEW f \in Timings, NEW g \in Timings, NEW q \in Seq(Events),
         NEW p \in 1..(Len(q) + 1), NEW e \in Events,
         SortedBy(q, f), \A x \in Elements(q) : g[x].due = f[x].due,
         \A i \in 1..(p - 1) : f[q[i]].due <= g[e].due,
         p <= Len(q) => f[q[p]].due > g[e].due
  PROVE  SortedBy(InsertAt(q, p, e), g)
<1> DEFINE r == InsertAt(q, p, e)
           D(i) == f[q[i]].due
<1>1. /\ r \in Seq(Events) /\ Len(r) = Len(q) + 1 /\ Len(q) \in Nat
      /\ \A i \in 1..(Len(q) + 1) :
           r[i] = IF i < p THEN q[i] ELSE IF i = p THEN e ELSE q[i - 1]
  BY InsertAtFacts
<1> HIDE DEF r
<1>2. ASSUME NEW i \in 1..Len(q) PROVE g[q[i]].due = D(i) /\ D(i) \in Int
  <2>1. q[i] \in Elements(q) /\ q[i] \in Events
    BY <1>1 DEF Elements
  <2> QED
    BY <2>1 DEF Timings
<1>3. g[e].due \in Int
  BY DEF Timings
<1>4. \A i, k \in 1..Len(q) : i < k => D(i) <= D(k)
  BY DEF SortedBy
<1>5. \A i \in 1..(p - 1) : D(i) <= g[e].due
  OBVIOUS
<1>6. p <= Len(q) => D(p) > g[e].due
  OBVIOUS
<1> HIDE DEF D
<1>7. ASSUME NEW i \in p..Len(q) PROVE D(i) > g[e].due
  <2>1. CASE i = p
    BY <1>6, <2>1
  <2>2. CASE i # p
    <3>1. p \in 1..Len(q) /\ i \in 1..Len(q) /\ p < i
      BY <1>1, <2>2
    <3>2. D(p) <= D(i) /\ D(p) > g[e].due /\ D(p) \in Int /\ D(i) \in Int
      BY <3>1, <1>2, <1>4, <1>6
    <3> QED
      BY <3>2, <1>3
  <2> QED
    BY <2>1, <2>2
<1> DEFINE Old(i) == IF i < p THEN i ELSE i - 1
<1>8. ASSUME NEW i \in 1..Len(r), i # p
      PROVE  Old(i) \in 1..Len(q) /\ g[r[i]].due = D(Old(i)) /\ D(Old(i)) \in Int
  <2>1. Old(i) \in 1..Len(q) /\ r[i] = q[Old(i)]
    BY <1>1, <1>8
  <2> QED
    BY <1>2, <2>1
<1>9. g[r[p]].due = g[e].due
  BY <1>1
<1>10. ASSUME NEW i \in 1..Len(r), NEW k \in 1..Len(r), i < k
       PROVE  g[r[i]].due <= g[r[k]].due
  <2>1. CASE i = p
    <3>1. Old(k) \in p..Len(q) /\ k # p
      BY <1>1, <1>8, <1>10, <2>1
    <3>2. D(Old(k)) > g[e].due /\ g[r[k]].due = D(Old(k)) /\ D(Old(k)) \in Int
      BY <3>1, <1>7, <1>8
    <3> QED
      BY <3>2, <1>3, <1>9, <2>1
  <2>2. CASE k = p
    <3>1. Old(i) \in 1..(p - 1) /\ i # p
      BY <1>1, <1>8, <1>10, <2>2
    <3> QED
      BY <3>1, <1>5, <1>8, <1>9, <2>2
  <2>3. CASE i # p /\ k # p
    <3>1. Old(i) \in 1..Len(q) /\ Old(k) \in 1..Len(q) /\ Old(i) < Old(k)
      BY <1>1, <1>10, <2>3
    <3> QED
      BY <3>1, <1>4, <1>8, <2>3
  <2> QED
    BY <2>1, <2>2, <2>3
<1> QED
  BY <1>10 DEF SortedBy, r

\* So does a list that loses an event.
LEMMA RemoveSorted ==
  ASSUME NEW f \in Timings, NEW g \in Timings, NEW q \in Seq(Events),
         NEW p \in 1..Len(q), Distinct(q),
         SortedBy(q, f), \A x \in Elements(q) : x # q[p] => g[x].due = f[x].due
  PROVE  SortedBy(RemoveAt(q, p), g)
<1> DEFINE r == RemoveAt(q, p)
<1>1. /\ r \in Seq(Events) /\ Len(r) = Len(q) - 1 /\ Len(q) \in Nat
      /\ \A i \in 1..(Len(q) - 1) : r[i] = IF i < p THEN q[i] ELSE q[i + 1]
  <2>1. /\ r \in Seq(Events) /\ Len(r) = Len(q) - 1
        /\ \A i \in 1..(Len(q) - 1) : r[i] = IF i < p THEN q[i] ELSE q[i + 1]
    BY RemoveAtFacts, Zenon
  <2>2. Len(q) \in Nat
    OBVIOUS
  <2> QED
    BY <2>1, <2>2
<1> HIDE DEF r
<1>2. \A i \in 1..Len(q) : i # p => g[q[i]].due = f[q[i]].due
  BY DEF Elements, Distinct
<1>3. \A i, k \in 1..Len(q) : i < k => f[q[i]].due <= f[q[k]].due
  BY DEF SortedBy
<1> DEFINE Old(i) == IF i < p THEN i ELSE i + 1
<1>4. SortedBy(r, g)
  <2> SUFFICES ASSUME NEW i \in 1..Len(r), NEW k \in 1..Len(r), i < k
               PROVE  g[r[i]].due <= g[r[k]].due
    BY DEF SortedBy
  <2>1. /\ Old(i) \in 1..Len(q) /\ Old(k) \in 1..Len(q) /\ Old(i) < Old(k)
        /\ Old(i) # p /\ Old(k) # p
    BY <1>1
  <2>2. r[i] = q[Old(i)] /\ r[k] = q[Old(k)]
    BY <1>1
  <2> QED
    BY <2>1, <2>2, <1>2, <1>3
<1> QED
  BY <1>4 DEF r

LEMMA TailSorted ==
  ASSUME NEW f \in Timings, NEW g \in Timings, NEW q \in Seq(Events), q # <<>>,
         Distinct(q),
         SortedBy(q, f), \A x \in Elements(q) : x # q[1] => g[x].due = f[x].due
  PROVE  SortedBy(Tail(q), g)
<1> DEFINE r == Tail(q)
<1>1. /\ r \in Seq(Events) /\ Len(r) = Len(q) - 1 /\ Len(q) \in Nat \ {0}
      /\ \A i \in 1..(Len(q) - 1) : r[i] = q[i + 1]
  BY TailFacts
<1> HIDE DEF r
<1>2. \A i \in 1..Len(q) : i # 1 => g[q[i]].due = f[q[i]].due
  BY <1>1 DEF Elements, Distinct
<1>3. \A i, k \in 1..Len(q) : i < k => f[q[i]].due <= f[q[k]].due
  BY DEF SortedBy
<1>4. SortedBy(r, g)
  <2> SUFFICES ASSUME NEW i \in 1..Len(r), NEW k \in 1..Len(r), i < k
               PROVE  g[r[i]].due <= g[r[k]].due
    BY DEF SortedBy
  <2>1. /\ i + 1 \in 1..Len(q) /\ k + 1 \in 1..Len(q) /\ i + 1 < k + 1
        /\ i + 1 # 1 /\ k + 1 # 1 /\ r[i] = q[i + 1] /\ r[k] = q[k + 1]
    BY <1>1
  <2> QED
    BY <2>1, <1>2, <1>3
<1> QED
  BY <1>4 DEF r

(***************************************************************************)
(* The calls of tickFence() that are owed, for a set A of events.          *)
(***************************************************************************)
EventsOf(A, f, j) == {e \in A : f[e].job = j}
OwedFor(w, A, f) == \A j \in TimedJobs : w[j] = Cardinality(EventsOf(A, f, j))

LEMMA EventsOfFinite ==
  ASSUME NEW f \in Timings, NEW A \in SUBSET Events, NEW j \in TimedJobs
  PROVE  IsFiniteSet(EventsOf(A, f, j)) /\ Cardinality(EventsOf(A, f, j)) \in Nat
<1>1. EventsOf(A, f, j) \in SUBSET Events
  BY DEF EventsOf
<1>2. IsFiniteSet(EventsOf(A, f, j))
  BY <1>1, EventsAssumption, FS_Subset
<1> QED
  BY <1>2, FS_CardinalityType

LEMMA OwedSame ==
  ASSUME NEW f, NEW g, NEW A, NEW w, OwedFor(w, A, f),
         \A e \in A : g[e].job = f[e].job
  PROVE  OwedFor(w, A, g)
<1>1. ASSUME NEW j \in TimedJobs PROVE EventsOf(A, g, j) = EventsOf(A, f, j)
  BY DEF EventsOf
<1> QED
  BY <1>1 DEF OwedFor

LEMMA OwedOneMore ==
  ASSUME NEW f \in Timings, NEW g \in Timings, NEW A \in SUBSET Events,
         NEW w \in [TimedJobs -> Int], OwedFor(w, A, f),
         NEW e \in Events \ A, NEW j \in TimedJobs, g[e].job = j,
         \A x \in A : g[x].job = f[x].job
  PROVE  OwedFor([w EXCEPT ![j] = @ + 1], A \union {e}, g)
<1> SUFFICES ASSUME NEW k \in TimedJobs
             PROVE  [w EXCEPT ![j] = @ + 1][k] = Cardinality(EventsOf(A \union {e}, g, k))
  BY DEF OwedFor
<1>1. w[k] = Cardinality(EventsOf(A, f, k)) /\ IsFiniteSet(EventsOf(A, f, k))
  BY EventsOfFinite DEF OwedFor
<1>2. CASE k = j
  <2>1. EventsOf(A \union {e}, g, k) = EventsOf(A, f, k) \union {e}
    BY <1>2 DEF EventsOf
  <2>2. e \notin EventsOf(A, f, k)
    BY DEF EventsOf
  <2>3. Cardinality(EventsOf(A, f, k) \union {e}) = Cardinality(EventsOf(A, f, k)) + 1
    BY <1>1, <2>2, FS_AddElement
  <2> QED
    BY <1>1, <1>2, <2>1, <2>3
<1>3. CASE k # j
  <2>1. EventsOf(A \union {e}, g, k) = EventsOf(A, f, k)
    BY <1>3 DEF EventsOf
  <2> QED
    BY <1>1, <1>3, <2>1
<1> QED
  BY <1>2, <1>3

LEMMA OwedOneLess ==
  ASSUME NEW f \in Timings, NEW g \in Timings, NEW A \in SUBSET Events,
         NEW w \in [TimedJobs -> Int], OwedFor(w, A, f), NEW e \in A,
         \A x \in A \ {e} : g[x].job = f[x].job
  PROVE  OwedFor([w EXCEPT ![f[e].job] = @ - 1], A \ {e}, g)
<1> DEFINE j == f[e].job
<1>0. j \in TimedJobs
  BY DEF Timings
<1> SUFFICES ASSUME NEW k \in TimedJobs
             PROVE  [w EXCEPT ![j] = @ - 1][k] = Cardinality(EventsOf(A \ {e}, g, k))
  BY DEF OwedFor
<1>1. w[k] = Cardinality(EventsOf(A, f, k)) /\ IsFiniteSet(EventsOf(A, f, k))
  BY EventsOfFinite DEF OwedFor
<1>2. CASE k = j
  <2>1. EventsOf(A \ {e}, g, k) = EventsOf(A, f, k) \ {e}
    BY <1>2 DEF EventsOf
  <2>2. e \in EventsOf(A, f, k)
    BY <1>2 DEF EventsOf
  <2>3. Cardinality(EventsOf(A, f, k) \ {e}) = Cardinality(EventsOf(A, f, k)) - 1
    BY <1>1, <2>2, FS_RemoveElement
  <2> QED
    BY <1>0, <1>1, <1>2, <2>1, <2>3
<1>3. CASE k # j
  <2>1. EventsOf(A \ {e}, g, k) = EventsOf(A, f, k)
    BY <1>3 DEF EventsOf
  <2> QED
    BY <1>0, <1>1, <1>3, <2>1
<1> QED
  BY <1>2, <1>3

(***************************************************************************)
(* The invariant of the timer thread, which is inductive, and its parts in *)
(* the words of the lemmas above.                                          *)
(***************************************************************************)
TimerInv == TimerTypeOK /\ OwedExact /\ EventOnce /\ ListSorted /\ NoOversleep

LEMMA InWords ==
  ASSUME TimerInv
  PROVE  /\ pendingEvents \in Seq(Events) /\ timing \in Timings
         /\ owed \in [TimedJobs -> Int]
         /\ Pending = Elements(pendingEvents) /\ Pending \in SUBSET Events
         /\ Alive \in SUBSET Events /\ OwedFor(owed, Alive, timing)
         /\ Distinct(pendingEvents) /\ SortedBy(pendingEvents, timing)
<1>1. pendingEvents \in Seq(Events) /\ timing \in Timings /\ owed \in [TimedJobs -> Int]
  BY DEF TimerInv, TimerTypeOK, Timings
<1>2. Pending = Elements(pendingEvents) /\ Pending \in SUBSET Events
  BY <1>1 DEF Pending, Elements
<1>3. Alive \in SUBSET Events
  BY <1>2 DEF Alive, InFlight, TimerInv, TimerTypeOK
<1>4. OwedFor(owed, Alive, timing)
  BY DEF TimerInv, OwedExact, OwedFor, EventsOf
<1>5. Distinct(pendingEvents) /\ SortedBy(pendingEvents, timing)
  BY DEF TimerInv, EventOnce, ListSorted, Distinct, SortedBy
<1> QED
  BY <1>1, <1>2, <1>3, <1>4, <1>5

\* The other way, for the next state.
LEMMA FromWords ==
  ASSUME TimerTypeOK', NoOversleep', OwedFor(owed, Alive, timing)',
         Distinct(pendingEvents)', SortedBy(pendingEvents, timing)',
         (InFlight \intersect Pending = {})'
  PROVE  TimerInv'
BY DEF TimerInv, OwedExact, EventOnce, ListSorted, OwedFor, EventsOf, Distinct, SortedBy

\* A step that leaves the list and the events alone.
LEMMA ListUntouched ==
  ASSUME TimerInv, UNCHANGED listVars, InFlight' = InFlight, TimerTypeOK', NoOversleep'
  PROVE  TimerInv'
BY DEF TimerInv, listVars, OwedExact, EventOnce, ListSorted, Alive, Pending

(***************************************************************************)
(* The steps of the other threads.                                         *)
(***************************************************************************)
LEMMA PendingType ==
  ASSUME TimerInv, pendingEvents # <<>>
  PROVE  First \in Pending /\ First \in Events /\ timing[First] \in [job : TimedJobs, tick : BOOLEAN, due : Int]
<1>1. First \in Elements(pendingEvents)
  BY InWords, TailKeeps DEF First
<1> QED
  BY <1>1, InWords DEF Timings

LEMMA NewTimingType ==
  ASSUME NEW j \in TimedJobs, NEW b \in BOOLEAN
  PROVE  NewTiming(j, b) \in [job : TimedJobs, tick : BOOLEAN, due : Int]
BY DEF NewTiming

LEMMA SomeJobType == SomeJob \in TimedJobs
BY JobsAssumption DEF SomeJob

LEMMA AddEventKeeps ==
  ASSUME TimerInv, NEW j \in TimedJobs, NEW b \in BOOLEAN, AddEvent(j, b)
  PROVE  TimerInv'
<1> DEFINE e == CHOOSE x \in Events \ Alive : TRUE
<1>1. e \in Events /\ e \notin Alive
  BY DEF AddEvent
<1>2. PICK p \in 1..(Len(pendingEvents) + 1) :
         /\ IsPlace(pendingEvents, 0, p)
         /\ pendingEvents' = InsertAt(pendingEvents, p, e)
         /\ SignalIf(p = 1)
  BY DEF AddEvent
<1>3. /\ timing' = [timing EXCEPT ![e] = NewTiming(j, b)]
      /\ owed' = [owed EXCEPT ![j] = @ + 1]
      /\ UNCHANGED <<stopMe, worker, running, until, stopped, owner>>
  BY DEF AddEvent, workerVars
<1> HIDE DEF e
<1>4. e \notin Elements(pendingEvents)
  BY <1>1, InWords DEF Alive
<1>5. /\ Distinct(pendingEvents')
      /\ Elements(pendingEvents') = Elements(pendingEvents) \union {e}
      /\ pendingEvents'[1] = IF p = 1 THEN e ELSE pendingEvents[1]
      /\ pendingEvents' \in Seq(Events)
  BY <1>1, <1>2, <1>4, InWords, InsertKeeps, InsertAtFacts
<1>6. timing' \in Timings /\ timing'[e] = NewTiming(j, b)
      /\ \A x \in Events : x # e => timing'[x] = timing[x]
  BY <1>1, <1>3, InWords, NewTimingType DEF Timings
<1>7. TimerTypeOK'
  <2>1. owed' \in [TimedJobs -> Int]
    BY <1>3, InWords
  <2>2. newEvent' \in BOOLEAN
    BY <1>2 DEF SignalIf, Signal, TimerInv, TimerTypeOK
  <2> QED
    BY <1>3, <1>5, <1>6, <2>1, <2>2 DEF TimerInv, TimerTypeOK, Timings
<1>8. SortedBy(pendingEvents, timing)'
  <2>1. timing'[e].due = 0
    BY <1>6 DEF NewTiming
  <2>2. \A x \in Elements(pendingEvents) : timing'[x].due = timing[x].due
    BY <1>4, <1>6, InWords
  <2>3. \A i \in 1..(p - 1) : timing[pendingEvents[i]].due <= timing'[e].due
    BY <1>2, <2>1 DEF IsPlace
  <2>4. p <= Len(pendingEvents) => timing[pendingEvents[p]].due > timing'[e].due
    BY <1>2, <2>1 DEF IsPlace
  <2> QED
    BY <1>1, <1>2, <1>6, <2>2, <2>3, <2>4, InWords, InsertSorted
<1>9. InFlight' = InFlight /\ Pending' = Pending \union {e}
  <2>1. Pending' = Elements(pendingEvents')
    BY DEF Pending, Elements
  <2> QED
    BY <1>3, <1>5, <2>1, InWords DEF InFlight
<1>10. OwedFor(owed, Alive, timing)'
  <2>1. Alive' = Alive \union {e}
    BY <1>9 DEF Alive
  <2>2. timing'[e].job = j /\ \A x \in Alive : timing'[x].job = timing[x].job
    BY <1>1, <1>6, InWords DEF NewTiming
  <2> QED
    BY <1>1, <1>3, <1>6, <2>1, <2>2, InWords, OwedOneMore
<1>11. (InFlight \intersect Pending = {})'
  BY <1>1, <1>9 DEF Alive, TimerInv, EventOnce
<1>12. NoOversleep'
  <2>1. CASE p = 1
    BY <1>2, <1>3, <2>1 DEF SignalIf, Signal, NoOversleep
  <2>2. CASE p # 1
    <3>1. pendingEvents # <<>> /\ First' = First /\ newEvent' = newEvent
      BY <1>2, <1>5, <2>2, InWords DEF First, SignalIf
    <3>2. timing'[First'] = timing[First]
      BY <1>4, <1>6, <3>1, PendingType, InWords
    <3> QED
      BY <1>3, <3>1, <3>2 DEF NoOversleep, TimerInv
  <2> QED
    BY <2>1, <2>2
<1> QED
  BY <1>5, <1>7, <1>8, <1>10, <1>11, <1>12, FromWords

LEMMA RemoveJobKeeps ==
  ASSUME TimerInv, NEW j \in TimedJobs, removeJob(j)
  PROVE  TimerInv'
<1>1. UNCHANGED <<stopMe, worker, running, until, stopped, owner>>
  BY DEF removeJob, workerVars
<1>2. CASE UNCHANGED <<listVars, newEvent>>
  <2>1. UNCHANGED <<pendingEvents, timing, owed, newEvent>>
    BY <1>2 DEF listVars
  <2>2. InFlight' = InFlight
    BY <1>1 DEF InFlight
  <2>3. TimerTypeOK'
    BY <1>1, <2>1 DEF TimerInv, TimerTypeOK
  <2>4. NoOversleep'
    BY <1>1, <2>1 DEF TimerInv, NoOversleep, First
  <2> QED
    BY <1>2, <2>2, <2>3, <2>4, ListUntouched
<1>3. CASE \E i \in 1..Len(pendingEvents) : RemoveFirstOf(j, i)
  <2>1. PICK i \in 1..Len(pendingEvents) : RemoveFirstOf(j, i)
    BY <1>3
  <2> DEFINE e == pendingEvents[i]
  <2>2. /\ owed' = [owed EXCEPT ![timing[e].job] = @ - 1]
        /\ timing' = [timing EXCEPT ![e] = NewTiming(SomeJob, FALSE)]
        /\ pendingEvents' = RemoveAt(pendingEvents, i)
        /\ SignalIf(i = 1)
    BY <2>1 DEF RemoveFirstOf, FenceAndDelete
  <2>3. e \in Elements(pendingEvents) /\ e \in Events
    BY InWords DEF Elements
  <2>4. /\ Distinct(pendingEvents')
        /\ Elements(pendingEvents') = Elements(pendingEvents) \ {e}
        /\ i > 1 => pendingEvents'[1] = pendingEvents[1]
        /\ pendingEvents' \in Seq(Events)
    <3>1. /\ Distinct(RemoveAt(pendingEvents, i))
          /\ Elements(RemoveAt(pendingEvents, i)) = Elements(pendingEvents) \ {pendingEvents[i]}
          /\ i > 1 => RemoveAt(pendingEvents, i)[1] = pendingEvents[1]
      BY InWords, RemoveKeeps
    <3>2. RemoveAt(pendingEvents, i) \in Seq(Events)
      BY InWords, RemoveAtFacts
    <3> QED
      BY <2>2, <3>1, <3>2
  <2>5. timing' \in Timings /\ \A x \in Events : x # e => timing'[x] = timing[x]
    BY <2>2, <2>3, InWords, NewTimingType, SomeJobType DEF Timings
  <2> HIDE DEF e
  <2>6. TimerTypeOK'
    <3>1. owed' \in [TimedJobs -> Int]
      <4>1. timing[e].job \in TimedJobs
        BY <2>3, InWords DEF Timings
      <4> QED
        BY <2>2, <4>1, InWords
    <3>2. newEvent' \in BOOLEAN
      BY <2>2 DEF SignalIf, Signal, TimerInv, TimerTypeOK
    <3> QED
      BY <1>1, <2>4, <2>5, <3>1, <3>2 DEF TimerInv, TimerTypeOK, Timings
  <2>7. SortedBy(pendingEvents, timing)'
    <3>1. \A x \in Elements(pendingEvents) : x # pendingEvents[i] => timing'[x].due = timing[x].due
      BY <2>5, InWords DEF e
    <3>2. SortedBy(RemoveAt(pendingEvents, i), timing')
      BY <2>5, <3>1, InWords, RemoveSorted
    <3> QED
      BY <2>2, <3>2
  <2>8. InFlight' = InFlight /\ Pending' = Pending \ {e}
    <3>1. Pending' = Elements(pendingEvents')
      BY DEF Pending, Elements
    <3> QED
      BY <1>1, <2>4, <3>1, InWords DEF InFlight
  <2>9. OwedFor(owed, Alive, timing)'
    <3>1. Alive' = Alive \ {e} /\ e \in Alive
      BY <2>3, <2>8, InWords DEF Alive, TimerInv, EventOnce
    <3>2. \A x \in Alive \ {e} : timing'[x].job = timing[x].job
      BY <2>5, InWords
    <3> QED
      BY <2>2, <2>5, <3>1, <3>2, InWords, OwedOneLess
  <2>10. (InFlight \intersect Pending = {})'
    BY <2>8 DEF TimerInv, EventOnce
  <2>11. NoOversleep'
    <3>1. CASE i = 1
      BY <1>1, <2>2, <3>1 DEF SignalIf, Signal, NoOversleep
    <3>2. CASE i # 1
      <4>1. i > 1 /\ 1 \in 1..Len(pendingEvents) /\ pendingEvents # <<>>
        BY <3>2, InWords
      <4>2. First' = First /\ newEvent' = newEvent
        BY <2>2, <2>4, <3>2, <4>1 DEF First, SignalIf
      <4>3. First # e
        BY <4>1, InWords DEF First, e, Distinct
      <4>4. timing'[First'] = timing[First]
        BY <2>5, <4>1, <4>2, <4>3, PendingType
      <4> QED
        BY <1>1, <4>1, <4>2, <4>4 DEF NoOversleep, TimerInv
    <3> QED
      BY <3>1, <3>2
  <2> QED
    BY <2>4, <2>6, <2>7, <2>9, <2>10, <2>11, FromWords
<1> QED
  BY <1>2, <1>3 DEF removeJob

(***************************************************************************)
(* The steps of the worker.                                                *)
(***************************************************************************)
LEMMA SleepKeeps ==
  ASSUME TimerInv, Sleep
  PROVE  TimerInv'
<1>1. /\ worker = "top" /\ worker' \in {"empty", "timed"}
      /\ UNCHANGED <<pendingEvents, timing, owed, stopMe, running, newEvent, stopped, owner>>
  BY DEF Sleep, listVars
<1>2. TimerTypeOK'
  <2>1. until' \in Int
    BY PendingType DEF Sleep, TimerInv, TimerTypeOK
  <2> QED
    BY <1>1, <2>1 DEF TimerInv, TimerTypeOK
<1>3. NoOversleep'
  <2>1. pendingEvents # <<>> => worker' = "timed" /\ until' = timing[First].due /\ until' \in Int
    BY PendingType DEF Sleep
  <2> QED
    BY <1>1, <2>1 DEF NoOversleep, First
<1>4. InFlight' = InFlight
  BY <1>1 DEF InFlight
<1> QED
  BY <1>1, <1>2, <1>3, <1>4, ListUntouched DEF listVars

LEMMA WakeToWaitKeeps ==
  ASSUME TimerInv, WakeEmpty \/ WakeToStop \/ WakeForNothing
  PROVE  TimerInv'
<1>1. /\ worker \in {"empty", "timed"} /\ worker' \in {"top", "exited"}
      /\ UNCHANGED <<pendingEvents, timing, owed, stopMe, running, stopped, owner>>
      /\ newEvent' = FALSE /\ until' \in {until, 0}
  BY DEF WakeEmpty, WakeToStop, WakeForNothing, TimedWaitEnds, listVars
<1>2. TimerTypeOK'
  <2>1. TimerTypeOK /\ owner \notin {"joined", "deleted"}
    BY <1>1 DEF TimerInv, TimerTypeOK
  <2>2. until' \in Int
    BY <1>1, <2>1 DEF TimerTypeOK
  <2>n. newEvent' \in BOOLEAN
    BY <1>1
  <2>3. worker' # "ticking" /\ worker' \in {"top", "empty", "timed", "ticking", "exited"}
    BY <1>1
  <2> QED
    BY <1>1, <2>1, <2>2, <2>3, <2>n DEF TimerTypeOK
<1>3. NoOversleep'
  BY <1>1 DEF NoOversleep
<1>4. InFlight' = InFlight
  BY <1>1 DEF InFlight
<1> QED
  BY <1>1, <1>2, <1>3, <1>4, ListUntouched DEF listVars

LEMMA WakeToDropKeeps ==
  ASSUME TimerInv, WakeToDrop
  PROVE  TimerInv'
<1>1. /\ worker = "timed" /\ worker' = "top" /\ newEvent' = FALSE /\ until' = 0
      /\ pendingEvents # <<>> /\ pendingEvents' = Tail(pendingEvents)
      /\ owed' = [owed EXCEPT ![timing[First].job] = @ - 1]
      /\ timing' = [timing EXCEPT ![First] = NewTiming(SomeJob, FALSE)]
      /\ UNCHANGED <<stopMe, running, stopped, owner>>
  BY DEF WakeToDrop, TimedWaitEnds, Due, FenceAndDelete
<1>2. /\ Distinct(pendingEvents') /\ Elements(pendingEvents') = Elements(pendingEvents) \ {First}
      /\ pendingEvents' \in Seq(Events) /\ First \in Elements(pendingEvents)
  BY <1>1, InWords, TailKeeps, TailFacts DEF First
<1>3. First \in Events /\ timing[First].job \in TimedJobs
  BY <1>1, PendingType
<1>4. timing' \in Timings /\ \A x \in Events : x # First => timing'[x] = timing[x]
  BY <1>1, <1>3, InWords, NewTimingType, SomeJobType DEF Timings
<1>5. owed' \in [TimedJobs -> Int]
  BY <1>1, <1>3, InWords
<1>6. TimerTypeOK'
  <2>1. TimerTypeOK /\ owner \notin {"joined", "deleted"}
    BY <1>1 DEF TimerInv, TimerTypeOK
  <2>e. newEvent' = FALSE /\ until' = 0
    BY DEF WakeToDrop
  <2>2. newEvent' \in BOOLEAN /\ until' \in Int
    <3>1. newEvent' \in BOOLEAN
      BY <2>e
    <3>2. until' \in Int
      BY <2>e
    <3> QED
      BY <3>1, <3>2
  <2>3. worker' = "top" /\ UNCHANGED <<stopMe, running, stopped, owner>>
    BY <1>1
  <2> QED
    BY <1>2, <1>4, <1>5, <2>1, <2>2, <2>3 DEF TimerTypeOK, Timings
<1>7. SortedBy(pendingEvents, timing)'
  <2>1. \A x \in Elements(pendingEvents) : x # pendingEvents[1] => timing'[x].due = timing[x].due
    BY <1>4, InWords DEF First
  <2>2. SortedBy(Tail(pendingEvents), timing')
    BY <1>1, <1>4, <2>1, InWords, TailSorted
  <2> QED
    BY <1>1, <2>2
<1>8. InFlight = {} /\ InFlight' = {} /\ Pending' = Pending \ {First}
  <2>1. Pending' = Elements(pendingEvents')
    BY DEF Pending, Elements
  <2> QED
    BY <1>1, <1>2, <2>1, InWords DEF InFlight
<1>9. OwedFor(owed, Alive, timing)'
  <2>1. Alive' = Alive \ {First} /\ First \in Alive
    BY <1>2, <1>8, InWords DEF Alive
  <2>2. \A x \in Alive \ {First} : timing'[x].job = timing[x].job
    BY <1>4, InWords
  <2> QED
    BY <1>1, <1>4, <2>1, <2>2, InWords, OwedOneLess
<1>10. (InFlight \intersect Pending = {})' /\ NoOversleep'
  BY <1>1, <1>8 DEF NoOversleep
<1> QED
  BY <1>2, <1>6, <1>7, <1>9, <1>10, FromWords

\* A tick event that is due goes back to its place, later in the list.
LEMMA RequeueKeeps ==
  ASSUME TimerInv, pendingEvents # <<>>, Requeue(First)
  PROVE  /\ pendingEvents' \in Seq(Events) /\ timing' \in Timings
         /\ Distinct(pendingEvents') /\ SortedBy(pendingEvents', timing')
         /\ Elements(pendingEvents') = Elements(pendingEvents)
         /\ \A e \in Events : timing'[e].job = timing[e].job
<1> DEFINE e == First
           q == Tail(pendingEvents)
           d == NextDue(timing[e].due, tickTime[timing[e].job])
<1>1. e \in Events /\ timing[e].job \in TimedJobs /\ timing[e].due \in Int
  BY PendingType
<1>2. d \in Int
  BY <1>1, TickTimeAssumption DEF NextDue
<1>3. timing' = [timing EXCEPT ![e].due = d]
  BY DEF Requeue
<1>4. PICK p \in 1..Len(pendingEvents) : IsPlace(q, d, p) /\ pendingEvents' = InsertAt(q, p, e)
  BY DEF Requeue
<1>5. /\ q \in Seq(Events) /\ Distinct(q) /\ Elements(q) = Elements(pendingEvents) \ {e}
      /\ e \in Elements(pendingEvents) /\ Len(pendingEvents) = Len(q) + 1
  BY InWords, TailKeeps, TailFacts DEF First
<1>6. SortedBy(q, timing)
  BY InWords, TailSorted
<1> HIDE DEF e, q, d
<1>7. /\ timing' \in Timings /\ timing'[e].due = d
      /\ \A x \in Events : timing'[x].job = timing[x].job
      /\ \A x \in Events : x # e => timing'[x].due = timing[x].due
  BY <1>1, <1>2, <1>3, InWords DEF Timings
<1>8. /\ Distinct(InsertAt(q, p, e)) /\ Elements(InsertAt(q, p, e)) = Elements(pendingEvents)
      /\ InsertAt(q, p, e) \in Seq(Events)
  <2>1. p \in 1..(Len(q) + 1) /\ e \notin Elements(q)
    BY <1>4, <1>5
  <2>2. Distinct(InsertAt(q, p, e)) /\ Elements(InsertAt(q, p, e)) = Elements(q) \union {e}
    BY <1>1, <1>5, <2>1, InsertKeeps
  <2>3. InsertAt(q, p, e) \in Seq(Events)
    BY <1>1, <1>5, <2>1, InsertAtFacts
  <2> QED
    BY <1>5, <2>2, <2>3
<1>9. SortedBy(InsertAt(q, p, e), timing')
  <2>1. \A x \in Elements(q) : timing'[x].due = timing[x].due
    BY <1>5, <1>7, InWords
  <2>2. /\ \A i \in 1..(p - 1) : timing[q[i]].due <= timing'[e].due
        /\ p <= Len(q) => timing[q[p]].due > timing'[e].due
    BY <1>4, <1>7 DEF IsPlace
  <2> QED
    BY <1>1, <1>4, <1>5, <1>6, <1>7, <2>1, <2>2, InWords, InsertSorted
<1> QED
  BY <1>4, <1>7, <1>8, <1>9

LEMMA WakeToTickKeeps ==
  ASSUME TimerInv, WakeToTick
  PROVE  TimerInv'
<1>1. /\ worker = "timed" /\ worker' = "ticking" /\ newEvent' = FALSE /\ until' = 0
      /\ pendingEvents # <<>>
      /\ running' = [event |-> IF timing[First].tick THEN NoEvent ELSE First,
                     job |-> timing[First].job, tick |-> timing[First].tick]
      /\ UNCHANGED <<owed, stopMe, stopped, owner>>
  BY DEF WakeToTick, TimedWaitEnds, Due
<1>2. First \in Events /\ timing[First].job \in TimedJobs /\ timing[First].tick \in BOOLEAN
      /\ First \in Pending
  BY <1>1, PendingType
<1>3. ASSUME pendingEvents' \in Seq(Events), timing' \in Timings
      PROVE  TimerTypeOK'
  <2>1. TimerTypeOK /\ owner \notin {"joined", "deleted"}
    BY <1>1 DEF TimerInv, TimerTypeOK
  <2>2. running' \in [event : Events \union {NoEvent}, job : TimedJobs, tick : BOOLEAN]
    BY <1>1, <1>2
  <2>3. ~running'.tick => running'.event \in Events
    BY <1>1, <1>2
  <2>e. newEvent' = FALSE /\ until' = 0
    BY DEF WakeToTick
  <2>4. newEvent' \in BOOLEAN /\ until' \in Int
    <3>1. newEvent' \in BOOLEAN
      BY <2>e
    <3>2. until' \in Int
      BY <2>e
    <3> QED
      BY <3>1, <3>2
  <2>5. worker' = "ticking" /\ UNCHANGED <<owed, stopMe, stopped, owner>>
    BY <1>1
  <2> QED
    BY <1>3, <2>1, <2>2, <2>3, <2>4, <2>5 DEF TimerTypeOK, Timings
<1>4. NoOversleep'
  BY <1>1 DEF NoOversleep
<1>5. InFlight = {} /\ Alive = Pending
  BY <1>1 DEF InFlight, Alive
<1>6. CASE timing[First].tick
  <2>1. /\ pendingEvents' \in Seq(Events) /\ timing' \in Timings
        /\ Distinct(pendingEvents') /\ SortedBy(pendingEvents', timing')
        /\ Elements(pendingEvents') = Elements(pendingEvents)
        /\ \A e \in Events : timing'[e].job = timing[e].job
    BY <1>1, <1>6, RequeueKeeps DEF WakeToTick
  <2>2. InFlight' = {} /\ Alive' = Alive
    BY <1>1, <1>5, <1>6, <2>1 DEF InFlight, Alive, Pending, Elements
  <2>3. OwedFor(owed, Alive, timing)'
    BY <1>1, <2>1, <2>2, InWords, OwedSame
  <2> QED
    BY <1>3, <1>4, <2>1, <2>2, <2>3, FromWords
<1>7. CASE ~timing[First].tick
  <2>1. pendingEvents' = Tail(pendingEvents) /\ timing' = timing
    BY <1>7 DEF WakeToTick
  <2>2. /\ Distinct(pendingEvents') /\ Elements(pendingEvents') = Elements(pendingEvents) \ {First}
        /\ pendingEvents' \in Seq(Events)
    BY <1>1, <2>1, InWords, TailKeeps, TailFacts DEF First
  <2>3. SortedBy(pendingEvents, timing)'
    BY <1>1, <2>1, InWords, TailSorted
  <2>4. InFlight' = {First} /\ Pending' = Pending \ {First}
    <3>1. Pending' = Elements(pendingEvents')
      BY DEF Pending, Elements
    <3>2. worker' = "ticking" /\ ~running'.tick /\ running'.event = First
      BY <1>1, <1>7
    <3> QED
      BY <3>1, <3>2, <2>2, InWords DEF InFlight
  <2>5. Alive' = Alive
    BY <1>2, <1>5, <2>4 DEF Alive
  <2>6. OwedFor(owed, Alive, timing)'
    BY <1>1, <2>1, <2>5, InWords
  <2>7. timing' \in Timings
    BY <2>1, InWords
  <2> QED
    BY <1>3, <1>4, <2>2, <2>3, <2>4, <2>6, <2>7, FromWords
<1> QED
  BY <1>6, <1>7

LEMMA TickReturnsKeeps ==
  ASSUME TimerInv, TickReturns
  PROVE  TimerInv'
<1>1. /\ worker = "ticking" /\ worker' = "top" /\ running' = Idle
      /\ UNCHANGED <<pendingEvents, stopMe, until, newEvent, stopped, owner>>
  BY DEF TickReturns
<1>2. NoOversleep' /\ InFlight' = {} /\ Pending' = Pending
  BY <1>1 DEF NoOversleep, InFlight, Pending
<1>3. ASSUME owed' \in [TimedJobs -> Int], timing' \in Timings
      PROVE  TimerTypeOK'
  <2>1. TimerTypeOK /\ owner \notin {"joined", "deleted"}
    BY <1>1 DEF TimerInv, TimerTypeOK
  <2>2. running' \in [event : Events \union {NoEvent}, job : TimedJobs, tick : BOOLEAN]
    BY <1>1, SomeJobType DEF Idle
  <2> QED
    BY <1>1, <1>3, <2>1, <2>2 DEF TimerTypeOK, Timings
<1>4. CASE running.tick
  <2>1. owed' = owed /\ timing' = timing
    BY <1>4 DEF TickReturns
  <2>2. Alive' = Alive
    BY <1>1, <1>2, <1>4 DEF Alive, InFlight
  <2>3. OwedFor(owed, Alive, timing)'
    BY <2>1, <2>2, InWords
  <2> QED
    BY <1>1, <1>2, <1>3, <2>1, <2>3, InWords, FromWords
<1>5. CASE ~running.tick
  <2> DEFINE e == running.event
  <2>1. InFlight = {e} /\ e \in Alive /\ Alive' = Alive \ {e} /\ e \notin Pending
    BY <1>1, <1>2, <1>5 DEF InFlight, Alive, TimerInv, EventOnce
  <2>2. /\ owed' = [owed EXCEPT ![timing[e].job] = @ - 1]
        /\ timing' = [timing EXCEPT ![e] = NewTiming(SomeJob, FALSE)]
    BY <1>5 DEF TickReturns, FenceAndDelete
  <2> HIDE DEF e
  <2>3. e \in Events /\ timing[e].job \in TimedJobs
    BY <2>1, InWords DEF Timings
  <2>4. owed' \in [TimedJobs -> Int]
    BY <2>2, <2>3, InWords
  <2>5. timing' \in Timings /\ \A x \in Events : x # e => timing'[x] = timing[x]
    BY <2>2, <2>3, InWords, NewTimingType, SomeJobType DEF Timings
  <2>6. OwedFor(owed, Alive, timing)'
    <3>1. \A x \in Alive \ {e} : timing'[x].job = timing[x].job
      BY <2>5, InWords
    <3> QED
      BY <2>1, <2>2, <2>5, <3>1, InWords, OwedOneLess
  <2>7. SortedBy(pendingEvents, timing)'
    <3>1. \A i \in 1..Len(pendingEvents) : timing'[pendingEvents[i]] = timing[pendingEvents[i]]
      BY <2>1, <2>5, InWords DEF Elements
    <3> QED
      BY <1>1, <3>1, InWords DEF SortedBy
  <2> QED
    BY <1>1, <1>2, <1>3, <2>4, <2>5, <2>6, <2>7, InWords, FromWords
<1> QED
  BY <1>4, <1>5

(***************************************************************************)
(* The clock and the owner.                                                *)
(***************************************************************************)
LEMMA EarlierFacts ==
  ASSUME NEW a \in Int, NEW b \in Int
  PROVE  Earlier(a) \in Int /\ (a <= b => Earlier(a) <= Earlier(b))
BY TickTimeAssumption DEF Earlier

LEMMA AdvanceKeeps ==
  ASSUME TimerInv, Advance
  PROVE  TimerInv'
<1>1. /\ timing' = [e \in Events |-> IF e \in Pending
                                       THEN [timing[e] EXCEPT !.due = Earlier(@)]
                                       ELSE timing[e]]
      /\ until' = IF worker = "timed" THEN Earlier(until) ELSE until
      /\ UNCHANGED <<pendingEvents, owed, stopMe, worker, running, newEvent, stopped, owner>>
  BY DEF Advance
<1>2. ASSUME NEW e \in Events
      PROVE  /\ timing'[e] \in [job : TimedJobs, tick : BOOLEAN, due : Int]
             /\ timing'[e].job = timing[e].job
             /\ e \in Pending => timing'[e].due = Earlier(timing[e].due)
  <2>1. timing[e] \in [job : TimedJobs, tick : BOOLEAN, due : Int] /\ Earlier(timing[e].due) \in Int
    BY InWords, EarlierFacts DEF Timings
  <2> QED
    BY <1>1, <2>1
<1>3. timing' \in Timings
  BY <1>1, <1>2 DEF Timings
<1>4. until' \in Int
  BY <1>1, EarlierFacts DEF TimerInv, TimerTypeOK
<1>5. TimerTypeOK'
  BY <1>1, <1>3, <1>4 DEF TimerInv, TimerTypeOK, Timings
<1>6. SortedBy(pendingEvents, timing)'
  <2> SUFFICES ASSUME NEW i \in 1..Len(pendingEvents), NEW k \in 1..Len(pendingEvents), i < k
               PROVE  timing'[pendingEvents[i]].due <= timing'[pendingEvents[k]].due
    BY <1>1 DEF SortedBy
  <2>1. pendingEvents[i] \in Pending /\ pendingEvents[k] \in Pending
    BY DEF Pending
  <2>2. timing[pendingEvents[i]].due <= timing[pendingEvents[k]].due
        /\ timing[pendingEvents[i]].due \in Int /\ timing[pendingEvents[k]].due \in Int
    BY <2>1, InWords DEF SortedBy, Timings
  <2> QED
    BY <1>2, <2>1, <2>2, InWords, EarlierFacts
<1>7. NoOversleep'
  <2>1. CASE pendingEvents = <<>> \/ worker # "timed"
    BY <1>1, <2>1 DEF NoOversleep, TimerInv
  <2>2. CASE pendingEvents # <<>> /\ worker = "timed"
    <3>1. First' = First /\ First \in Pending /\ First \in Events /\ timing[First].due \in Int
      BY <1>1, <2>2, PendingType DEF First
    <3>2. until' = Earlier(until) /\ timing'[First'].due = Earlier(timing[First].due)
      BY <1>1, <1>2, <2>2, <3>1
    <3>3. until \in Int
      BY DEF TimerInv, TimerTypeOK
    <3> QED
      BY <1>1, <3>1, <3>2, <3>3, EarlierFacts DEF NoOversleep, TimerInv
  <2> QED
    BY <2>1, <2>2
<1>8. Alive' = Alive /\ (InFlight \intersect Pending = {})'
  BY <1>1 DEF Alive, InFlight, Pending, TimerInv, EventOnce
<1>9. OwedFor(owed, Alive, timing)'
  BY <1>1, <1>2, <1>8, InWords, OwedSame
<1> QED
  BY <1>1, <1>5, <1>6, <1>7, <1>8, <1>9, InWords, FromWords

LEMMA DestroyKeeps ==
  ASSUME TimerInv, Destroy
  PROVE  TimerInv'
<1>1. /\ pendingEvents' = <<>> /\ owner = "joined" /\ owner' = "deleted"
      /\ owed' = [j \in TimedJobs |-> owed[j] - Cardinality({e \in Pending : timing[e].job = j})]
      /\ timing' = [e \in Events |-> NewTiming(SomeJob, FALSE)]
      /\ UNCHANGED <<stopMe, worker, running, until, newEvent, stopped>>
  BY DEF Destroy, workerVars
<1>2. worker = "exited" /\ InFlight = {} /\ Alive = Pending
  BY <1>1 DEF TimerInv, TimerTypeOK, InFlight, Alive
<1>3. owed' = [j \in TimedJobs |-> 0]
  <2>1. ASSUME NEW j \in TimedJobs PROVE owed[j] - Cardinality({e \in Pending : timing[e].job = j}) = 0
    <3>1. owed[j] = Cardinality({e \in Pending : timing[e].job = j}) /\ owed[j] \in Int
      BY <1>2, InWords DEF TimerInv, OwedExact
    <3> QED
      BY <3>1
  <2> QED
    BY <1>1, <2>1
<1>4. timing' \in Timings
  BY <1>1, NewTimingType, SomeJobType DEF Timings
<1>5. TimerTypeOK'
  <2>1. pendingEvents' \in Seq(Events) /\ owed' \in [TimedJobs -> Int]
    BY <1>1, <1>3
  <2> QED
    BY <1>1, <1>2, <1>4, <2>1 DEF TimerInv, TimerTypeOK, Timings
<1>6. NoOversleep' /\ Pending' = {} /\ Alive' = {}
  BY <1>1, <1>2 DEF NoOversleep, Pending, Alive, InFlight
<1>7. OwedFor(owed, Alive, timing)'
  <2>1. ASSUME NEW j \in TimedJobs PROVE EventsOf({}, timing', j) = {}
    BY DEF EventsOf
  <2> QED
    BY <1>3, <1>6, <2>1, FS_EmptySet DEF OwedFor
<1>8. Distinct(pendingEvents)' /\ SortedBy(pendingEvents, timing)'
  BY <1>1 DEF Distinct, SortedBy
<1> QED
  BY <1>5, <1>6, <1>7, <1>8, FromWords

LEMMA FlagsKeep ==
  ASSUME TimerInv,
         \/ \E j \in TimedJobs, b \in BOOLEAN : SetStopMe(j, b)
         \/ SetStopped \/ Join \/ SignalStop("using") \/ SignalStop("joining")
  PROVE  TimerInv'
<1>1. /\ UNCHANGED <<pendingEvents, timing, owed, worker, running, until>>
      /\ newEvent' = newEvent \/ (newEvent' = TRUE /\ worker \in {"empty", "timed"})
      /\ newEvent' \in BOOLEAN /\ stopMe' \in [TimedJobs -> BOOLEAN] /\ stopped' \in BOOLEAN
      /\ owner' \in {"using", "joining", "joined", "deleted"}
      /\ owner' \in {"joined", "deleted"} => worker = "exited"
  BY DEF SetStopMe, SetStopped, Join, SignalStop, Signal, listVars, workerVars, TimerInv, TimerTypeOK
<1>2. TimerTypeOK'
  BY <1>1 DEF TimerInv, TimerTypeOK
<1>3. NoOversleep'
  BY <1>1 DEF TimerInv, NoOversleep, First
<1>4. InFlight' = InFlight
  BY <1>1 DEF InFlight
<1> QED
  BY <1>1, <1>2, <1>3, <1>4, ListUntouched DEF listVars

(***************************************************************************)
(* The theorems.                                                           *)
(***************************************************************************)
LEMMA TimerInitInv == TimerInit => TimerInv
<1> SUFFICES ASSUME TimerInit PROVE TimerInv
  OBVIOUS
<1>1. TimerTypeOK
  <2>1. running \in [event : Events \union {NoEvent}, job : TimedJobs, tick : BOOLEAN]
    BY SomeJobType DEF TimerInit, Idle
  <2>2. timing \in [Events -> [job : TimedJobs, tick : BOOLEAN, due : Int]]
    BY NewTimingType, SomeJobType DEF TimerInit
  <2>3. newEvent \in BOOLEAN /\ stopped \in BOOLEAN
    BY DEF TimerInit
  <2>4. /\ pendingEvents \in Seq(Events) /\ owed \in [TimedJobs -> Int]
        /\ stopMe \in [TimedJobs -> BOOLEAN] /\ worker = "top" /\ until \in Int
        /\ owner = "using"
    BY DEF TimerInit
  <2> QED
    BY <2>1, <2>2, <2>3, <2>4 DEF TimerTypeOK
<1>2. Pending = {} /\ InFlight = {} /\ Alive = {}
  BY DEF TimerInit, Pending, InFlight, Alive
<1>3. OwedExact
  <2>1. ASSUME NEW j \in TimedJobs PROVE {e \in Alive : timing[e].job = j} = {}
    BY <1>2
  <2> QED
    BY <2>1, FS_EmptySet DEF OwedExact, TimerInit
<1> QED
  BY <1>1, <1>2, <1>3 DEF TimerInit, TimerInv, EventOnce, ListSorted, NoOversleep

LEMMA TimerStepInv == TimerInv /\ [TimerNext]_timerVars => TimerInv'
<1> SUFFICES ASSUME TimerInv, [TimerNext]_timerVars PROVE TimerInv'
  OBVIOUS
<1>1. CASE Worker
  BY <1>1, SleepKeeps, WakeToWaitKeeps, WakeToDropKeeps, WakeToTickKeeps DEF Worker
<1>2. CASE TickReturns
  BY <1>2, TickReturnsKeeps
<1>3. CASE Advance
  BY <1>3, AdvanceKeeps
<1>4. CASE Owner
  BY <1>4, FlagsKeep, DestroyKeeps DEF Owner
<1>5. CASE Clients
  <2> PICK j \in TimedJobs : addTick(j) \/ addWait(j) \/ removeJob(j)
                               \/ \E b \in BOOLEAN : SetStopMe(j, b)
    BY <1>5 DEF Clients
  <2> QED
    BY AddEventKeeps, RemoveJobKeeps, FlagsKeep DEF addTick, addWait
<1>6. CASE UNCHANGED timerVars
  <2>1. UNCHANGED listVars /\ UNCHANGED <<stopMe, worker, running, until, newEvent, stopped, owner>>
    BY <1>6 DEF timerVars, workerVars
  <2>2. TimerTypeOK' /\ NoOversleep' /\ InFlight' = InFlight
    BY <2>1 DEF listVars, TimerInv, TimerTypeOK, NoOversleep, First, InFlight
  <2> QED
    BY <2>1, <2>2, ListUntouched
<1> QED
  BY <1>1, <1>2, <1>3, <1>4, <1>5, <1>6 DEF TimerNext

\* The list of the timer thread is what it should be, whatever its clients
\* do: the variables have their types, tickFence() is owed once for each
\* event, an event is in one place, the list is sorted by wake up time, and
\* the worker never sleeps past the first of them (timer.cpp).
THEOREM TimerTypeCorrect == TimerSpec => []TimerTypeOK
<1>1. TimerInv => TimerTypeOK
  BY DEF TimerInv
<1> QED
  BY <1>1, TimerInitInv, TimerStepInv, PTL DEF TimerSpec

\* Each addTick and addWait is answered by one tickFence.
THEOREM TimerOwedExact == TimerSpec => []OwedExact
<1>1. TimerInv => OwedExact
  BY DEF TimerInv
<1> QED
  BY <1>1, TimerInitInv, TimerStepInv, PTL DEF TimerSpec

\* No event is deleted twice, or used after it is deleted.
THEOREM TimerEventOnce == TimerSpec => []EventOnce
<1>1. TimerInv => EventOnce
  BY DEF TimerInv
<1> QED
  BY <1>1, TimerInitInv, TimerStepInv, PTL DEF TimerSpec

\* The event at the head of the list is the next one due.
THEOREM TimerListSorted == TimerSpec => []ListSorted
<1>1. TimerInv => ListSorted
  BY DEF TimerInv
<1> QED
  BY <1>1, TimerInitInv, TimerStepInv, PTL DEF TimerSpec

\* The worker is woken for every change of the head of the list.
THEOREM TimerNoOversleep == TimerSpec => []NoOversleep
<1>1. TimerInv => NoOversleep
  BY DEF TimerInv
<1> QED
  BY <1>1, TimerInitInv, TimerStepInv, PTL DEF TimerSpec
=============================================================================
