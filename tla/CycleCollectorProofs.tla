------------------------ MODULE CycleCollectorProofs -------------------------
(***************************************************************************)
(* Proofs about CycleCollector, for any objects, any number of variables   *)
(* and any references between them: the list of candidates stays one       *)
(* chain, and the reference counts are exact however releases nest, as     *)
(* long as a search is right about what it gives to the collection, which  *)
(* it need not be when it has judged an object too early.                  *)
(***************************************************************************)
EXTENDS CycleCollector, FiniteSetTheorems, TLAPS

(***************************************************************************)
(* The inductive invariant.                                                *)
(***************************************************************************)
Ops    == {"release", "collect", "add", "addStatic"}
Frames == [op : Ops, obj : Objects]
Heaps  ==
    [live : [Objects -> BOOLEAN], marked : [Objects -> BOOLEAN], deleted : [Objects -> BOOLEAN],
     dying : [Objects -> BOOLEAN], constant : [Objects -> BOOLEAN],
     ref : [Objects -> Int], stored : [Objects -> Int], static : [Objects -> Int],
     member : [Objects -> [1 .. Slots -> Maybe]],
     next : [Objects -> Maybe], prev : [Objects -> Maybe], first : Maybe, last : Maybe,
     calls : Seq(Frames)]
Phases == {"idle", "handle", "release"}
Types ==
    /\ heap \in Heaps /\ held \in [Objects -> Nat] /\ statics \in [Statics -> Maybe]
    /\ gc \in [phase : Phases, next : Maybe, collected : BOOLEAN, due : SUBSET Objects]

\* The candidates from x on, along gcNext.
NextClosed(h, T) == \A p \in T : h.next[p] \in T \cup {NoObject}
Ahead(h, x) == {p \in Objects : \A T \in SUBSET Objects : x \in T /\ NextClosed(h, T) => p \in T}
Connected(h) == h.first # NoObject => ChainOf(h) \subseteq Ahead(h, h.first)

\* Scripts run while no collection does, and wait for their calls.
AddOps == {"add", "addStatic"}
CallsFit ==
    /\ gc.phase = "idle" => gc.next = NoObject
    /\ \A i \in DOMAIN heap.calls :
         /\ heap.calls[i].op \in AddOps => gc.phase = "idle" /\ i = Len(heap.calls)
         /\ heap.calls[i].op = "collect" => gc.phase = "handle"

\* What holds whatever the searches answer with.
ListInv == Types /\ ListLinked /\ Connected(heap) /\ CallsFit

\* The calls an object is in.
Within(q, op, o) == \E i \in DOMAIN q : q[i] = [op |-> op, obj |-> o]
In(op, o)  == Within(heap.calls, op, o)
Adding(o)  == In("add", o) \/ In("addStatic", o)
One(b)     == IF b THEN 1 ELSE 0
Refs(o)    == Stored(o) + held[o]
Unused(o)  == MemberRefs(o) = {} /\ StaticRefs(o) = {} /\ held[o] = 0

\* An object is in use and its counts are exact, or free, or its last reference
\* has gone and its variables follow, or a collection has it.
Plain(o) == ~heap.constant[o] /\ ~heap.deleted[o]
Good(o) ==
    /\ heap.live[o] /\ ~heap.dying[o] /\ Plain(o)
    /\ heap.stored[o] = Stored(o) - One(Adding(o))
    /\ heap.static[o] = Cardinality(StaticRefs(o)) - One(In("addStatic", o))
    /\ heap.ref[o] = Refs(o) + One(Listed(heap, o))
Dead(o) ==
    /\ ~heap.live[o] /\ ~heap.dying[o] /\ Plain(o) /\ ~Listed(heap, o)
    /\ Unused(o) /\ Filled(o) = {}
Dying(o) ==
    /\ heap.live[o] /\ heap.dying[o] /\ Plain(o) /\ ~Listed(heap, o)
    /\ Unused(o) /\ heap.ref[o] = 1 /\ In("release", o)
Condemned(o) ==
    /\ heap.live[o] /\ ~heap.dying[o] /\ heap.constant[o] /\ heap.deleted[o]
    /\ held[o] = 0 /\ StaticRefs(o) = {}
    /\ \A p \in Objects, s \in 1 .. Slots : heap.member[p][s] = o => In("collect", p)
    /\ In("collect", o) \/ (Listed(heap, o) /\ heap.marked[o] /\ Filled(o) = {})
    /\ In("collect", o) => ~Listed(heap, o)

\* Who is in a call is in that state, and in one call.
Unique(q) == \A i, k \in DOMAIN q : q[i] = q[k] => i = k
CallsOwn ==
    /\ Unique(heap.calls)
    /\ \A o \in Objects :
         /\ In("release", o) => heap.dying[o]
         /\ In("collect", o) => heap.constant[o]
         /\ In("add", o) => \E p \in Objects, s \in 1 .. Slots : held[p] > 0 /\ heap.member[p][s] = o
         /\ In("addStatic", o) => StaticRefs(o) # {}

\* A collection releases what it has condemned before it ends.
CollectionOwns ==
    \A o \in Objects : heap.constant[o] =>
        /\ gc.phase # "idle"
        /\ gc.phase = "release" => gc.next # NoObject /\ o \in Ahead(heap, gc.next)

Account(o) == Good(o) \/ Dead(o) \/ Dying(o) \/ Condemned(o)
CountInv == ListInv /\ CallsOwn /\ CollectionOwns /\ \A o \in Objects : Account(o)

(***************************************************************************)
(* The list of candidates.                                                 *)
(***************************************************************************)
\* The fields that are not the list's.
Counts(a, h) ==
    /\ a.live = h.live /\ a.deleted = h.deleted /\ a.dying = h.dying /\ a.constant = h.constant
    /\ a.ref = h.ref /\ a.stored = h.stored /\ a.static = h.static /\ a.member = h.member
    /\ a.calls = h.calls

LEMMA AddFields ==
  ASSUME NEW h \in Heaps, NEW o \in Objects, ~Listed(h, o), h.first # NoObject, h.last # NoObject,
         NEW a, a = addObjectToGarbageCollector(h, o)
  PROVE  /\ a \in Heaps /\ Counts(a, h) /\ a.marked = h.marked
         /\ a.next = [h.next EXCEPT ![h.last] = o] /\ a.prev = [h.prev EXCEPT ![o] = h.last]
         /\ a.first = h.first /\ a.last = o
<1>1. a = [h EXCEPT !.next[h.last] = o, !.prev[o] = h.last, !.last = o]
  BY DEF addObjectToGarbageCollector
<1>2. h.last \in Objects /\ o \in Maybe /\ h.last \in Maybe
  BY DEF Heaps, Maybe
<1>3. a.next = [h.next EXCEPT ![h.last] = o] /\ a.prev = [h.prev EXCEPT ![o] = h.last]
  BY <1>1, <1>2 DEF Heaps
<1>4. Counts(a, h) /\ a.marked = h.marked /\ a.first = h.first /\ a.last = o
  BY <1>1, <1>2 DEF Heaps, Counts
<1>5. [h.next EXCEPT ![h.last] = o] \in [Objects -> Maybe] /\ [h.prev EXCEPT ![o] = h.last] \in [Objects -> Maybe]
  BY <1>2 DEF Heaps
<1>6. a \in Heaps
  BY <1>1, <1>2, <1>5 DEF Heaps
<1> QED
  BY <1>3, <1>4, <1>6

LEMMA AddFirstFields ==
  ASSUME NEW h \in Heaps, NEW o \in Objects, ~Listed(h, o), h.first = NoObject,
         NEW a, a = addObjectToGarbageCollector(h, o)
  PROVE  /\ a \in Heaps /\ Counts(a, h) /\ a.marked = h.marked
         /\ a.next = h.next /\ a.prev = h.prev /\ a.first = o /\ a.last = o
<1>1. a = [h EXCEPT !.first = o, !.last = o] /\ o \in Maybe
  BY DEF addObjectToGarbageCollector, Maybe
<1> QED
  BY <1>1 DEF Heaps, Counts

LEMMA AddedChain ==
  ASSUME NEW h \in Heaps, NEW o \in Objects, Linked(h), NEW a, a = addObjectToGarbageCollector(h, o)
  PROVE  a \in Heaps /\ Counts(a, h) /\ a.marked = h.marked /\ Linked(a) /\ ChainOf(a) = ChainOf(h) \cup {o}
<1>1. CASE Listed(h, o)
  BY <1>1 DEF addObjectToGarbageCollector, Counts, ChainOf
<1>2. CASE ~Listed(h, o) /\ h.first = NoObject
  <2>1. ChainOf(h) = {} /\ NoObject \notin Objects
    BY <1>2, ObjectsAssumption DEF Linked, ChainOf
  <2>2. \A p \in Objects : h.next[p] = NoObject /\ h.prev[p] = NoObject
    BY <2>1 DEF ChainOf, Listed
  <2>3. /\ a \in Heaps /\ Counts(a, h) /\ a.marked = h.marked
        /\ a.next = h.next /\ a.prev = h.prev /\ a.first = o /\ a.last = o
    BY <1>2, AddFirstFields
  <2>4. ChainOf(a) = {o}
    BY <2>1, <2>2, <2>3 DEF ChainOf, Listed
  <2> QED
    BY <2>1, <2>2, <2>3, <2>4 DEF Linked
<1>3. CASE ~Listed(h, o) /\ h.first # NoObject
  <2>1. h.last # NoObject /\ h.last \in Objects /\ NoObject \notin Objects /\ h.first \in Objects
    <3>1. h.first \in ChainOf(h)
      BY <1>3 DEF ChainOf, Listed, Heaps, Maybe
    <3> QED
      BY <3>1, ObjectsAssumption DEF Linked, ChainOf
  <2>2. /\ a \in Heaps /\ Counts(a, h) /\ a.marked = h.marked
        /\ a.next = [h.next EXCEPT ![h.last] = o] /\ a.prev = [h.prev EXCEPT ![o] = h.last]
        /\ a.first = h.first /\ a.last = o
    BY <1>3, <2>1, AddFields
  <2>3. h.next \in [Objects -> Maybe] /\ h.prev \in [Objects -> Maybe]
    BY DEF Heaps
  <2>4. h.last \in ChainOf(h) /\ h.next[h.last] = NoObject /\ h.first \in ChainOf(h)
    BY <2>1 DEF ChainOf, Listed, Linked
  <2>5. o \notin ChainOf(h) /\ h.next[o] = NoObject /\ h.prev[o] = NoObject /\ h.first # o
    BY <1>3 DEF ChainOf, Listed
  <2>6. ChainOf(a) = ChainOf(h) \cup {o}
    BY <2>1, <2>2, <2>3, <2>4, <2>5 DEF ChainOf, Listed
  <2>7. \A p \in ChainOf(a) :
          /\ a.prev[p] = NoObject <=> a.first = p
          /\ a.next[p] = NoObject <=> a.last = p
          /\ a.next[p] # NoObject => a.prev[a.next[p]] = p
          /\ a.prev[p] # NoObject => a.next[a.prev[p]] = p
    <3> SUFFICES ASSUME NEW p \in ChainOf(a)
                 PROVE  /\ a.prev[p] = NoObject <=> a.first = p
                        /\ a.next[p] = NoObject <=> a.last = p
                        /\ a.next[p] # NoObject => a.prev[a.next[p]] = p
                        /\ a.prev[p] # NoObject => a.next[a.prev[p]] = p
      OBVIOUS
    <3>1. CASE p = o
      BY <3>1, <2>1, <2>2, <2>3, <2>4, <2>5
    <3>2. CASE p \in ChainOf(h) /\ p # o
      <4>1. /\ p \in Objects
            /\ h.prev[p] = NoObject <=> h.first = p
            /\ h.next[p] = NoObject <=> h.last = p
            /\ h.next[p] # NoObject => h.prev[h.next[p]] = p
            /\ h.prev[p] # NoObject => h.next[h.prev[p]] = p
        BY <3>2 DEF Linked, ChainOf
      <4>2. h.next[p] # o /\ h.prev[p] # o /\ h.next[p] \in Maybe /\ h.prev[p] \in Maybe
        BY <4>1, <2>1, <2>3, <2>5
      <4>3. a.prev[p] = h.prev[p] /\ (p # h.last => a.next[p] = h.next[p]) /\ a.next[h.last] = o /\ a.prev[o] = h.last
        BY <2>1, <2>2, <2>3, <3>2, <4>1
      <4>4. a.next[p] # NoObject => a.prev[a.next[p]] = p
        BY <4>1, <4>2, <4>3, <2>1, <2>2, <2>3 DEF Maybe
      <4>5. a.prev[p] # NoObject => a.next[a.prev[p]] = p
        BY <4>1, <4>2, <4>3, <2>1, <2>2, <2>3, <2>4, <3>2 DEF Maybe
      <4> QED
        BY <4>1, <4>2, <4>3, <4>4, <4>5, <2>1, <2>2, <3>2
    <3> QED
      BY <3>1, <3>2, <2>6
  <2> QED
    BY <2>1, <2>2, <2>4, <2>6, <2>7 DEF Linked
<1> QED
  BY <1>1, <1>2, <1>3

LEMMA RemoveFields ==
  ASSUME NEW h \in Heaps, NEW o \in Objects, NEW a, a = removeObjectFromGarbageCollector(h, o)
  PROVE  /\ a \in Heaps /\ Counts(a, h) /\ a.marked = h.marked
         /\ a.next = [x \in Objects |-> IF x = o THEN NoObject
                                        ELSE IF x = h.prev[o] THEN h.next[o] ELSE h.next[x]]
         /\ a.prev = [x \in Objects |-> IF x = o THEN NoObject
                                        ELSE IF x = h.next[o] THEN h.prev[o] ELSE h.prev[x]]
         /\ a.first = (IF h.prev[o] = NoObject THEN h.next[o] ELSE h.first)
         /\ a.last = (IF h.next[o] = NoObject THEN h.prev[o] ELSE h.last)
<1> DEFINE n == h.next[o]
           p == h.prev[o]
           u == Unlink(h, o)
<1>1. n \in Maybe /\ p \in Maybe /\ NoObject \notin Objects /\ NoObject \in Maybe /\ o \in Maybe
  BY ObjectsAssumption DEF Heaps, Maybe
<1>2. (n # NoObject => n \in Objects) /\ (p # NoObject => p \in Objects)
  BY <1>1 DEF Maybe
<1>3. /\ u \in Heaps /\ Counts(u, h) /\ u.marked = h.marked
      /\ \A x \in Objects : x # o => u.next[x] = IF x = p THEN n ELSE h.next[x]
      /\ \A x \in Objects : x # o => u.prev[x] = IF x = n THEN p ELSE h.prev[x]
      /\ u.first = (IF p = NoObject THEN n ELSE h.first)
      /\ u.last = (IF n = NoObject THEN p ELSE h.last)
  <2>1. CASE p # NoObject /\ n # NoObject
    <3>1. u = [[h EXCEPT !.next[p] = n] EXCEPT !.prev[n] = p]
      BY <2>1 DEF Unlink
    <3>2. u.next = [h.next EXCEPT ![p] = n] /\ u.prev = [h.prev EXCEPT ![n] = p] /\ u.first = h.first /\ u.last = h.last
          /\ Counts(u, h) /\ u.marked = h.marked
      BY <3>1, <2>1, <1>2 DEF Heaps, Counts
    <3>3. [h.next EXCEPT ![p] = n] \in [Objects -> Maybe] /\ [h.prev EXCEPT ![n] = p] \in [Objects -> Maybe]
      BY <1>1, <1>2, <2>1 DEF Heaps
    <3>4. u \in Heaps
      BY <3>1, <3>3 DEF Heaps
    <3> QED
      BY <3>2, <3>4, <2>1, <1>1, <1>2 DEF Heaps
  <2>2. CASE p # NoObject /\ n = NoObject
    <3>1. u = [[h EXCEPT !.next[p] = n] EXCEPT !.last = p, !.next[p] = NoObject]
      BY <2>2 DEF Unlink
    <3>2. u.next = [[h.next EXCEPT ![p] = n] EXCEPT ![p] = NoObject] /\ u.prev = h.prev /\ u.first = h.first /\ u.last = p
          /\ Counts(u, h) /\ u.marked = h.marked
      BY <3>1, <2>2, <1>2 DEF Heaps, Counts
    <3>3. [[h.next EXCEPT ![p] = n] EXCEPT ![p] = NoObject] \in [Objects -> Maybe]
      BY <1>1, <1>2, <2>2 DEF Heaps
    <3>4. u \in Heaps
      BY <3>1, <3>3, <1>1 DEF Heaps
    <3> QED
      BY <3>2, <3>4, <2>2, <1>1, <1>2 DEF Heaps
  <2>3. CASE p = NoObject /\ n # NoObject
    <3>1. u = [[h EXCEPT !.first = n, !.prev[n] = NoObject] EXCEPT !.prev[n] = p]
      BY <2>3 DEF Unlink
    <3>2. u.prev = [[h.prev EXCEPT ![n] = NoObject] EXCEPT ![n] = p] /\ u.next = h.next /\ u.first = n /\ u.last = h.last
          /\ Counts(u, h) /\ u.marked = h.marked
      BY <3>1, <2>3, <1>2 DEF Heaps, Counts
    <3>3. [[h.prev EXCEPT ![n] = NoObject] EXCEPT ![n] = p] \in [Objects -> Maybe]
      BY <1>1, <1>2, <2>3 DEF Heaps
    <3>4. u \in Heaps
      BY <3>1, <3>3, <1>1 DEF Heaps
    <3> QED
      BY <3>2, <3>4, <2>3, <1>1, <1>2 DEF Heaps
  <2>4. CASE p = NoObject /\ n = NoObject
    <3>1. u = [[h EXCEPT !.first = NoObject] EXCEPT !.last = NoObject]
      BY <2>4 DEF Unlink
    <3>2. u.next = h.next /\ u.prev = h.prev /\ u.first = NoObject /\ u.last = NoObject
          /\ Counts(u, h) /\ u.marked = h.marked
      BY <3>1 DEF Heaps, Counts
    <3>3. u \in Heaps
      BY <3>1, <1>1 DEF Heaps
    <3> QED
      BY <3>2, <3>3, <2>4, <1>1, <1>2 DEF Heaps
  <2> QED
    BY <2>1, <2>2, <2>3, <2>4
<1> HIDE DEF u, n, p
<1>4. a = [u EXCEPT !.prev[o] = NoObject, !.next[o] = NoObject]
  BY DEF removeObjectFromGarbageCollector, u
<1>5. /\ a.prev = [u.prev EXCEPT ![o] = NoObject] /\ a.next = [u.next EXCEPT ![o] = NoObject]
      /\ a.first = u.first /\ a.last = u.last /\ Counts(a, u) /\ a.marked = u.marked
  BY <1>3, <1>4 DEF Heaps, Counts
<1>6. [u.prev EXCEPT ![o] = NoObject] \in [Objects -> Maybe] /\ [u.next EXCEPT ![o] = NoObject] \in [Objects -> Maybe]
  BY <1>1, <1>3 DEF Heaps
<1>7. a \in Heaps
  BY <1>3, <1>4, <1>6 DEF Heaps
<1>8. Counts(a, h)
  BY <1>3, <1>5 DEF Counts
<1>9. a.next = [x \in Objects |-> IF x = o THEN NoObject ELSE IF x = p THEN n ELSE h.next[x]]
  <2>1. u.next \in [Objects -> Maybe]
    BY <1>3 DEF Heaps
  <2>2. a.next = [z \in Objects |-> IF z = o THEN NoObject ELSE u.next[z]]
    BY <1>5, <2>1
  <2>3. \A z \in Objects : (IF z = o THEN NoObject ELSE u.next[z])
                          = (IF z = o THEN NoObject ELSE IF z = p THEN n ELSE h.next[z])
    BY <1>3
  <2> QED
    BY <2>2, <2>3
<1>10. a.prev = [x \in Objects |-> IF x = o THEN NoObject ELSE IF x = n THEN p ELSE h.prev[x]]
  <2>1. u.prev \in [Objects -> Maybe]
    BY <1>3 DEF Heaps
  <2>2. a.prev = [z \in Objects |-> IF z = o THEN NoObject ELSE u.prev[z]]
    BY <1>5, <2>1
  <2>3. \A z \in Objects : (IF z = o THEN NoObject ELSE u.prev[z])
                          = (IF z = o THEN NoObject ELSE IF z = n THEN p ELSE h.prev[z])
    BY <1>3
  <2> QED
    BY <2>2, <2>3
<1>11. a.first = u.first /\ a.last = u.last /\ a.marked = h.marked
  BY <1>3, <1>5
<1> QED
  <2>1. a.first = (IF p = NoObject THEN n ELSE h.first) /\ a.last = (IF n = NoObject THEN p ELSE h.last)
    BY <1>3, <1>11
  <2> QED
    BY <1>7, <1>8, <1>9, <1>10, <1>11, <2>1 DEF n, p

LEMMA RemovedChain ==
  ASSUME NEW h \in Heaps, NEW o \in ChainOf(h), Linked(h), Connected(h),
         NEW a, a = removeObjectFromGarbageCollector(h, o)
  PROVE  a \in Heaps /\ Counts(a, h) /\ a.marked = h.marked /\ Linked(a) /\ ChainOf(a) = ChainOf(h) \ {o}
<1> DEFINE n == h.next[o]
           p == h.prev[o]
<1>1. o \in Objects /\ NoObject \notin Objects /\ n \in Maybe /\ p \in Maybe
  BY ObjectsAssumption DEF ChainOf, Heaps
<1>2. /\ a \in Heaps /\ Counts(a, h) /\ a.marked = h.marked
      /\ a.next = [x \in Objects |-> IF x = o THEN NoObject ELSE IF x = p THEN n ELSE h.next[x]]
      /\ a.prev = [x \in Objects |-> IF x = o THEN NoObject ELSE IF x = n THEN p ELSE h.prev[x]]
      /\ a.first = (IF p = NoObject THEN n ELSE h.first)
      /\ a.last = (IF n = NoObject THEN p ELSE h.last)
  BY <1>1, RemoveFields
<1> HIDE DEF n, p
<1>3. \A x \in ChainOf(h) :
        /\ x \in Objects /\ h.next[x] \in Maybe /\ h.prev[x] \in Maybe
        /\ h.prev[x] = NoObject <=> h.first = x
        /\ h.next[x] = NoObject <=> h.last = x
        /\ h.next[x] # NoObject => h.prev[h.next[x]] = x
        /\ h.prev[x] # NoObject => h.next[h.prev[x]] = x
  BY DEF Linked, ChainOf, Heaps
<1>4. \A x \in ChainOf(h) : /\ h.next[x] # NoObject => h.next[x] \in ChainOf(h)
                            /\ h.prev[x] # NoObject => h.prev[x] \in ChainOf(h)
  <2> SUFFICES ASSUME NEW x \in ChainOf(h)
               PROVE  /\ h.next[x] # NoObject => h.next[x] \in ChainOf(h)
                      /\ h.prev[x] # NoObject => h.prev[x] \in ChainOf(h)
    OBVIOUS
  <2>1. x # NoObject
    BY <1>1, <1>3
  <2> QED
    BY <2>1, <1>3 DEF ChainOf, Listed, Maybe
<1>5. /\ n # NoObject => n \in ChainOf(h) /\ h.prev[n] = o /\ n \in Objects
      /\ p # NoObject => p \in ChainOf(h) /\ h.next[p] = o /\ p \in Objects
  BY <1>3, <1>4 DEF n, p
<1>6. ChainOf(a) = ChainOf(h) \ {o}
  <2>1. ~Listed(a, o)
    <3>1. a.next[o] = NoObject /\ a.prev[o] = NoObject
      BY <1>1, <1>2
    <3>2. a.first # o
      <4>1. CASE p = NoObject
        <5>1. n # o
          <6>1. h.first = o
            BY <1>3, <4>1 DEF p
          <6> QED
            BY <4>1, <1>3, <1>5, <1>1 DEF p
        <5> QED
          BY <4>1, <5>1, <1>2
      <4>2. CASE p # NoObject
        BY <4>2, <1>2, <1>3 DEF p
      <4> QED
        BY <4>1, <4>2
    <3> QED
      BY <3>1, <3>2 DEF Listed
  <2>2. ASSUME NEW x \in ChainOf(h), x # o PROVE Listed(a, x)
    <3>1. x \in Objects /\ x # NoObject
      BY <1>1, <1>3
    <3>2. a.next[x] = (IF x = p THEN n ELSE h.next[x]) /\ a.prev[x] = (IF x = n THEN p ELSE h.prev[x])
      BY <3>1, <2>2, <1>2
    <3>3. CASE x = n
      BY <3>1, <3>2, <3>3, <1>2 DEF Listed
    <3>4. CASE x # n /\ h.prev[x] # NoObject
      BY <3>2, <3>4 DEF Listed
    <3>5. CASE x # n /\ h.prev[x] = NoObject
      <4>1. h.first = x
        BY <1>3, <3>5
      <4>2. p # NoObject
        BY <4>1, <1>3, <2>2 DEF p
      <4> QED
        BY <4>1, <4>2, <1>2 DEF Listed
    <3> QED
      BY <3>3, <3>4, <3>5
  <2>3. ASSUME NEW x \in Objects, x \notin ChainOf(h) PROVE ~Listed(a, x)
    <3>1. h.next[x] = NoObject /\ h.prev[x] = NoObject /\ h.first # x /\ x # o
      BY <2>3 DEF ChainOf, Listed
    <3>2. x # n /\ x # p
      BY <2>3, <1>5, <1>1
    <3>3. a.next[x] = NoObject /\ a.prev[x] = NoObject
      BY <3>1, <3>2, <1>2
    <3>4. a.first # x
      BY <3>1, <3>2, <1>2
    <3> QED
      BY <3>3, <3>4 DEF Listed
  <2> QED
    BY <2>1, <2>2, <2>3 DEF ChainOf
<1>7. ASSUME NEW x \in ChainOf(a)
      PROVE  /\ a.prev[x] = NoObject <=> a.first = x
             /\ a.next[x] = NoObject <=> a.last = x
             /\ a.next[x] # NoObject => a.prev[a.next[x]] = x
             /\ a.prev[x] # NoObject => a.next[a.prev[x]] = x
  <2>1. x \in ChainOf(h) /\ x # o /\ x \in Objects /\ x # NoObject
    BY <1>6, <1>1, <1>3
  <2>2. a.next[x] = (IF x = p THEN n ELSE h.next[x]) /\ a.prev[x] = (IF x = n THEN p ELSE h.prev[x])
    BY <2>1, <1>2
  <2>3. /\ h.prev[x] = NoObject <=> h.first = x
        /\ h.next[x] = NoObject <=> h.last = x
        /\ h.next[x] # NoObject => h.prev[h.next[x]] = x /\ h.next[x] \in Objects
        /\ h.prev[x] # NoObject => h.next[h.prev[x]] = x /\ h.prev[x] \in Objects
    BY <2>1, <1>3 DEF Maybe
  <2>4. /\ p = NoObject <=> h.first = o
        /\ n = NoObject <=> h.last = o
        /\ n # NoObject => h.prev[n] = o
        /\ p # NoObject => h.next[p] = o
    BY <1>3 DEF n, p
  <2>5. a.prev[x] = NoObject <=> a.first = x
    <3>1. CASE x = n
      BY <3>1, <2>1, <2>2, <2>3, <2>4, <1>1, <1>2
    <3>2. CASE x # n
      BY <3>2, <2>1, <2>2, <2>3, <2>4, <1>1, <1>2
    <3> QED
      BY <3>1, <3>2
  <2>6. a.next[x] = NoObject <=> a.last = x
    <3>1. CASE x = p
      BY <3>1, <2>1, <2>2, <2>3, <2>4, <1>1, <1>2
    <3>2. CASE x # p
      BY <3>2, <2>1, <2>2, <2>3, <2>4, <1>1, <1>2
    <3> QED
      BY <3>1, <3>2
  <2>7. a.next[x] # NoObject => a.prev[a.next[x]] = x
    <3>1. CASE x = p
      <4>1. n # NoObject => n \in Objects /\ n # o
        BY <3>1, <2>1, <1>5 DEF p
      <4> QED
        BY <3>1, <4>1, <2>2, <1>2
    <3>2. CASE x # p /\ h.next[x] # NoObject
      <4>1. h.next[x] # o
        BY <3>2, <2>3 DEF p
      <4>2. h.next[x] # n
        BY <2>1, <2>3, <2>4, <3>2
      <4> QED
        BY <3>2, <4>1, <4>2, <2>2, <2>3, <1>2
    <3> QED
      BY <3>1, <3>2, <2>2
  <2>8. a.prev[x] # NoObject => a.next[a.prev[x]] = x
    <3>1. CASE x = n
      <4>1. p # NoObject => p \in Objects /\ p # o
        BY <3>1, <2>1, <1>5 DEF n
      <4> QED
        BY <3>1, <4>1, <2>2, <1>2
    <3>2. CASE x # n /\ h.prev[x] # NoObject
      <4>1. h.prev[x] # o
        BY <3>2, <2>3 DEF n
      <4>2. h.prev[x] # p
        BY <2>1, <2>3, <2>4, <3>2
      <4> QED
        BY <3>2, <4>1, <4>2, <2>2, <2>3, <1>2
    <3> QED
      BY <3>1, <3>2, <2>2
  <2> QED
    BY <2>5, <2>6, <2>7, <2>8
<1>8. IF ChainOf(a) = {} THEN a.first = NoObject /\ a.last = NoObject
                         ELSE a.first \in ChainOf(a) /\ a.last \in ChainOf(a)
  <2>1. h.first \in ChainOf(h) /\ h.last \in ChainOf(h)
    BY DEF Linked
  <2>2. a.first # NoObject => a.first \in ChainOf(a)
    BY <2>1, <1>1, <1>2, <1>3, <1>5, <1>6 DEF n, p
  <2>3. a.last # NoObject => a.last \in ChainOf(a)
    BY <2>1, <1>1, <1>2, <1>3, <1>5, <1>6 DEF n, p
  <2>4. a.first = NoObject => a.last = NoObject /\ ChainOf(a) = {}
    <3> SUFFICES ASSUME a.first = NoObject PROVE a.last = NoObject /\ ChainOf(a) = {}
      OBVIOUS
    <3>1. p = NoObject /\ n = NoObject /\ h.first = o /\ o # NoObject
      BY <2>1, <1>1, <1>2, <1>3 DEF p
    <3>2. NextClosed(h, {o})
      BY <3>1 DEF NextClosed, n
    <3>3. ChainOf(h) \subseteq {o}
      BY <3>1, <3>2, <1>1 DEF Connected, Ahead
    <3> QED
      BY <3>1, <3>3, <1>2, <1>6
  <2>5. a.last = NoObject => a.first = NoObject
    BY <2>1, <1>1, <1>2, <1>3 DEF n, p
  <2> QED
    BY <2>2, <2>3, <2>4, <2>5
<1> QED
  BY <1>2, <1>6, <1>7, <1>8 DEF Linked

\* Where the candidates behind x are, when one is added or removed.
LEMMA AheadStep ==
  ASSUME NEW h \in Heaps, NEW x \in Objects
  PROVE  /\ h.next[x] = NoObject => Ahead(h, x) \subseteq {x}
         /\ h.next[x] # NoObject => Ahead(h, x) \ {x} \subseteq Ahead(h, h.next[x])
<1>1. CASE h.next[x] = NoObject
  <2>1. NextClosed(h, {x})
    BY <1>1 DEF NextClosed
  <2> QED
    BY <1>1, <2>1 DEF Ahead
<1>2. CASE h.next[x] # NoObject
  <2> SUFFICES ASSUME NEW y \in Ahead(h, x), y # x,
                      NEW T \in SUBSET Objects, h.next[x] \in T, NextClosed(h, T)
               PROVE  y \in T
    BY <1>2 DEF Ahead
  <2>1. NextClosed(h, T \cup {x})
    BY DEF NextClosed
  <2>2. y \in T \cup {x}
    BY <2>1 DEF Ahead
  <2> QED
    BY <2>2
<1> QED
  BY <1>1, <1>2

LEMMA AddedAhead ==
  ASSUME NEW h \in Heaps, NEW o \in Objects, Linked(h), Connected(h),
         NEW a, a = addObjectToGarbageCollector(h, o)
  PROVE  Connected(a) /\ \A x \in Objects : Ahead(h, x) \subseteq Ahead(a, x)
<1>1. CASE Listed(h, o)
  BY <1>1 DEF addObjectToGarbageCollector
<1>2. CASE ~Listed(h, o) /\ h.first = NoObject
  <2>1. a.next = h.next /\ a.first = o
    BY <1>2, AddFirstFields
  <2>2. ChainOf(a) = {o}
    <3>1. ChainOf(h) = {}
      BY <1>2, ObjectsAssumption DEF Linked, ChainOf
    <3> QED
      BY <3>1, AddedChain
  <2> QED
    BY <2>1, <2>2 DEF Connected, Ahead, NextClosed
<1>3. CASE ~Listed(h, o) /\ h.first # NoObject
  <2>1. h.first \in ChainOf(h) /\ h.first \in Objects
    BY <1>3, ObjectsAssumption DEF ChainOf, Listed, Heaps, Maybe
  <2>2. h.last \in ChainOf(h) /\ h.last \in Objects /\ h.last # NoObject /\ h.next[h.last] = NoObject
    BY <2>1, ObjectsAssumption DEF Linked, ChainOf
  <2>3. /\ a \in Heaps /\ Counts(a, h) /\ a.marked = h.marked
        /\ a.next = [h.next EXCEPT ![h.last] = o] /\ a.prev = [h.prev EXCEPT ![o] = h.last]
        /\ a.first = h.first /\ a.last = o
    BY <1>3, <2>2, AddFields
  <2>4. a.next[h.last] = o /\ \A q \in Objects : q # h.last => a.next[q] = h.next[q]
    BY <2>2, <2>3 DEF Heaps
  <2>5. ASSUME NEW T \in SUBSET Objects, NextClosed(a, T) PROVE NextClosed(h, T)
    BY <2>2, <2>4, <2>5 DEF NextClosed
  <2>6. \A x \in Objects : Ahead(h, x) \subseteq Ahead(a, x)
    BY <2>5 DEF Ahead
  <2>7. ChainOf(a) = ChainOf(h) \cup {o}
    BY AddedChain
  <2>8. ChainOf(h) \subseteq Ahead(a, h.first)
    BY <2>1, <2>6, <1>3 DEF Connected
  <2>9. o \in Ahead(a, h.first)
    <3> SUFFICES ASSUME NEW T \in SUBSET Objects, h.first \in T, NextClosed(a, T) PROVE o \in T
      BY DEF Ahead
    <3>1. h.last \in T
      BY <2>2, <2>8 DEF Ahead
    <3> QED
      BY <3>1, <2>4, ObjectsAssumption DEF NextClosed
  <2> QED
    BY <2>3, <2>6, <2>7, <2>8, <2>9 DEF Connected
<1> QED
  BY <1>1, <1>2, <1>3

LEMMA NextOther ==
  ASSUME NEW h \in Heaps, NEW o \in ChainOf(h), Linked(h), Connected(h), h.next[o] # NoObject
  PROVE  h.next[o] # o /\ h.next[o] \in ChainOf(h)
<1> SUFFICES ASSUME h.next[o] = o PROVE FALSE
  BY ObjectsAssumption DEF Linked, ChainOf, Heaps, Listed, Maybe
<1>1. o \in Objects /\ h.prev[o] = o /\ o # NoObject /\ h.first # o
  BY ObjectsAssumption DEF Linked, ChainOf
<1>2. h.first \in ChainOf(h) /\ h.first \in Objects /\ h.first # NoObject
  BY ObjectsAssumption DEF Linked, ChainOf
<1>3. NextClosed(h, Objects \ {o})
  <2> SUFFICES ASSUME NEW q \in Objects \ {o}, h.next[q] = o PROVE FALSE
    BY DEF NextClosed, Heaps, Maybe
  <2>1. q \in ChainOf(h)
    BY <1>1 DEF ChainOf, Listed
  <2> QED
    BY <2>1, <1>1 DEF Linked
<1>4. o \in Ahead(h, h.first)
  BY <1>2 DEF Connected
<1> QED
  BY <1>1, <1>2, <1>3, <1>4 DEF Ahead

LEMMA RemovedAhead ==
  ASSUME NEW h \in Heaps, NEW o \in ChainOf(h), Linked(h), Connected(h),
         NEW a, a = removeObjectFromGarbageCollector(h, o)
  PROVE  /\ Connected(a)
         /\ \A x \in Objects : x # o => Ahead(h, x) \ {o} \subseteq Ahead(a, x)
         /\ h.next[o] # NoObject => Ahead(h, o) \ {o} \subseteq Ahead(a, h.next[o])
<1> DEFINE n == h.next[o]
           p == h.prev[o]
<1>1. o \in Objects /\ NoObject \notin Objects /\ o # NoObject /\ p \in Maybe /\ n \in Maybe
  BY ObjectsAssumption DEF ChainOf, Heaps
<1>2. /\ \A x \in Objects : a.next[x] = IF x = o THEN NoObject ELSE IF x = p THEN n ELSE h.next[x]
      /\ a.first = (IF p = NoObject THEN n ELSE h.first)
  <2>1. /\ a \in Heaps /\ Counts(a, h) /\ a.marked = h.marked
        /\ a.next = [x \in Objects |-> IF x = o THEN NoObject ELSE IF x = p THEN n ELSE h.next[x]]
        /\ a.prev = [x \in Objects |-> IF x = o THEN NoObject ELSE IF x = n THEN p ELSE h.prev[x]]
        /\ a.first = (IF p = NoObject THEN n ELSE h.first)
        /\ a.last = (IF n = NoObject THEN p ELSE h.last)
    BY <1>1, RemoveFields
  <2> QED
    BY <2>1
<1>3. p # NoObject => p \in Objects /\ h.next[p] = o
  BY <1>1 DEF Linked, Maybe
<1>4. p = NoObject => h.first = o
  BY DEF Linked
<1>5. \A q \in Objects : h.next[q] = o => q = p
  <2> SUFFICES ASSUME NEW q \in Objects, h.next[q] = o PROVE q = p
    OBVIOUS
  <2>1. q \in ChainOf(h)
    BY <1>1 DEF ChainOf, Listed
  <2> QED
    BY <2>1, <1>1 DEF Linked
<1> HIDE DEF n, p
<1>6. ASSUME NEW T \in SUBSET Objects, NextClosed(a, T), p \in T \/ n \in T \cup {NoObject}
      PROVE  NextClosed(h, T \cup {o})
  <2> SUFFICES ASSUME NEW q \in T \cup {o} PROVE h.next[q] \in T \cup {o} \cup {NoObject}
    BY DEF NextClosed
  <2>1. CASE q = o
    <3>1. CASE p \in T
      <4>1. p # o => a.next[p] = n
        BY <3>1, <1>2
      <4>2. p = o => n = o
        BY <1>1, <1>3 DEF n
      <4> QED
        BY <3>1, <4>1, <4>2, <2>1, <1>6 DEF NextClosed, n
    <3>2. CASE n \in T \cup {NoObject}
      BY <3>2, <2>1 DEF n
    <3> QED
      BY <3>1, <3>2, <1>6
  <2>2. CASE q # o /\ q = p
    BY <2>2, <1>1, <1>3
  <2>3. CASE q # o /\ q # p
    <3>1. q \in T /\ q \in Objects /\ a.next[q] = h.next[q]
      BY <2>3, <1>2
    <3> QED
      BY <3>1, <1>6 DEF NextClosed
  <2> QED
    BY <2>1, <2>2, <2>3
<1>7. ASSUME NEW T \in SUBSET Objects, NextClosed(a, T), p \notin T
      PROVE  NextClosed(h, T \ {o})
  <2> SUFFICES ASSUME NEW q \in T \ {o} PROVE h.next[q] \in (T \ {o}) \cup {NoObject}
    BY DEF NextClosed
  <2>1. q \in Objects /\ q # p /\ a.next[q] = h.next[q]
    BY <1>7, <1>2
  <2>2. a.next[q] \in T \cup {NoObject}
    BY <1>7 DEF NextClosed
  <2> QED
    BY <2>1, <2>2, <1>5
<1>8. ASSUME NEW x \in Objects, x # o, NEW y \in Ahead(h, x) \ {o} PROVE y \in Ahead(a, x)
  <2> SUFFICES ASSUME NEW T \in SUBSET Objects, x \in T, NextClosed(a, T) PROVE y \in T
    BY DEF Ahead
  <2>1. CASE p \in T
    <3>1. NextClosed(h, T \cup {o}) /\ T \cup {o} \in SUBSET Objects
      BY <2>1, <1>6, <1>1
    <3> QED
      BY <3>1, <1>8 DEF Ahead
  <2>2. CASE p \notin T
    <3>1. NextClosed(h, T \ {o}) /\ T \ {o} \in SUBSET Objects
      BY <2>2, <1>7
    <3> QED
      BY <3>1, <1>8 DEF Ahead
  <2> QED
    BY <2>1, <2>2
<1>9. ASSUME n # NoObject, NEW y \in Ahead(h, o) \ {o} PROVE y \in Ahead(a, n)
  <2> SUFFICES ASSUME NEW T \in SUBSET Objects, n \in T, NextClosed(a, T) PROVE y \in T
    BY DEF Ahead
  <2>1. NextClosed(h, T \cup {o}) /\ T \cup {o} \in SUBSET Objects
    BY <1>6, <1>1
  <2> QED
    BY <2>1, <1>9 DEF Ahead
<1>10. Connected(a)
  <2>1. ChainOf(a) = ChainOf(h) \ {o}
    BY RemovedChain
  <2>2. h.first # NoObject /\ h.first \in Objects /\ ChainOf(h) \subseteq Ahead(h, h.first)
    BY <1>1 DEF Linked, ChainOf, Connected
  <2>3. CASE p = NoObject
    BY <2>1, <2>2, <2>3, <1>2, <1>4, <1>9 DEF Connected
  <2>4. CASE p # NoObject
    <3>1. h.first # o
      BY <2>4 DEF Linked, p
    <3> QED
      BY <2>1, <2>2, <2>4, <3>1, <1>2, <1>8 DEF Connected
  <2> QED
    BY <2>3, <2>4
<1> QED
  BY <1>8, <1>9, <1>10 DEF n

(***************************************************************************)
(* What the functions of the code do to the heap.                          *)
(***************************************************************************)
SameList(a, h) == a.next = h.next /\ a.prev = h.prev /\ a.first = h.first /\ a.last = h.last
Regular(h) ==
    /\ h \in Heaps /\ Linked(h) /\ Connected(h)
    /\ \A o \in Objects : h.marked[o] => o \in ChainOf(h)
Grown(a, h) == ChainOf(h) \subseteq ChainOf(a) /\ \A x \in Objects : Ahead(h, x) \subseteq Ahead(a, x)

LEMMA SameChain ==
  ASSUME NEW a, NEW h, SameList(a, h)
  PROVE  /\ ChainOf(a) = ChainOf(h) /\ \A x \in Objects : Ahead(a, x) = Ahead(h, x)
         /\ Linked(a) <=> Linked(h)
         /\ Connected(a) <=> Connected(h)
<1>1. \A o \in Objects : Listed(a, o) <=> Listed(h, o)
  BY DEF Listed, SameList
<1>2. ChainOf(a) = ChainOf(h)
  BY <1>1 DEF ChainOf
<1>3. \A x : Ahead(a, x) = Ahead(h, x)
  BY DEF Ahead, NextClosed, SameList
<1> QED
  BY <1>2, <1>3 DEF Linked, Connected, SameList

LEMMA SameRegular ==
  ASSUME NEW h, Regular(h), NEW a \in Heaps, SameList(a, h),
         \A o \in Objects : a.marked[o] => h.marked[o]
  PROVE  Regular(a) /\ Grown(a, h) /\ ChainOf(a) = ChainOf(h)
<1> USE SameChain
<1> QED
  BY DEF Regular, Grown

LEMMA AddRegular ==
  ASSUME NEW h, Regular(h), NEW o \in Objects, NEW a, a = addObjectToGarbageCollector(h, o)
  PROVE  /\ Regular(a) /\ Grown(a, h) /\ Counts(a, h) /\ a.marked = h.marked
         /\ ChainOf(a) = ChainOf(h) \cup {o}
<1>1. h \in Heaps /\ Linked(h) /\ Connected(h)
  BY DEF Regular
<1>2. a \in Heaps /\ Counts(a, h) /\ a.marked = h.marked /\ Linked(a) /\ ChainOf(a) = ChainOf(h) \cup {o}
  BY <1>1, AddedChain
<1>3. Connected(a) /\ \A x \in Objects : Ahead(h, x) \subseteq Ahead(a, x)
  BY <1>1, AddedAhead
<1> QED
  BY <1>2, <1>3 DEF Regular, Grown

LEMMA MarkRegular ==
  ASSUME NEW h, Regular(h), NEW o \in Objects, NEW a, a = Mark(h, o)
  PROVE  /\ Regular(a) /\ Grown(a, h) /\ Counts(a, h) /\ a.marked = [h.marked EXCEPT ![o] = TRUE]
         /\ ChainOf(a) = ChainOf(h) \cup {o}
<1> DEFINE b == addObjectToGarbageCollector(h, o)
<1>1. Regular(b) /\ Grown(b, h) /\ Counts(b, h) /\ b.marked = h.marked /\ ChainOf(b) = ChainOf(h) \cup {o}
  BY AddRegular
<1>2. a = [b EXCEPT !.marked[o] = TRUE]
  BY DEF Mark
<1> HIDE DEF b
<1>3. b \in Heaps /\ [b.marked EXCEPT ![o] = TRUE] \in [Objects -> BOOLEAN]
  BY <1>1 DEF Regular, Heaps
<1>4. a \in Heaps /\ Counts(a, b) /\ SameList(a, b) /\ a.marked = [b.marked EXCEPT ![o] = TRUE]
  BY <1>2, <1>3 DEF Heaps, Counts, SameList
<1>5. ChainOf(a) = ChainOf(b) /\ Linked(a) /\ Connected(a) /\ \A x \in Objects : Ahead(a, x) = Ahead(b, x)
  BY <1>1, <1>4, SameChain DEF Regular
<1>6. \A x \in Objects : a.marked[x] => x \in ChainOf(a)
  BY <1>1, <1>3, <1>4, <1>5 DEF Regular, Heaps
<1>7. Counts(a, h)
  BY <1>1, <1>4 DEF Counts
<1>8. Grown(a, h)
  BY <1>1, <1>5 DEF Grown
<1>9. Regular(a)
  BY <1>4, <1>5, <1>6 DEF Regular
<1> QED
  BY <1>1, <1>4, <1>5, <1>7, <1>8, <1>9

LEMMA RemoveRegular ==
  ASSUME NEW h, Regular(h), NEW o \in ChainOf(h), NEW a, a = RemoveCandidate(h, o)
  PROVE  /\ Regular(a) /\ Counts(a, h) /\ a.marked = [h.marked EXCEPT ![o] = FALSE]
         /\ ChainOf(a) = ChainOf(h) \ {o}
         /\ \A x \in Objects : x # o => Ahead(h, x) \ {o} \subseteq Ahead(a, x)
         /\ h.next[o] # NoObject => Ahead(h, o) \ {o} \subseteq Ahead(a, h.next[o])
<1> DEFINE b == removeObjectFromGarbageCollector(h, o)
<1>1. h \in Heaps /\ Linked(h) /\ Connected(h) /\ o \in Objects
  BY DEF Regular, ChainOf
<1>2. b \in Heaps /\ Counts(b, h) /\ b.marked = h.marked /\ Linked(b) /\ ChainOf(b) = ChainOf(h) \ {o}
  BY <1>1, RemovedChain
<1>3. /\ Connected(b)
      /\ \A x \in Objects : x # o => Ahead(h, x) \ {o} \subseteq Ahead(b, x)
      /\ h.next[o] # NoObject => Ahead(h, o) \ {o} \subseteq Ahead(b, h.next[o])
  BY <1>1, RemovedAhead
<1>4. a = [b EXCEPT !.marked[o] = FALSE]
  BY DEF RemoveCandidate
<1> HIDE DEF b
<1>5. [b.marked EXCEPT ![o] = FALSE] \in [Objects -> BOOLEAN]
  BY <1>2 DEF Heaps
<1>6. a \in Heaps /\ Counts(a, b) /\ SameList(a, b) /\ a.marked = [b.marked EXCEPT ![o] = FALSE]
  BY <1>2, <1>4, <1>5 DEF Heaps, Counts, SameList
<1>7. ChainOf(a) = ChainOf(b) /\ Linked(a) /\ Connected(a) /\ \A x \in Objects : Ahead(a, x) = Ahead(b, x)
  BY <1>2, <1>3, <1>6, SameChain
<1>8. \A x \in Objects : a.marked[x] => x \in ChainOf(a)
  BY <1>2, <1>5, <1>6, <1>7 DEF Regular, Heaps
<1>9. Counts(a, h)
  BY <1>2, <1>6 DEF Counts
<1>10. Regular(a)
  BY <1>6, <1>7, <1>8 DEF Regular
<1>11. h.next[o] # NoObject => h.next[o] \in Objects
  BY <1>1 DEF Heaps, Maybe
<1> QED
  BY <1>2, <1>3, <1>6, <1>7, <1>9, <1>10, <1>11

LEMMA ForgetRegular ==
  ASSUME NEW h, Regular(h), NEW o \in Objects, NEW a, a = removefromGarbageCollection(h, o)
  PROVE  /\ Regular(a) /\ a.marked = [h.marked EXCEPT ![o] = FALSE]
         /\ a.live = h.live /\ a.dying = h.dying /\ a.constant = h.constant /\ a.ref = h.ref
         /\ a.stored = h.stored /\ a.static = h.static /\ a.member = h.member /\ a.calls = h.calls
         /\ a.deleted = [h.deleted EXCEPT ![o] = FALSE]
         /\ ChainOf(a) = IF h.marked[o] THEN ChainOf(h) \ {o} ELSE ChainOf(h)
         /\ \A x \in Objects : x # o => Ahead(h, x) \ {o} \subseteq Ahead(a, x)
         /\ h.next[o] # NoObject => Ahead(h, o) \ {o} \subseteq Ahead(a, h.next[o])
<1> DEFINE b == IF h.marked[o] THEN removeObjectFromGarbageCollector(h, o) ELSE h
<1>1. h \in Heaps /\ Linked(h) /\ Connected(h) /\ (h.marked[o] => o \in ChainOf(h))
  BY DEF Regular
<1>2. /\ b \in Heaps /\ Counts(b, h) /\ b.marked = h.marked /\ Linked(b) /\ Connected(b)
      /\ ChainOf(b) = IF h.marked[o] THEN ChainOf(h) \ {o} ELSE ChainOf(h)
      /\ \A x \in Objects : x # o => Ahead(h, x) \ {o} \subseteq Ahead(b, x)
      /\ h.next[o] # NoObject => Ahead(h, o) \ {o} \subseteq Ahead(b, h.next[o])
  <2>1. CASE h.marked[o]
    <3>1. b = removeObjectFromGarbageCollector(h, o) /\ o \in ChainOf(h)
      BY <2>1, <1>1
    <3>2. b \in Heaps /\ Counts(b, h) /\ b.marked = h.marked /\ Linked(b) /\ ChainOf(b) = ChainOf(h) \ {o}
      BY <3>1, <1>1, RemovedChain
    <3>3. /\ Connected(b)
          /\ \A x \in Objects : x # o => Ahead(h, x) \ {o} \subseteq Ahead(b, x)
          /\ h.next[o] # NoObject => Ahead(h, o) \ {o} \subseteq Ahead(b, h.next[o])
      BY <3>1, <1>1, RemovedAhead
    <3> QED
      BY <2>1, <3>2, <3>3
  <2>2. CASE ~h.marked[o]
    <3>1. b = h
      BY <2>2
    <3> HIDE DEF b
    <3> QED
      BY <3>1, <2>2, <1>1, AheadStep DEF Counts
  <2> QED
    BY <2>1, <2>2
<1>3. a = [b EXCEPT !.marked[o] = FALSE, !.deleted[o] = FALSE]
  BY DEF removefromGarbageCollection
<1> HIDE DEF b
<1>4. [b.marked EXCEPT ![o] = FALSE] \in [Objects -> BOOLEAN] /\ [b.deleted EXCEPT ![o] = FALSE] \in [Objects -> BOOLEAN]
  BY <1>2 DEF Heaps
<1>5. /\ a \in Heaps /\ SameList(a, b)
      /\ a.marked = [b.marked EXCEPT ![o] = FALSE] /\ a.deleted = [b.deleted EXCEPT ![o] = FALSE]
      /\ a.live = b.live /\ a.dying = b.dying /\ a.constant = b.constant /\ a.ref = b.ref
      /\ a.stored = b.stored /\ a.static = b.static /\ a.member = b.member /\ a.calls = b.calls
  BY <1>2, <1>3, <1>4 DEF Heaps, SameList
<1>6. ChainOf(a) = ChainOf(b) /\ Linked(a) /\ Connected(a) /\ \A x \in Objects : Ahead(a, x) = Ahead(b, x)
  BY <1>2, <1>5, SameChain
<1>7. \A x \in Objects : a.marked[x] => x \in ChainOf(a)
  <2> SUFFICES ASSUME NEW x \in Objects, a.marked[x] PROVE x \in ChainOf(b)
    BY <1>6
  <2>1. x # o /\ h.marked[x]
    BY <1>1, <1>2, <1>5 DEF Heaps
  <2>2. x \in ChainOf(h)
    BY <2>1 DEF Regular
  <2> QED
    BY <2>1, <2>2, <1>2
<1>8. Regular(a)
  BY <1>5, <1>6, <1>7 DEF Regular
<1>9. h.next[o] # NoObject => h.next[o] \in Objects
  BY <1>1 DEF Heaps, Maybe
<1>10. /\ a.live = h.live /\ a.dying = h.dying /\ a.constant = h.constant /\ a.ref = h.ref
       /\ a.stored = h.stored /\ a.static = h.static /\ a.member = h.member /\ a.calls = h.calls
       /\ a.marked = [h.marked EXCEPT ![o] = FALSE] /\ a.deleted = [h.deleted EXCEPT ![o] = FALSE]
  BY <1>2, <1>5 DEF Counts
<1> QED
  BY <1>2, <1>6, <1>8, <1>9, <1>10

LEMMA PushCall ==
  ASSUME NEW q \in Seq(Frames), NEW f \in Frames
  PROVE  /\ <<f>> \o q \in Seq(Frames) /\ Len(<<f>> \o q) = Len(q) + 1
         /\ (<<f>> \o q)[1] = f /\ \A i \in 1 .. Len(q) : (<<f>> \o q)[i + 1] = q[i]
  OBVIOUS

LEMMA PopCall ==
  ASSUME NEW q \in Seq(Frames), q # <<>>
  PROVE  /\ Tail(q) \in Seq(Frames) /\ Len(Tail(q)) = Len(q) - 1 /\ Len(q) \in Nat \ {0}
         /\ Head(q) = q[1] /\ Head(q) \in Frames
         /\ \A i \in 1 .. Len(q) - 1 : Tail(q)[i] = q[i + 1]
  OBVIOUS

\* The heap but for its calls.
SameBut(a, h) ==
    /\ a.live = h.live /\ a.deleted = h.deleted /\ a.constant = h.constant
    /\ a.member = h.member /\ a.marked = h.marked /\ SameList(a, h)

LEMMA CallRegular ==
  ASSUME NEW h, Regular(h), NEW o \in Objects, NEW op \in Ops, NEW a, a = Call(h, op, o)
  PROVE  /\ Regular(a) /\ Grown(a, h) /\ SameBut(a, h) /\ ChainOf(a) = ChainOf(h)
         /\ a.dying = h.dying /\ a.ref = h.ref /\ a.stored = h.stored /\ a.static = h.static
         /\ a.calls = <<[op |-> op, obj |-> o]>> \o h.calls
<1>1. h \in Heaps /\ h.calls \in Seq(Frames) /\ [op |-> op, obj |-> o] \in Frames
  BY DEF Regular, Heaps, Frames
<1>2. a.calls = <<[op |-> op, obj |-> o]>> \o h.calls /\ a.calls \in Seq(Frames)
  BY <1>1, PushCall DEF Call, Heaps
<1>3. /\ a.live = h.live /\ a.deleted = h.deleted /\ a.constant = h.constant
      /\ a.member = h.member /\ a.marked = h.marked /\ SameList(a, h)
      /\ a.dying = h.dying /\ a.ref = h.ref /\ a.stored = h.stored /\ a.static = h.static
  BY <1>1 DEF Call, Heaps, SameList
<1>4. a \in Heaps
  <2>1. a = [h EXCEPT !.calls = a.calls]
    BY <1>1, <1>2 DEF Call, Heaps
  <2> QED
    BY <2>1, <1>1, <1>2 DEF Heaps
<1> QED
  BY <1>2, <1>3, <1>4, SameRegular DEF SameBut

LEMMA ReturnRegular ==
  ASSUME NEW h, Regular(h), h.calls # <<>>, NEW a, a = Return(h)
  PROVE  /\ Regular(a) /\ Grown(a, h) /\ SameBut(a, h) /\ ChainOf(a) = ChainOf(h)
         /\ a.dying = h.dying /\ a.ref = h.ref /\ a.stored = h.stored /\ a.static = h.static
         /\ a.calls = Tail(h.calls)
<1>1. h \in Heaps /\ h.calls \in Seq(Frames) /\ Tail(h.calls) \in Seq(Frames)
  BY PopCall DEF Regular, Heaps
<1>2. a = [h EXCEPT !.calls = Tail(h.calls)]
  BY <1>1 DEF Return, Heaps
<1>3. /\ a \in Heaps /\ SameBut(a, h) /\ a.calls = Tail(h.calls) /\ SameList(a, h)
      /\ a.dying = h.dying /\ a.ref = h.ref /\ a.stored = h.stored /\ a.static = h.static
  BY <1>1, <1>2 DEF Heaps, SameBut, SameList
<1> QED
  BY <1>3, SameRegular DEF SameBut

\* RefCountable::decRef: nothing, one reference less, or the start of a release.
LastRef(h, o) == ~h.constant[o] /\ h.live[o] /\ h.ref[o] = 1 /\ ~h.dying[o]
Dropped(a, h, o) ==
    /\ SameBut(a, h) /\ a.stored = h.stored /\ a.static = h.static
    /\ IF ~h.constant[o] /\ h.live[o] /\ h.ref[o] # 1 THEN a.ref = [h.ref EXCEPT ![o] = @ - 1]
                                                     ELSE a.ref = h.ref
    /\ IF LastRef(h, o) THEN /\ a.dying = [h.dying EXCEPT ![o] = TRUE]
                             /\ a.calls = <<[op |-> "release", obj |-> o]>> \o h.calls
                        ELSE a.dying = h.dying /\ a.calls = h.calls
LEMMA DecRefRegular ==
  ASSUME NEW h, Regular(h), NEW o \in Objects, NEW a, a = decRef(h, o)
  PROVE  Regular(a) /\ Grown(a, h) /\ ChainOf(a) = ChainOf(h) /\ Dropped(a, h, o)
<1>0. h \in Heaps /\ SameList(h, h) /\ SameBut(h, h) /\ Grown(h, h)
  BY DEF Regular, SameList, SameBut, Grown
<1>1. CASE h.constant[o] \/ ~h.live[o] \/ (h.ref[o] = 1 /\ h.dying[o])
  BY <1>0, <1>1 DEF decRef, LastRef, Dropped
<1>2. CASE ~h.constant[o] /\ h.live[o] /\ h.ref[o] # 1
  <2>1. a = [h EXCEPT !.ref[o] = @ - 1]
    BY <1>2 DEF decRef
  <2>2. [h.ref EXCEPT ![o] = @ - 1] \in [Objects -> Int]
    BY <1>0 DEF Heaps
  <2>3. /\ a \in Heaps /\ SameBut(a, h) /\ a.ref = [h.ref EXCEPT ![o] = @ - 1]
        /\ a.stored = h.stored /\ a.static = h.static /\ a.dying = h.dying /\ a.calls = h.calls
    BY <2>1, <2>2, <1>0 DEF Heaps, SameBut, SameList
  <2>4. Regular(a) /\ Grown(a, h) /\ ChainOf(a) = ChainOf(h)
    BY <2>3, SameRegular DEF SameBut
  <2> QED
    BY <2>3, <2>4, <1>2 DEF LastRef, Dropped
<1>3. CASE LastRef(h, o)
  <2> DEFINE b == [h EXCEPT !.dying[o] = TRUE]
  <2>1. a = Call(b, "release", o)
    BY <1>3 DEF decRef, LastRef
  <2>2. [h.dying EXCEPT ![o] = TRUE] \in [Objects -> BOOLEAN]
    BY <1>0 DEF Heaps
  <2>3. /\ b \in Heaps /\ SameBut(b, h) /\ b.dying = [h.dying EXCEPT ![o] = TRUE] /\ b.ref = h.ref
        /\ b.stored = h.stored /\ b.static = h.static /\ b.calls = h.calls
    BY <2>2, <1>0 DEF Heaps, SameBut, SameList
  <2> HIDE DEF b
  <2>4. Regular(b) /\ Grown(b, h) /\ ChainOf(b) = ChainOf(h)
    BY <2>3, SameRegular DEF SameBut
  <2>5. /\ Regular(a) /\ Grown(a, b) /\ SameBut(a, b) /\ ChainOf(a) = ChainOf(b)
        /\ a.dying = b.dying /\ a.ref = b.ref /\ a.stored = b.stored /\ a.static = b.static
        /\ a.calls = <<[op |-> "release", obj |-> o]>> \o b.calls
    BY <2>1, <2>4, CallRegular DEF Ops
  <2>6. SameBut(a, h) /\ Grown(a, h)
    BY <2>3, <2>4, <2>5 DEF SameBut, SameList, Grown
  <2> QED
    BY <2>3, <2>4, <2>5, <2>6, <1>3 DEF LastRef, Dropped
<1> QED
  BY <1>1, <1>2, <1>3 DEF LastRef

\* removeStoredMember: nothing, a new candidate, or one reference less.
Frozen(h, o) == h.constant[o] \/ ~h.live[o] \/ h.dying[o] \/ h.deleted[o]
NewCandidate(h, o) ==
    h.stored[o] > 1 /\ h.ref[o] = h.stored[o] /\ ~h.marked[o] /\ h.static[o] = 0
Unstored(a, h, o) ==
    /\ a.live = h.live /\ a.deleted = h.deleted /\ a.constant = h.constant
    /\ a.member = h.member /\ a.static = h.static
    /\ Frozen(h, o) => a = h
    /\ ~Frozen(h, o) => a.stored = [h.stored EXCEPT ![o] = @ - 1]
    /\ ~Frozen(h, o) /\ NewCandidate(h, o) =>
         /\ ChainOf(a) = ChainOf(h) \cup {o} /\ a.marked = [h.marked EXCEPT ![o] = TRUE]
         /\ a.ref = h.ref /\ a.dying = h.dying /\ a.calls = h.calls
    /\ ~Frozen(h, o) /\ ~NewCandidate(h, o) =>
         /\ ChainOf(a) = ChainOf(h) /\ a.marked = h.marked
         /\ IF h.ref[o] # 1
              THEN /\ a.ref = [h.ref EXCEPT ![o] = @ - 1]
                   /\ a.dying = h.dying /\ a.calls = h.calls
              ELSE /\ a.ref = h.ref /\ a.dying = [h.dying EXCEPT ![o] = TRUE]
                   /\ a.calls = <<[op |-> "release", obj |-> o]>> \o h.calls
LEMMA RemoveStoredRegular ==
  ASSUME NEW h, Regular(h), NEW o \in Objects, NEW a, a = removeStoredMember(h, o)
  PROVE  Regular(a) /\ Grown(a, h) /\ Unstored(a, h, o)
<1>0. h \in Heaps
  BY DEF Regular
<1>1. CASE Frozen(h, o)
  BY <1>1 DEF removeStoredMember, Frozen, Grown, Unstored
<1>2. CASE ~Frozen(h, o)
  <2> DEFINE r == [h EXCEPT !.stored[o] = @ - 1]
  <2>1. a = IF OnlyMembersLeft(r, o) /\ ~r.marked[o] /\ r.static[o] = 0 THEN Mark(r, o) ELSE decRef(r, o)
    BY <1>2 DEF removeStoredMember, Frozen
  <2>2. [h.stored EXCEPT ![o] = @ - 1] \in [Objects -> Int]
    BY <1>0 DEF Heaps
  <2>3. /\ r \in Heaps /\ SameBut(r, h) /\ r.stored = [h.stored EXCEPT ![o] = @ - 1]
        /\ r.ref = h.ref /\ r.dying = h.dying /\ r.static = h.static /\ r.calls = h.calls
    BY <2>2, <1>0 DEF Heaps, SameBut, SameList
  <2> HIDE DEF r
  <2>4. Regular(r) /\ Grown(r, h) /\ ChainOf(r) = ChainOf(h)
    BY <2>3, SameRegular DEF SameBut
  <2>5. OnlyMembersLeft(r, o) /\ ~r.marked[o] /\ r.static[o] = 0 <=> NewCandidate(h, o)
    <3>1. r.stored[o] = h.stored[o] - 1 /\ h.stored[o] \in Int /\ h.ref[o] \in Int
      BY <2>3, <1>0 DEF Heaps
    <3>2. r.marked = h.marked
      BY <2>3 DEF SameBut
    <3> QED
      BY <3>1, <3>2, <2>3 DEF OnlyMembersLeft, NewCandidate
  <2>6. CASE NewCandidate(h, o)
    <3>1. a = Mark(r, o)
      BY <2>1, <2>5, <2>6
    <3>2. /\ Regular(a) /\ Grown(a, r) /\ Counts(a, r) /\ a.marked = [r.marked EXCEPT ![o] = TRUE]
          /\ ChainOf(a) = ChainOf(r) \cup {o}
      BY <3>1, <2>4, MarkRegular
    <3>3. Grown(a, h)
      BY <3>2, <2>4 DEF Grown
    <3> QED
      BY <3>2, <3>3, <2>3, <2>4, <2>6, <1>2 DEF Counts, SameBut, Unstored
  <2>7. CASE ~NewCandidate(h, o)
    <3>1. a = decRef(r, o)
      BY <2>1, <2>5, <2>7
    <3>2. Regular(a) /\ Grown(a, r) /\ ChainOf(a) = ChainOf(r) /\ Dropped(a, r, o)
      BY <3>1, <2>4, DecRefRegular
    <3>3. Grown(a, h)
      BY <3>2, <2>4 DEF Grown
    <3>4. ~r.constant[o] /\ r.live[o] /\ ~r.dying[o]
      BY <2>3, <1>2 DEF SameBut, Frozen
    <3>5. IF h.ref[o] # 1
            THEN /\ a.ref = [h.ref EXCEPT ![o] = @ - 1]
                 /\ a.dying = h.dying /\ a.calls = h.calls
            ELSE /\ a.ref = h.ref /\ a.dying = [h.dying EXCEPT ![o] = TRUE]
                 /\ a.calls = <<[op |-> "release", obj |-> o]>> \o h.calls
      <4>1. LastRef(r, o) <=> h.ref[o] = 1
        BY <3>4, <2>3 DEF LastRef
      <4> QED
        BY <4>1, <3>2, <3>4, <2>3 DEF Dropped
    <3>6. /\ a.live = h.live /\ a.deleted = h.deleted /\ a.constant = h.constant
          /\ a.member = h.member /\ a.static = h.static /\ a.marked = h.marked /\ a.stored = r.stored
      BY <3>2, <2>3 DEF SameBut, Dropped
    <3> QED
      BY <3>2, <3>3, <3>5, <3>6, <2>3, <2>4, <2>7, <1>2 DEF Unstored
  <2> QED
    BY <2>6, <2>7
<1> QED
  BY <1>1, <1>2

\* addStoredMember: nothing, one variable more, or that and a candidate less.
Restored(a, h, o) ==
    /\ a.live = h.live /\ a.constant = h.constant /\ a.member = h.member /\ a.static = h.static
    /\ h.constant[o] => a = h
    /\ ~h.constant[o] => a.stored = [h.stored EXCEPT ![o] = @ + 1]
    /\ ~h.constant[o] /\ ~h.marked[o] =>
         /\ ChainOf(a) = ChainOf(h) /\ a.deleted = h.deleted
         /\ a.ref = h.ref /\ a.dying = h.dying /\ a.calls = h.calls
    /\ ~h.constant[o] /\ h.marked[o] =>
         /\ ChainOf(a) = ChainOf(h) \ {o} /\ a.deleted = [h.deleted EXCEPT ![o] = FALSE]
         /\ IF h.live[o] /\ h.ref[o] # 1 THEN a.ref = [h.ref EXCEPT ![o] = @ - 1]
                                         ELSE a.ref = h.ref
         /\ IF LastRef(h, o) THEN /\ a.dying = [h.dying EXCEPT ![o] = TRUE]
                                  /\ a.calls = <<[op |-> "release", obj |-> o]>> \o h.calls
                             ELSE a.dying = h.dying /\ a.calls = h.calls
LEMMA AddStoredRegular ==
  ASSUME NEW h, Regular(h), NEW o \in Objects, NEW a, a = addStoredMember(h, o)
  PROVE  Regular(a) /\ Restored(a, h, o)
<1>0. h \in Heaps
  BY DEF Regular
<1>1. CASE h.constant[o]
  BY <1>1 DEF addStoredMember, Restored
<1>2. CASE ~h.constant[o]
  <2> DEFINE r == [h EXCEPT !.stored[o] = @ + 1]
             b == removefromGarbageCollection(r, o)
  <2>1. a = IF r.marked[o] THEN decRef(b, o) ELSE r
    BY <1>2 DEF addStoredMember
  <2>2. [h.stored EXCEPT ![o] = @ + 1] \in [Objects -> Int]
    BY <1>0 DEF Heaps
  <2>3. /\ r \in Heaps /\ SameBut(r, h) /\ r.stored = [h.stored EXCEPT ![o] = @ + 1]
        /\ r.ref = h.ref /\ r.dying = h.dying /\ r.static = h.static /\ r.calls = h.calls
    BY <2>2, <1>0 DEF Heaps, SameBut, SameList
  <2> HIDE DEF r
  <2>4. Regular(r) /\ Grown(r, h) /\ ChainOf(r) = ChainOf(h)
    BY <2>3, SameRegular DEF SameBut
  <2>5. CASE ~h.marked[o]
    <3>1. a = r
      BY <2>1, <2>3, <2>5 DEF SameBut
    <3> QED
      BY <3>1, <2>3, <2>4, <2>5, <1>2 DEF SameBut, Restored
  <2>6. CASE h.marked[o]
    <3>1. a = decRef(b, o) /\ r.marked[o]
      BY <2>1, <2>3, <2>6 DEF SameBut
    <3>2. /\ Regular(b) /\ b.marked = [r.marked EXCEPT ![o] = FALSE]
          /\ b.live = r.live /\ b.dying = r.dying /\ b.constant = r.constant /\ b.ref = r.ref
          /\ b.stored = r.stored /\ b.static = r.static /\ b.member = r.member /\ b.calls = r.calls
          /\ b.deleted = [r.deleted EXCEPT ![o] = FALSE]
          /\ ChainOf(b) = IF r.marked[o] THEN ChainOf(r) \ {o} ELSE ChainOf(r)
          /\ \A x \in Objects : x # o => Ahead(r, x) \ {o} \subseteq Ahead(b, x)
          /\ r.next[o] # NoObject => Ahead(r, o) \ {o} \subseteq Ahead(b, r.next[o])
      BY <2>4, ForgetRegular
    <3> HIDE DEF b
    <3>3. Regular(a) /\ Grown(a, b) /\ ChainOf(a) = ChainOf(b) /\ Dropped(a, b, o)
      BY <3>1, <3>2, DecRefRegular
    <3>4. /\ b.live = h.live /\ b.constant = h.constant /\ b.ref = h.ref /\ b.dying = h.dying
          /\ b.member = h.member /\ b.static = h.static /\ b.calls = h.calls
          /\ b.deleted = [h.deleted EXCEPT ![o] = FALSE] /\ ChainOf(b) = ChainOf(h) \ {o}
      BY <3>1, <3>2, <2>3, <2>4 DEF SameBut
    <3>5. LastRef(b, o) <=> LastRef(h, o)
      BY <3>4 DEF LastRef
    <3>6. a.live = b.live /\ a.constant = b.constant /\ a.member = b.member /\ a.deleted = b.deleted
      BY <3>3 DEF SameBut, Dropped
    <3> QED
      BY <3>2, <3>3, <3>4, <3>5, <3>6, <2>3, <2>6, <1>2 DEF Dropped, Restored
  <2> QED
    BY <2>5, <2>6
<1> QED
  BY <1>1, <1>2

LEMMA DecRefCalls ==
  ASSUME NEW h, Regular(h), NEW o \in Objects, NEW a, a = decRef(h, o)
  PROVE  /\ Regular(a) /\ Grown(a, h)
         /\ a.calls = h.calls \/ a.calls = <<[op |-> "release", obj |-> o]>> \o h.calls
<1>1. Regular(a) /\ Grown(a, h) /\ ChainOf(a) = ChainOf(h) /\ Dropped(a, h, o)
  BY DecRefRegular
<1> QED
  BY <1>1 DEF Dropped

LEMMA CheckRegular ==
  ASSUME NEW h, Regular(h), NEW o \in Objects, NEW a, a = decRefAndGCCheck(h, o)
  PROVE  /\ Regular(a) /\ Grown(a, h)
         /\ a.calls = h.calls \/ a.calls = <<[op |-> "release", obj |-> o]>> \o h.calls
<1>1. CASE a = Mark(h, o)
  <2>1. /\ Regular(a) /\ Grown(a, h) /\ Counts(a, h) /\ a.marked = [h.marked EXCEPT ![o] = TRUE]
        /\ ChainOf(a) = ChainOf(h) \cup {o}
    BY <1>1, MarkRegular
  <2> QED
    BY <2>1 DEF Counts
<1>2. CASE a = decRef(h, o)
  BY <1>2, DecRefCalls
<1> QED
  BY <1>1, <1>2 DEF decRefAndGCCheck

LEMMA IncRefRegular ==
  ASSUME NEW h, Regular(h), NEW o \in Objects, NEW a, a = incRef(h, o)
  PROVE  /\ Regular(a) /\ Grown(a, h) /\ SameBut(a, h) /\ ChainOf(a) = ChainOf(h)
         /\ a.dying = h.dying /\ a.stored = h.stored /\ a.static = h.static /\ a.calls = h.calls
         /\ a.ref = IF h.constant[o] THEN h.ref ELSE [h.ref EXCEPT ![o] = @ + 1]
<1>0. h \in Heaps
  BY DEF Regular
<1>1. CASE h.constant[o]
  BY <1>1 DEF incRef, Grown, SameBut, SameList
<1>2. CASE ~h.constant[o]
  <2>1. [h.ref EXCEPT ![o] = @ + 1] \in [Objects -> Int]
    BY <1>0 DEF Heaps
  <2>2. /\ a \in Heaps /\ SameBut(a, h) /\ a.ref = [h.ref EXCEPT ![o] = @ + 1]
        /\ a.dying = h.dying /\ a.stored = h.stored /\ a.static = h.static /\ a.calls = h.calls
    BY <2>1, <1>2, <1>0 DEF incRef, Heaps, SameBut, SameList
  <2> QED
    BY <2>2, <1>2, SameRegular DEF SameBut
<1> QED
  BY <1>1, <1>2

Gone(a, h, o) ==
    /\ a.live = [h.live EXCEPT ![o] = FALSE] /\ a.dying = [h.dying EXCEPT ![o] = FALSE]
    /\ a.ref = [h.ref EXCEPT ![o] = 0] /\ a.stored = h.stored /\ a.static = h.static
    /\ a.deleted = h.deleted /\ a.constant = h.constant /\ a.member = h.member
    /\ a.marked = h.marked /\ a.calls = h.calls /\ SameList(a, h)
LEMMA ReleasedRegular ==
  ASSUME NEW h, Regular(h), NEW o \in Objects, NEW a, a = Released(h, o)
  PROVE  Regular(a) /\ Grown(a, h) /\ ChainOf(a) = ChainOf(h) /\ Gone(a, h, o)
<1>0. h \in Heaps
  BY DEF Regular
<1>1. /\ [h.live EXCEPT ![o] = FALSE] \in [Objects -> BOOLEAN]
      /\ [h.dying EXCEPT ![o] = FALSE] \in [Objects -> BOOLEAN]
      /\ [h.ref EXCEPT ![o] = 0] \in [Objects -> Int]
  BY <1>0 DEF Heaps
<1>2. /\ a \in Heaps /\ SameList(a, h)
      /\ a.live = [h.live EXCEPT ![o] = FALSE] /\ a.dying = [h.dying EXCEPT ![o] = FALSE]
      /\ a.ref = [h.ref EXCEPT ![o] = 0] /\ a.stored = h.stored /\ a.static = h.static
      /\ a.deleted = h.deleted /\ a.constant = h.constant /\ a.member = h.member
      /\ a.marked = h.marked /\ a.calls = h.calls
  BY <1>0, <1>1 DEF Released, Heaps, SameList
<1> QED
  BY <1>2, SameRegular DEF Gone

Deleted(a, h, q) ==
    /\ a.live = h.live /\ a.dying = h.dying /\ a.ref = h.ref /\ a.stored = h.stored
    /\ a.static = h.static /\ a.member = h.member /\ a.marked = h.marked /\ SameList(a, h)
    /\ a.constant = [x \in Objects |-> h.constant[x] \/ x \in Elements(q)]
    /\ a.deleted = [x \in Objects |-> h.deleted[x] \/ x \in Elements(q)]
    /\ a.calls = [i \in DOMAIN q |-> [op |-> "collect", obj |-> q[i]]] \o h.calls
LEMMA DeleteRegular ==
  ASSUME NEW h, Regular(h), NEW q \in Seq(Objects), NEW a, a = Delete(h, q)
  PROVE  Regular(a) /\ Grown(a, h) /\ ChainOf(a) = ChainOf(h) /\ Deleted(a, h, q)
<1>0. h \in Heaps /\ h.calls \in Seq(Frames)
  BY DEF Regular, Heaps
<1> DEFINE fs == [i \in DOMAIN q |-> [op |-> "collect", obj |-> q[i]]]
           c == [x \in Objects |-> h.constant[x] \/ x \in Elements(q)]
           d == [x \in Objects |-> h.deleted[x] \/ x \in Elements(q)]
<1>1. fs \in Seq(Frames)
  <2>1. Len(q) \in Nat /\ DOMAIN q = 1 .. Len(q)
    OBVIOUS
  <2>2. \A i \in 1 .. Len(q) : [op |-> "collect", obj |-> q[i]] \in Frames
    BY DEF Frames, Ops
  <2>3. fs \in [1 .. Len(q) -> Frames]
    BY <2>1, <2>2
  <2> QED
    BY <2>1, <2>3
<1>2. c \in [Objects -> BOOLEAN] /\ d \in [Objects -> BOOLEAN] /\ fs \o h.calls \in Seq(Frames)
  <2>1. fs \o h.calls \in Seq(Frames)
    BY <1>0, <1>1
  <2> QED
    BY <2>1
<1>3. a = [h EXCEPT !.constant = c, !.deleted = d, !.calls = fs \o h.calls]
  BY <1>0 DEF Delete, Heaps
<1> HIDE DEF fs, c, d
<1>4. /\ a \in Heaps /\ SameList(a, h)
      /\ a.live = h.live /\ a.dying = h.dying /\ a.ref = h.ref /\ a.stored = h.stored
      /\ a.static = h.static /\ a.member = h.member /\ a.marked = h.marked
      /\ a.constant = c /\ a.deleted = d /\ a.calls = fs \o h.calls
  BY <1>0, <1>2, <1>3 DEF Heaps, SameList
<1> QED
  BY <1>4, SameRegular DEF fs, c, d, Deleted

\* ReleaseOne, for a candidate that was collected.
Freed(a, h, o) ==
    /\ a.live = h.live /\ a.member = h.member
    /\ a.constant = [h.constant EXCEPT ![o] = FALSE] /\ a.deleted = [h.deleted EXCEPT ![o] = FALSE]
    /\ a.ref = [h.ref EXCEPT ![o] = 1] /\ a.stored = [h.stored EXCEPT ![o] = 0]
    /\ a.static = [h.static EXCEPT ![o] = 0] /\ a.marked = [h.marked EXCEPT ![o] = FALSE]
    /\ ChainOf(a) = IF h.marked[o] THEN ChainOf(h) \ {o} ELSE ChainOf(h)
    /\ \A x \in Objects : x # o => Ahead(h, x) \ {o} \subseteq Ahead(a, x)
    /\ h.next[o] # NoObject => Ahead(h, o) \ {o} \subseteq Ahead(a, h.next[o])
    /\ IF h.live[o] /\ ~h.dying[o] THEN /\ a.dying = [h.dying EXCEPT ![o] = TRUE]
                                        /\ a.calls = <<[op |-> "release", obj |-> o]>> \o h.calls
                                   ELSE a.dying = h.dying /\ a.calls = h.calls
LEMMA ReleaseRegular ==
  ASSUME NEW h, Regular(h), NEW o \in Objects, NEW a, a = ReleaseOne(h, o)
  PROVE  Regular(a) /\ Freed(a, h, o)
<1> DEFINE b == removefromGarbageCollection(h, o)
           c == [b EXCEPT !.ref[o] = 1, !.stored[o] = 0, !.static[o] = 0, !.constant[o] = FALSE]
<1>1. a = decRef(c, o)
  BY DEF ReleaseOne
<1>2. /\ Regular(b) /\ b.marked = [h.marked EXCEPT ![o] = FALSE]
      /\ b.live = h.live /\ b.dying = h.dying /\ b.constant = h.constant /\ b.ref = h.ref
      /\ b.stored = h.stored /\ b.static = h.static /\ b.member = h.member /\ b.calls = h.calls
      /\ b.deleted = [h.deleted EXCEPT ![o] = FALSE]
      /\ ChainOf(b) = IF h.marked[o] THEN ChainOf(h) \ {o} ELSE ChainOf(h)
      /\ \A x \in Objects : x # o => Ahead(h, x) \ {o} \subseteq Ahead(b, x)
      /\ h.next[o] # NoObject => Ahead(h, o) \ {o} \subseteq Ahead(b, h.next[o])
  BY ForgetRegular
<1>3. h \in Heaps
  BY DEF Regular
<1> HIDE DEF b
<1>4. /\ [b.ref EXCEPT ![o] = 1] \in [Objects -> Int] /\ [b.stored EXCEPT ![o] = 0] \in [Objects -> Int]
      /\ [b.static EXCEPT ![o] = 0] \in [Objects -> Int]
      /\ [b.constant EXCEPT ![o] = FALSE] \in [Objects -> BOOLEAN] /\ b \in Heaps
  BY <1>2 DEF Regular, Heaps
<1>5. /\ c \in Heaps /\ SameList(c, b)
      /\ c.ref = [b.ref EXCEPT ![o] = 1] /\ c.stored = [b.stored EXCEPT ![o] = 0]
      /\ c.static = [b.static EXCEPT ![o] = 0] /\ c.constant = [b.constant EXCEPT ![o] = FALSE]
      /\ c.live = b.live /\ c.dying = b.dying /\ c.deleted = b.deleted /\ c.member = b.member
      /\ c.marked = b.marked /\ c.calls = b.calls
  BY <1>4 DEF Heaps, SameList
<1> HIDE DEF c
<1>6. Regular(c) /\ Grown(c, b) /\ ChainOf(c) = ChainOf(b)
  BY <1>2, <1>5, SameRegular
<1>7. Regular(a) /\ Grown(a, c) /\ ChainOf(a) = ChainOf(c) /\ Dropped(a, c, o)
  BY <1>1, <1>6, DecRefRegular
<1>8. c.ref[o] = 1 /\ ~c.constant[o]
  BY <1>4, <1>5 DEF Heaps
<1>9. LastRef(c, o) <=> h.live[o] /\ ~h.dying[o]
  BY <1>2, <1>5, <1>8 DEF LastRef
<1>10. \A x \in Objects : Ahead(b, x) \subseteq Ahead(a, x)
  BY <1>6, <1>7 DEF Grown
<1>11. h.next[o] # NoObject => h.next[o] \in Objects
  BY <1>3 DEF Heaps, Maybe
<1>12. /\ a.live = h.live /\ a.member = h.member
       /\ a.constant = [h.constant EXCEPT ![o] = FALSE] /\ a.deleted = [h.deleted EXCEPT ![o] = FALSE]
       /\ a.ref = [h.ref EXCEPT ![o] = 1] /\ a.stored = [h.stored EXCEPT ![o] = 0]
       /\ a.static = [h.static EXCEPT ![o] = 0] /\ a.marked = [h.marked EXCEPT ![o] = FALSE]
  BY <1>2, <1>5, <1>7, <1>8 DEF SameBut, Dropped
<1>13. IF h.live[o] /\ ~h.dying[o] THEN /\ a.dying = [h.dying EXCEPT ![o] = TRUE]
                                        /\ a.calls = <<[op |-> "release", obj |-> o]>> \o h.calls
                                   ELSE a.dying = h.dying /\ a.calls = h.calls
  BY <1>2, <1>5, <1>7, <1>9 DEF Dropped
<1>14. /\ ChainOf(a) = IF h.marked[o] THEN ChainOf(h) \ {o} ELSE ChainOf(h)
       /\ \A x \in Objects : x # o => Ahead(h, x) \ {o} \subseteq Ahead(a, x)
       /\ h.next[o] # NoObject => Ahead(h, o) \ {o} \subseteq Ahead(a, h.next[o])
  <2>1. ChainOf(a) = IF h.marked[o] THEN ChainOf(h) \ {o} ELSE ChainOf(h)
    BY <1>2, <1>6, <1>7
  <2> QED
    BY <2>1, <1>2, <1>10, <1>11
<1> QED
  BY <1>7, <1>12, <1>13, <1>14 DEF Freed

\* What the list needs to know of the two functions.
LEMMA RemovedCalls ==
  ASSUME NEW h, Regular(h), NEW o \in Objects, NEW a, a = removeStoredMember(h, o)
  PROVE  /\ Regular(a) /\ Grown(a, h)
         /\ a.calls = h.calls \/ a.calls = <<[op |-> "release", obj |-> o]>> \o h.calls
<1>1. Regular(a) /\ Grown(a, h) /\ Unstored(a, h, o)
  BY RemoveStoredRegular
<1> QED
  BY <1>1 DEF Unstored

LEMMA AddedCalls ==
  ASSUME NEW h, Regular(h), NEW o \in Objects, NEW a, a = addStoredMember(h, o)
  PROVE  /\ Regular(a)
         /\ a.calls = h.calls \/ a.calls = <<[op |-> "release", obj |-> o]>> \o h.calls
<1>1. Regular(a) /\ Restored(a, h, o)
  BY AddStoredRegular
<1> QED
  BY <1>1 DEF Restored

\* Single fields.
SetMember(h, o, s, m) == [h EXCEPT !.member[o][s] = m]
SetStatic(h, o, v) == [h EXCEPT !.static[o] = v]

LEMMA ClearedMember ==
  ASSUME NEW h \in Heaps, NEW o \in Objects, NEW s \in 1 .. Slots, NEW m \in Maybe,
         NEW a, a = SetMember(h, o, s, m)
  PROVE  /\ a \in Heaps /\ SameList(a, h) /\ a.marked = h.marked /\ a.calls = h.calls
         /\ a.live = h.live /\ a.deleted = h.deleted /\ a.dying = h.dying /\ a.constant = h.constant
         /\ a.ref = h.ref /\ a.stored = h.stored /\ a.static = h.static
         /\ a.member = [h.member EXCEPT ![o] = [@ EXCEPT ![s] = m]]
<1>1. [h.member EXCEPT ![o] = [@ EXCEPT ![s] = m]] \in [Objects -> [1 .. Slots -> Maybe]]
  BY DEF Heaps
<1>2. a = [h EXCEPT !.member = [h.member EXCEPT ![o] = [@ EXCEPT ![s] = m]]]
  BY DEF Heaps, SetMember
<1> QED
  BY <1>1, <1>2 DEF Heaps, SameList

LEMMA StaticSet ==
  ASSUME NEW h, Regular(h), NEW o \in Objects, NEW v \in Int,
         NEW a, a = SetStatic(h, o, v)
  PROVE  /\ Regular(a) /\ Grown(a, h) /\ SameBut(a, h) /\ ChainOf(a) = ChainOf(h)
         /\ a.calls = h.calls
         /\ a.dying = h.dying /\ a.ref = h.ref /\ a.stored = h.stored
         /\ a.static = [h.static EXCEPT ![o] = v]
<1>1. h \in Heaps
  BY DEF Regular
<1>2. [h.static EXCEPT ![o] = v] \in [Objects -> Int]
  BY <1>1 DEF Heaps
<1>3. /\ a \in Heaps /\ SameBut(a, h) /\ a.calls = h.calls
      /\ a.dying = h.dying /\ a.ref = h.ref /\ a.stored = h.stored
      /\ a.static = [h.static EXCEPT ![o] = v]
  BY <1>1, <1>2 DEF SetStatic, Heaps, SameBut, SameList
<1> QED
  BY <1>3, SameRegular DEF SameBut

(***************************************************************************)
(* The list, whatever the searches answer.                                 *)
(***************************************************************************)
FitCalls(q, phase) ==
    \A i \in DOMAIN q : /\ q[i].op \in AddOps => phase = "idle" /\ i = Len(q)
                        /\ q[i].op = "collect" => phase = "handle"

LEMMA PushFits ==
  ASSUME NEW q \in Seq(Frames), NEW phase, FitCalls(q, phase), NEW o \in Objects,
         NEW r, r = q \/ r = <<[op |-> "release", obj |-> o]>> \o q
  PROVE  FitCalls(r, phase)
<1>1. CASE r = q
  BY <1>1
<1>2. CASE r = <<[op |-> "release", obj |-> o]>> \o q
  <2>1. [op |-> "release", obj |-> o] \in Frames
    BY DEF Frames, Ops
  <2>2. /\ r \in Seq(Frames) /\ Len(r) = Len(q) + 1
        /\ r[1] = [op |-> "release", obj |-> o] /\ \A i \in 1 .. Len(q) : r[i + 1] = q[i]
    BY <1>2, <2>1, PushCall
  <2> SUFFICES ASSUME NEW i \in DOMAIN r
               PROVE  /\ r[i].op \in AddOps => phase = "idle" /\ i = Len(r)
                      /\ r[i].op = "collect" => phase = "handle"
    BY DEF FitCalls
  <2>3. CASE i = 1
    BY <2>2, <2>3 DEF AddOps
  <2>4. CASE i # 1
    <3>1. i \in 2 .. Len(q) + 1 /\ Len(q) \in Nat /\ DOMAIN q = 1 .. Len(q)
      BY <2>2, <2>4
    <3>2. i - 1 \in DOMAIN q /\ r[i] = q[i - 1]
      <4>1. i - 1 \in 1 .. Len(q) /\ (i - 1) + 1 = i
        BY <3>1
      <4> QED
        BY <4>1, <2>2, <3>1
    <3> QED
      BY <3>1, <3>2, <2>2 DEF FitCalls
  <2> QED
    BY <2>3, <2>4
<1> QED
  BY <1>1, <1>2

LEMMA PopFits ==
  ASSUME NEW q \in Seq(Frames), q # <<>>, NEW phase, FitCalls(q, phase)
  PROVE  FitCalls(Tail(q), phase)
<1>1. /\ Tail(q) \in Seq(Frames) /\ Len(Tail(q)) = Len(q) - 1 /\ Len(q) \in Nat \ {0}
      /\ \A i \in 1 .. Len(q) - 1 : Tail(q)[i] = q[i + 1]
  BY PopCall
<1> SUFFICES ASSUME NEW i \in DOMAIN Tail(q)
             PROVE  /\ Tail(q)[i].op \in AddOps => phase = "idle" /\ i = Len(Tail(q))
                    /\ Tail(q)[i].op = "collect" => phase = "handle"
  BY DEF FitCalls
<1>2. i \in 1 .. Len(q) - 1 /\ i + 1 \in DOMAIN q /\ Tail(q)[i] = q[i + 1]
  BY <1>1
<1> QED
  BY <1>1, <1>2 DEF FitCalls

LEMMA ListParts ==
  /\ ListInv => /\ Regular(heap) /\ FitCalls(heap.calls, gc.phase) /\ Types
                /\ gc.next # NoObject => gc.next \in Chain
                /\ gc.phase = "idle" => gc.next = NoObject
  /\ Regular(heap) /\ FitCalls(heap.calls, gc.phase) /\ Types
       /\ (gc.next # NoObject => gc.next \in Chain) /\ (gc.phase = "idle" => gc.next = NoObject)
       => ListInv
  BY DEF ListInv, ListLinked, Regular, FitCalls, CallsFit, Types, Chain

\* A step that takes nothing from the list and leaves the collection where it is.
LEMMA ListStep ==
  ASSUME ListInv, Regular(heap'), FitCalls(heap'.calls, gc.phase), UNCHANGED gc,
         held' \in [Objects -> Nat], statics' \in [Statics -> Maybe],
         gc.next # NoObject => gc.next \in ChainOf(heap')
  PROVE  ListInv'
<1>1. Types /\ (gc.phase = "idle" => gc.next = NoObject)
  BY ListParts
<1>2. Types'
  BY <1>1 DEF Types, Regular
<1> QED
  BY <1>1, <1>2 DEF ListInv, ListLinked, Regular, FitCalls, CallsFit, Chain

LEMMA ListInit == Init => ListInv
<1> SUFFICES ASSUME Init PROVE ListInv
  OBVIOUS
<1>1. heap = EmptyHeap /\ held = [o \in Objects |-> 0] /\ statics = [v \in Statics |-> NoObject] /\ gc = Idle
  BY DEF Init
<1>2. NoObject \in Maybe /\ NoObject \notin Objects
  BY ObjectsAssumption DEF Maybe
<1>3. EmptyHeap \in Heaps
  <2>1. [o \in Objects |-> [s \in 1 .. Slots |-> NoObject]] \in [Objects -> [1 .. Slots -> Maybe]]
    BY <1>2
  <2>2. <<>> \in Seq(Frames)
    OBVIOUS
  <2> QED
    BY <1>2, <2>1, <2>2 DEF EmptyHeap, Heaps
<1>4. Types
  BY <1>1, <1>2, <1>3 DEF Types, Idle, Phases
<1>5. /\ \A o \in Objects : heap.next[o] = NoObject /\ heap.prev[o] = NoObject /\ ~heap.marked[o]
      /\ heap.first = NoObject /\ heap.last = NoObject /\ heap.calls = <<>>
      /\ gc.next = NoObject
  BY <1>1 DEF EmptyHeap, Idle
<1>6. ChainOf(heap) = {}
  BY <1>5, <1>2 DEF ChainOf, Listed
<1>7. CallsFit
  BY <1>5 DEF CallsFit
<1>8. Connected(heap)
  BY <1>5 DEF Connected
<1>9. Linked(heap)
  BY <1>5, <1>6 DEF Linked
<1> QED
  BY <1>4, <1>5, <1>7, <1>8, <1>9 DEF ListInv, ListLinked

\* The calls in progress.
LEMMA ListCalls ==
  ASSUME ListInv, CallStep
  PROVE  ListInv'
<1>1. /\ Regular(heap) /\ FitCalls(heap.calls, gc.phase) /\ Types
      /\ gc.next # NoObject => gc.next \in Chain
      /\ gc.phase = "idle" => gc.next = NoObject
  BY ListParts
<1>2. heap \in Heaps /\ heap.calls \in Seq(Frames) /\ heap.calls # <<>>
  BY <1>1 DEF Regular, Heaps, CallStep, DestroyVariable, Destroyed, AddNewValue, Busy
<1>3. Innermost \in Frames /\ Innermost = heap.calls[1] /\ Innermost.obj \in Objects /\ 1 \in DOMAIN heap.calls
  <2>1. /\ Tail(heap.calls) \in Seq(Frames) /\ Len(Tail(heap.calls)) = Len(heap.calls) - 1
        /\ Len(heap.calls) \in Nat \ {0}
        /\ Head(heap.calls) = heap.calls[1] /\ Head(heap.calls) \in Frames
        /\ \A i \in 1 .. Len(heap.calls) - 1 : Tail(heap.calls)[i] = heap.calls[i + 1]
    BY <1>2, PopCall
  <2>2. DOMAIN heap.calls = 1 .. Len(heap.calls)
    BY <1>2
  <2>3. Innermost \in Frames /\ Innermost = heap.calls[1]
    BY <2>1 DEF Innermost
  <2> QED
    BY <2>1, <2>2, <2>3 DEF Frames
<1>4. held' \in [Objects -> Nat] /\ statics' \in [Statics -> Maybe] /\ UNCHANGED gc
  BY <1>1 DEF CallStep, DestroyVariable, Destroyed, AddNewValue, Types
<1>5. CASE DestroyVariable
  <2> DEFINE o == Innermost.obj
  <2>0. PICK s \in Filled(o) : heap' = removeStoredMember([heap EXCEPT !.member[o][s] = NoObject], heap.member[o][s])
    BY <1>5 DEF DestroyVariable
  <2> DEFINE m == heap.member[o][s]
             b == [heap EXCEPT !.member[o][s] = NoObject]
  <2>1. s \in 1 .. Slots /\ m \in Objects /\ o \in Objects
    <3>1. o \in Objects
      BY <1>3
    <3> HIDE DEF o
    <3>2. s \in 1 .. Slots /\ m # NoObject
      BY DEF Filled
    <3>3. heap.member[o][s] \in Maybe
      <4>1. heap.member \in [Objects -> [1 .. Slots -> Maybe]]
        BY <1>2 DEF Heaps
      <4> QED
        BY <3>1, <3>2, <4>1
    <3> QED
      BY <3>1, <3>2, <3>3 DEF Maybe
  <2>2. heap' = removeStoredMember(b, m)
    BY <2>0
  <2> HIDE DEF m, o
  <2>3. b \in Heaps /\ SameList(b, heap) /\ b.marked = heap.marked /\ b.calls = heap.calls
    <3>1. NoObject \in Maybe
      BY DEF Maybe
    <3>2. /\ b \in Heaps /\ SameList(b, heap) /\ b.marked = heap.marked /\ b.calls = heap.calls
          /\ b.live = heap.live /\ b.deleted = heap.deleted /\ b.dying = heap.dying
          /\ b.constant = heap.constant
          /\ b.ref = heap.ref /\ b.stored = heap.stored /\ b.static = heap.static
          /\ b.member = [heap.member EXCEPT ![o] = [@ EXCEPT ![s] = NoObject]]
      <4>1. b = SetMember(heap, o, s, NoObject)
        BY DEF SetMember
      <4>2. heap \in Heaps /\ o \in Objects /\ s \in 1 .. Slots
        BY <1>2, <2>1
      <4> HIDE DEF b, o, m
      <4> QED
        BY <4>1, <4>2, <3>1, ClearedMember
    <3> QED
      BY <3>2
  <2> HIDE DEF b
  <2>4. Regular(b) /\ ChainOf(b) = Chain
    BY <1>1, <2>3, SameRegular DEF Chain
  <2>5. /\ Regular(heap') /\ Grown(heap', b)
        /\ heap'.calls = b.calls \/ heap'.calls = <<[op |-> "release", obj |-> m]>> \o b.calls
    BY <2>1, <2>2, <2>4, RemovedCalls
  <2>6. FitCalls(heap'.calls, gc.phase)
    BY <2>1, <2>3, <2>5, <1>1, <1>2, PushFits
  <2>7. gc.next # NoObject => gc.next \in ChainOf(heap')
    BY <2>4, <2>5, <1>1 DEF Grown
  <2> QED
    BY <2>5, <2>6, <2>7, <1>4, ListStep
<1>6. CASE Destroyed
  <2> DEFINE b == Return(heap)
             o == Innermost.obj
  <2>1. /\ Regular(b) /\ Grown(b, heap) /\ SameBut(b, heap) /\ ChainOf(b) = ChainOf(heap)
        /\ b.dying = heap.dying /\ b.ref = heap.ref /\ b.stored = heap.stored /\ b.static = heap.static
        /\ b.calls = Tail(heap.calls)
    BY <1>1, <1>2, ReturnRegular
  <2>2. heap' = Released(b, o) \/ heap' = Mark(b, o)
    BY <1>6 DEF Destroyed
  <2> HIDE DEF b, o
  <2>3. o \in Objects
    BY <1>3 DEF o
  <2>4. Regular(heap') /\ ChainOf(b) \subseteq ChainOf(heap') /\ heap'.calls = b.calls
    <3>1. CASE heap' = Released(b, o)
      <4>1. Regular(heap') /\ Grown(heap', b) /\ ChainOf(heap') = ChainOf(b) /\ Gone(heap', b, o)
        BY <3>1, <2>1, <2>3, ReleasedRegular
      <4> QED
        BY <4>1 DEF Gone
    <3>2. CASE heap' = Mark(b, o)
      <4>1. /\ Regular(heap') /\ Grown(heap', b) /\ Counts(heap', b)
            /\ heap'.marked = [b.marked EXCEPT ![o] = TRUE] /\ ChainOf(heap') = ChainOf(b) \cup {o}
        BY <3>2, <2>1, <2>3, MarkRegular
      <4> QED
        BY <4>1 DEF Counts
    <3> QED
      BY <2>2, <3>1, <3>2
  <2>5. FitCalls(heap'.calls, gc.phase)
    BY <2>1, <2>4, <1>1, <1>2, PopFits
  <2> QED
    BY <2>1, <2>4, <2>5, <1>1, <1>4, ListStep DEF Chain
<1>7. CASE AddNewValue
  <2> DEFINE b == Return(heap)
             o == Innermost.obj
             a == addStoredMember(b, o)
  <2>1. /\ Regular(b) /\ Grown(b, heap) /\ SameBut(b, heap) /\ ChainOf(b) = ChainOf(heap)
        /\ b.dying = heap.dying /\ b.ref = heap.ref /\ b.stored = heap.stored /\ b.static = heap.static
        /\ b.calls = Tail(heap.calls)
    BY <1>1, <1>2, ReturnRegular
  <2>2. heap' = a \/ heap' = [a EXCEPT !.static[o] = @ + 1]
    BY <1>7 DEF AddNewValue
  <2>3. gc.phase = "idle"
    BY <1>1, <1>3, <1>7 DEF AddNewValue, FitCalls, AddOps
  <2> HIDE DEF b
  <2>4. Regular(a) /\ (a.calls = b.calls \/ a.calls = <<[op |-> "release", obj |-> o]>> \o b.calls)
    BY <2>1, <1>3, AddedCalls
  <2> HIDE DEF a, o
  <2>5. Regular(heap') /\ heap'.calls = a.calls
    <3>1. CASE heap' = a
      BY <3>1, <2>4
    <3>2. CASE heap' = [a EXCEPT !.static[o] = @ + 1]
      <4>1. /\ Regular(heap') /\ Grown(heap', a) /\ SameBut(heap', a) /\ ChainOf(heap') = ChainOf(a)
            /\ heap'.calls = a.calls
            /\ heap'.dying = a.dying /\ heap'.ref = a.ref /\ heap'.stored = a.stored
            /\ heap'.static = [a.static EXCEPT ![o] = @ + 1]
        <5>1. a.static[o] + 1 \in Int /\ o \in Objects
          BY <2>4, <1>3 DEF Regular, Heaps, o
        <5>2. heap' = SetStatic(a, o, a.static[o] + 1)
          BY <3>2 DEF SetStatic
        <5> QED
          BY <5>1, <5>2, <2>4, StaticSet
      <4> QED
        BY <4>1
    <3> QED
      BY <2>2, <3>1, <3>2
  <2>6. FitCalls(b.calls, gc.phase) /\ b.calls \in Seq(Frames)
    BY <2>1, <1>1, <1>2, PopFits, PopCall
  <2>7. FitCalls(heap'.calls, gc.phase)
    BY <2>4, <2>5, <2>6, <1>3, PushFits DEF o
  <2> QED
    BY <2>3, <2>5, <2>7, <1>1, <1>4, ListStep
<1> QED
  BY <1>5, <1>6, <1>7 DEF CallStep

LEMMA AddFits ==
  ASSUME NEW op \in AddOps, NEW o \in Objects, NEW q, q = <<[op |-> op, obj |-> o]>> \o <<>>
  PROVE  FitCalls(q, "idle")
<1>1. q = <<[op |-> op, obj |-> o]>>
  BY DEF AddOps
<1> QED
  BY <1>1 DEF FitCalls, AddOps

LEMMA RemovedList ==
  ASSUME NEW h, Regular(h), NEW m \in Maybe, NEW a, a = Removed(h, m) \/ a = RemovedStatic(h, m),
         NEW phase, FitCalls(h.calls, phase)
  PROVE  Regular(a) /\ FitCalls(a.calls, phase)
<1>1. CASE m = NoObject
  BY <1>1 DEF Removed, RemovedStatic
<1>2. CASE m # NoObject
  <2>1. m \in Objects /\ h.calls \in Seq(Frames)
    BY <1>2 DEF Maybe, Regular, Heaps
  <2> DEFINE b == SetStatic(h, m, h.static[m] - 1)
  <2>2. Regular(b) /\ b.calls = h.calls
    <3>1. h.static[m] - 1 \in Int
      BY <2>1 DEF Regular, Heaps
    <3>2. /\ Regular(b) /\ Grown(b, h) /\ SameBut(b, h) /\ ChainOf(b) = ChainOf(h)
          /\ b.calls = h.calls
          /\ b.dying = h.dying /\ b.ref = h.ref /\ b.stored = h.stored
          /\ b.static = [h.static EXCEPT ![m] = h.static[m] - 1]
      BY <2>1, <3>1, StaticSet
    <3> QED
      BY <3>2
  <2>3. a = removeStoredMember(h, m) \/ a = removeStoredMember(b, m)
    BY <1>2 DEF Removed, RemovedStatic, SetStatic
  <2> HIDE DEF b
  <2>4. Regular(a) /\ (a.calls = h.calls \/ a.calls = <<[op |-> "release", obj |-> m]>> \o h.calls)
    <3>1. CASE a = removeStoredMember(h, m)
      BY <3>1, <2>1, RemovedCalls
    <3>2. CASE a = removeStoredMember(b, m)
      BY <3>2, <2>1, <2>2, RemovedCalls
    <3> QED
      BY <2>3, <3>1, <3>2
  <2> QED
    BY <2>1, <2>4, PushFits
<1> QED
  BY <1>1, <1>2

NewObject(h, o) == [h EXCEPT !.live[o] = TRUE, !.ref[o] = 1, !.stored[o] = 0, !.static[o] = 0]
Created(a, h, o) ==
    /\ a.live = [h.live EXCEPT ![o] = TRUE] /\ a.ref = [h.ref EXCEPT ![o] = 1]
    /\ a.stored = [h.stored EXCEPT ![o] = 0] /\ a.static = [h.static EXCEPT ![o] = 0]
    /\ a.dying = h.dying /\ a.deleted = h.deleted /\ a.constant = h.constant
    /\ a.member = h.member /\ a.marked = h.marked /\ a.calls = h.calls /\ SameList(a, h)
LEMMA NewRegular ==
  ASSUME NEW h, Regular(h), NEW o \in Objects, NEW a, a = NewObject(h, o)
  PROVE  Regular(a) /\ Grown(a, h) /\ ChainOf(a) = ChainOf(h) /\ Created(a, h, o)
<1>0. h \in Heaps
  BY DEF Regular
<1>1. /\ [h.live EXCEPT ![o] = TRUE] \in [Objects -> BOOLEAN] /\ [h.ref EXCEPT ![o] = 1] \in [Objects -> Int]
      /\ [h.stored EXCEPT ![o] = 0] \in [Objects -> Int] /\ [h.static EXCEPT ![o] = 0] \in [Objects -> Int]
  BY <1>0 DEF Heaps
<1>2. /\ a \in Heaps /\ SameList(a, h)
      /\ a.live = [h.live EXCEPT ![o] = TRUE] /\ a.ref = [h.ref EXCEPT ![o] = 1]
      /\ a.stored = [h.stored EXCEPT ![o] = 0] /\ a.static = [h.static EXCEPT ![o] = 0]
      /\ a.dying = h.dying /\ a.deleted = h.deleted /\ a.constant = h.constant
      /\ a.member = h.member /\ a.marked = h.marked /\ a.calls = h.calls
  BY <1>0, <1>1 DEF NewObject, Heaps, SameList
<1> QED
  BY <1>2, SameRegular DEF Created

LEMMA StackTypes ==
  ASSUME held \in [Objects -> Nat], NEW o \in Objects, Pushed(o) \/ Popped(o)
  PROVE  held' \in [Objects -> Nat]
  BY DEF Pushed, Popped

\* The scripts.
LEMMA ListScript ==
  ASSUME ListInv, Script
  PROVE  ListInv'
<1>1. /\ Regular(heap) /\ FitCalls(heap.calls, gc.phase) /\ Types
      /\ gc.next # NoObject => gc.next \in Chain
      /\ gc.phase = "idle" => gc.next = NoObject
  BY ListParts
<1>2. heap \in Heaps /\ heap.calls = <<>> /\ gc.phase = "idle" /\ UNCHANGED gc /\ gc.next = NoObject
  BY <1>1 DEF Regular, Script, New, Load, Drop, Store, Clear, StoreStatic, ClearStatic, Running, Busy
<1>3. /\ held \in [Objects -> Nat] /\ statics \in [Statics -> Maybe]
      /\ heap.member \in [Objects -> [1 .. Slots -> Maybe]] /\ NoObject \in Maybe /\ Objects \subseteq Maybe
  BY <1>1, <1>2 DEF Types, Heaps, Maybe
<1> SUFFICES /\ Regular(heap') /\ FitCalls(heap'.calls, gc.phase)
             /\ held' \in [Objects -> Nat] /\ statics' \in [Statics -> Maybe]
  BY <1>2, ListStep
<1>4. ASSUME NEW o \in Objects, New(o)
      PROVE  /\ Regular(heap') /\ FitCalls(heap'.calls, gc.phase)
             /\ held' \in [Objects -> Nat] /\ statics' \in [Statics -> Maybe]
  <2>1. heap' = NewObject(heap, o)
    BY <1>4 DEF New, NewObject
  <2>2. Regular(heap') /\ heap'.calls = heap.calls
    <3>1. Regular(heap') /\ Grown(heap', heap) /\ ChainOf(heap') = ChainOf(heap) /\ Created(heap', heap, o)
      BY <2>1, <1>1, NewRegular
    <3> QED
      BY <3>1 DEF Created
  <2> QED
    BY <2>2, <1>1, <1>3, <1>4, StackTypes DEF New
<1>5. ASSUME NEW o \in Objects, Load(o)
      PROVE  /\ Regular(heap') /\ FitCalls(heap'.calls, gc.phase)
             /\ held' \in [Objects -> Nat] /\ statics' \in [Statics -> Maybe]
  <2>1. heap' = incRef(heap, o)
    BY <1>5 DEF Load
  <2>2. /\ Regular(heap') /\ Grown(heap', heap) /\ SameBut(heap', heap) /\ ChainOf(heap') = ChainOf(heap)
        /\ heap'.dying = heap.dying /\ heap'.stored = heap.stored /\ heap'.static = heap.static
        /\ heap'.calls = heap.calls
        /\ heap'.ref = IF heap.constant[o] THEN heap.ref ELSE [heap.ref EXCEPT ![o] = @ + 1]
    BY <2>1, <1>1, IncRefRegular
  <2> QED
    BY <2>2, <1>1, <1>3, <1>5, StackTypes DEF Load
<1>6. ASSUME NEW o \in Objects, Drop(o)
      PROVE  /\ Regular(heap') /\ FitCalls(heap'.calls, gc.phase)
             /\ held' \in [Objects -> Nat] /\ statics' \in [Statics -> Maybe]
  <2>1. heap' = decRef(heap, o) \/ heap' = decRefAndGCCheck(heap, o)
    BY <1>6 DEF Drop
  <2>2. /\ Regular(heap')
        /\ heap'.calls = heap.calls \/ heap'.calls = <<[op |-> "release", obj |-> o]>> \o heap.calls
    <3>1. CASE heap' = decRef(heap, o)
      BY <3>1, <1>1, DecRefCalls
    <3>2. CASE heap' = decRefAndGCCheck(heap, o)
      BY <3>2, <1>1, CheckRegular
    <3> QED
      BY <2>1, <3>1, <3>2
  <2>3. FitCalls(heap'.calls, gc.phase)
    BY <2>2, <1>1, <1>2, PushFits DEF Heaps
  <2> QED
    BY <2>2, <2>3, <1>3, <1>6, StackTypes DEF Drop
<1>7. ASSUME NEW p \in Objects, NEW o \in Objects, NEW s \in 1 .. Slots, Store(p, s, o)
      PROVE  /\ Regular(heap') /\ FitCalls(heap'.calls, gc.phase)
             /\ held' \in [Objects -> Nat] /\ statics' \in [Statics -> Maybe]
  <2> DEFINE b == SetMember(heap, p, s, o)
             c == Call(b, "add", o)
  <2>1. heap' = Removed(c, heap.member[p][s])
    BY <1>7 DEF Store, SetMember
  <2>2. Regular(b) /\ b.calls = heap.calls
    <3>1. /\ b \in Heaps /\ SameList(b, heap) /\ b.marked = heap.marked /\ b.calls = heap.calls
          /\ b.live = heap.live /\ b.deleted = heap.deleted /\ b.dying = heap.dying
          /\ b.constant = heap.constant
          /\ b.ref = heap.ref /\ b.stored = heap.stored /\ b.static = heap.static
          /\ b.member = [heap.member EXCEPT ![p] = [@ EXCEPT ![s] = o]]
      BY <1>2, <1>3, ClearedMember
    <3> QED
      BY <3>1, <1>1, SameRegular
  <2> HIDE DEF b
  <2>3. Regular(c) /\ c.calls = <<[op |-> "add", obj |-> o]>> \o b.calls
    BY <2>2, CallRegular DEF Ops
  <2> HIDE DEF c
  <2>4. FitCalls(c.calls, gc.phase)
    BY <2>2, <2>3, <1>2, AddFits DEF AddOps
  <2>5. Regular(heap') /\ FitCalls(heap'.calls, gc.phase)
    <3> DEFINE m == heap.member[p][s]
    <3>1. m \in Maybe /\ heap' = Removed(c, m) /\ Regular(c) /\ FitCalls(c.calls, gc.phase)
      BY <1>3, <2>1, <2>3, <2>4
    <3> HIDE DEF m
    <3> QED
      BY <3>1, RemovedList
  <2> QED
    BY <2>5, <1>3, <1>7, StackTypes DEF Store
<1>8. ASSUME NEW p \in Objects, NEW s \in 1 .. Slots, Clear(p, s)
      PROVE  /\ Regular(heap') /\ FitCalls(heap'.calls, gc.phase)
             /\ held' \in [Objects -> Nat] /\ statics' \in [Statics -> Maybe]
  <2> DEFINE b == SetMember(heap, p, s, NoObject)
  <2>1. heap' = Removed(b, heap.member[p][s])
    BY <1>8 DEF Clear, SetMember
  <2>2. Regular(b) /\ b.calls = heap.calls
    <3>1. /\ b \in Heaps /\ SameList(b, heap) /\ b.marked = heap.marked /\ b.calls = heap.calls
          /\ b.live = heap.live /\ b.deleted = heap.deleted /\ b.dying = heap.dying
          /\ b.constant = heap.constant
          /\ b.ref = heap.ref /\ b.stored = heap.stored /\ b.static = heap.static
          /\ b.member = [heap.member EXCEPT ![p] = [@ EXCEPT ![s] = NoObject]]
      BY <1>2, <1>3, ClearedMember
    <3> QED
      BY <3>1, <1>1, SameRegular
  <2> HIDE DEF b
  <2>5. Regular(heap') /\ FitCalls(heap'.calls, gc.phase)
    <3>1. heap.member[p][s] \in Maybe
      BY <1>3
    <3> QED
      BY <2>1, <2>2, <3>1, <1>1, RemovedList
  <2> QED
    BY <2>5, <1>3, <1>8 DEF Clear
<1>9. ASSUME NEW v \in Statics, NEW o \in Objects, StoreStatic(v, o)
      PROVE  /\ Regular(heap') /\ FitCalls(heap'.calls, gc.phase)
             /\ held' \in [Objects -> Nat] /\ statics' \in [Statics -> Maybe]
  <2> DEFINE c == Call(heap, "addStatic", o)
  <2>1. heap' = RemovedStatic(c, statics[v])
    BY <1>9 DEF StoreStatic
  <2>3. Regular(c) /\ c.calls = <<[op |-> "addStatic", obj |-> o]>> \o heap.calls
    BY <1>1, CallRegular DEF Ops
  <2> HIDE DEF c
  <2>4. FitCalls(c.calls, gc.phase)
    BY <2>3, <1>2, AddFits DEF AddOps
  <2>5. Regular(heap') /\ FitCalls(heap'.calls, gc.phase)
    BY <2>1, <2>3, <2>4, <1>3, RemovedList
  <2> QED
    BY <2>5, <1>3, <1>9, StackTypes DEF StoreStatic
<1>10. ASSUME NEW v \in Statics, ClearStatic(v)
      PROVE  /\ Regular(heap') /\ FitCalls(heap'.calls, gc.phase)
             /\ held' \in [Objects -> Nat] /\ statics' \in [Statics -> Maybe]
  <2>1. heap' = RemovedStatic(heap, statics[v])
    BY <1>10 DEF ClearStatic
  <2>5. Regular(heap') /\ FitCalls(heap'.calls, gc.phase)
    BY <2>1, <1>1, <1>3, RemovedList
  <2> QED
    BY <2>5, <1>3, <1>10 DEF ClearStatic
<1> QED
  BY <1>4, <1>5, <1>6, <1>7, <1>8, <1>9, <1>10 DEF Script

LEMMA CollectFrames ==
  ASSUME NEW q \in Seq(Objects)
  PROVE  [i \in DOMAIN q |-> [op |-> "collect", obj |-> q[i]]] \in Seq(Frames)
<1>1. Len(q) \in Nat /\ DOMAIN q = 1 .. Len(q)
  OBVIOUS
<1>2. \A i \in 1 .. Len(q) : [op |-> "collect", obj |-> q[i]] \in Frames
  BY DEF Frames, Ops
<1>3. [i \in DOMAIN q |-> [op |-> "collect", obj |-> q[i]]] \in [1 .. Len(q) -> Frames]
  BY <1>1, <1>2
<1> QED
  BY <1>1, <1>3

\* The collection.
LEMMA HandleRegular ==
  ASSUME NEW h, Regular(h), h.calls = <<>>, NEW o \in Objects,
         Searched(h, o) => Search(h, o) \in Answers, NEW a, a = handleGarbageCollection(h, o)
  PROVE  Regular(a) /\ Grown(a, h) /\ FitCalls(a.calls, "handle")
<1>1. FitCalls(h.calls, "handle") /\ h.calls \in Seq(Frames)
  BY DEF FitCalls, Regular, Heaps
<1>2. CASE a = h
  BY <1>1, <1>2 DEF Grown
<1>3. CASE a = decRef(h, o)
  <2>1. /\ Regular(a) /\ Grown(a, h)
        /\ a.calls = h.calls \/ a.calls = <<[op |-> "release", obj |-> o]>> \o h.calls
    BY <1>3, DecRefCalls
  <2> QED
    BY <2>1, <1>1, PushFits
<1>4. CASE a = addObjectToGarbageCollector(h, o)
  <2>1. /\ Regular(a) /\ Grown(a, h) /\ Counts(a, h) /\ a.marked = h.marked
        /\ ChainOf(a) = ChainOf(h) \cup {o}
    BY <1>4, AddRegular
  <2> QED
    BY <2>1, <1>1 DEF Counts
<1>5. CASE Searched(h, o) /\ a = Delete(h, Append(Search(h, o).found, o))
  <2> DEFINE q == Append(Search(h, o).found, o)
  <2>1. q \in Seq(Objects)
    BY <1>5 DEF Answers
  <2>2. a = Delete(h, q)
    BY <1>5
  <2> HIDE DEF q
  <2>3. Regular(a) /\ Grown(a, h) /\ ChainOf(a) = ChainOf(h) /\ Deleted(a, h, q)
    BY <2>1, <2>2, DeleteRegular
  <2>4. a.calls = [i \in DOMAIN q |-> [op |-> "collect", obj |-> q[i]]] \o <<>>
    BY <2>3 DEF Deleted
  <2>5. a.calls = [i \in DOMAIN q |-> [op |-> "collect", obj |-> q[i]]]
    <3>1. DOMAIN q = 1 .. Len(q) /\ Len(q) \in Nat
      BY <2>1
    <3>2. [i \in DOMAIN q |-> [op |-> "collect", obj |-> q[i]]] \in Seq(Frames)
      BY <2>1, CollectFrames
    <3> QED
      BY <2>4, <3>2
  <2>6. \A i \in DOMAIN a.calls : a.calls[i].op = "collect"
    BY <2>5
  <2> QED
    BY <2>3, <2>6 DEF FitCalls, AddOps
<1> QED
  BY <1>2, <1>3, <1>4, <1>5 DEF handleGarbageCollection, Decide

LEMMA ListCollection ==
  ASSUME ListInv, Collection, SearchAnswers
  PROVE  ListInv'
<1>1. /\ Regular(heap) /\ FitCalls(heap.calls, gc.phase) /\ Types
      /\ gc.next # NoObject => gc.next \in Chain
      /\ gc.phase = "idle" => gc.next = NoObject
  BY ListParts
<1>2. heap \in Heaps /\ heap.calls = <<>> /\ UNCHANGED <<held, statics>> /\ NoObject \notin Objects
  BY <1>1, ObjectsAssumption DEF Regular, Collection, Begin, SkipCandidate, HandleCandidate, HandleAgain,
     ReleaseNext, End, At, AtEnd, Busy
<1>3. \A o \in Chain : /\ o \in Objects
                       /\ heap.next[o] # NoObject => heap.next[o] \in Chain /\ heap.next[o] # o
  BY <1>1, NextOther DEF Regular, Chain, ChainOf
<1>4. heap.first # NoObject => heap.first \in Chain
  BY <1>2 DEF Chain, ChainOf, Listed, Heaps, Maybe
<1>5. gc \in [phase : Phases, next : Maybe, collected : BOOLEAN, due : SUBSET Objects] /\ Chain \subseteq Maybe
      /\ NoObject \in Maybe
  BY <1>1 DEF Types, Chain, ChainOf, Maybe
\* A step of the collection is described by where it comes to.
<1>6. ASSUME Regular(heap'), FitCalls(heap'.calls, gc'.phase),
             gc' \in [phase : Phases, next : Maybe, collected : BOOLEAN, due : SUBSET Objects],
             gc'.next # NoObject => gc'.next \in ChainOf(heap'), gc'.phase = "idle" => gc'.next = NoObject
      PROVE  ListInv'
  <2>1. Types'
    BY <1>1, <1>2, <1>6 DEF Types, Regular
  <2> QED
    BY <2>1, <1>6 DEF ListInv, ListLinked, Regular, FitCalls, CallsFit, Chain
<1>7. UNCHANGED heap => Regular(heap') /\ \A phase : FitCalls(heap'.calls, phase)
  BY <1>1, <1>2 DEF FitCalls
<1>8. CASE Begin
  <2>1. UNCHANGED heap /\ heap.first \in Chain
        /\ gc' = [phase |-> "handle", next |-> heap.first, collected |-> FALSE, due |-> DueNow]
    BY <1>4, <1>8 DEF Begin
  <2>2. DueNow \in SUBSET Objects
    BY <1>3 DEF DueNow
  <2>3. gc' \in [phase : Phases, next : Maybe, collected : BOOLEAN, due : SUBSET Objects]
    BY <2>1, <2>2, <1>5 DEF Phases
  <2> QED
    BY <2>1, <2>3, <1>6, <1>7 DEF Chain
<1>9. CASE SkipCandidate
  <2>1. UNCHANGED heap /\ gc.phase = "handle" /\ gc.next \in Chain /\ gc' = [gc EXCEPT !.next = heap.next[gc.next]]
    BY <1>1, <1>9 DEF SkipCandidate, At, Candidate
  <2>2. heap.next[gc.next] \in Chain \cup {NoObject}
    BY <2>1, <1>3
  <2>3. gc'.next = heap.next[gc.next] /\ gc'.phase = "handle"
        /\ gc' \in [phase : Phases, next : Maybe, collected : BOOLEAN, due : SUBSET Objects]
    BY <2>1, <2>2, <1>5
  <2> QED
    BY <2>1, <2>2, <2>3, <1>6, <1>7 DEF Chain
<1>10. CASE HandleCandidate
  <2> DEFINE c == gc.next
             t == RemoveCandidate(heap, c)
             n == heap.next[c]
  <2>1. /\ c \in ChainOf(heap) /\ c \in Objects /\ gc.phase = "handle"
        /\ heap' = handleGarbageCollection(t, c)
        /\ gc' = [gc EXCEPT !.next = n, !.collected = @ \/ heap'.deleted[c]]
    BY <1>1, <1>3, <1>10 DEF HandleCandidate, At, Candidate, Taken, Chain
  <2>2. Searched(t, c) => Search(t, c) \in Answers
    BY <1>10 DEF HandleCandidate, SearchAnswers, SearchesNow, Taken, Candidate
  <2>3. n \in Chain \cup {NoObject} /\ n # c
    BY <2>1, <1>2, <1>3 DEF Chain
  <2> HIDE DEF c, n, t
  <2>4. /\ Regular(t) /\ Counts(t, heap) /\ t.marked = [heap.marked EXCEPT ![c] = FALSE]
        /\ ChainOf(t) = ChainOf(heap) \ {c}
        /\ \A x \in Objects : x # c => Ahead(heap, x) \ {c} \subseteq Ahead(t, x)
        /\ heap.next[c] # NoObject => Ahead(heap, c) \ {c} \subseteq Ahead(t, heap.next[c])
    BY <2>1, <1>1, RemoveRegular DEF t
  <2>5. t.calls = <<>>
    BY <2>4, <1>2 DEF Counts
  <2>6. Regular(heap') /\ Grown(heap', t) /\ FitCalls(heap'.calls, "handle")
    BY <2>1, <2>2, <2>4, <2>5, HandleRegular
  <2>7. heap'.deleted[c] \in BOOLEAN
    BY <2>1, <2>6 DEF Regular, Heaps
  <2>8. gc'.next = n /\ gc'.phase = "handle"
        /\ gc' \in [phase : Phases, next : Maybe, collected : BOOLEAN, due : SUBSET Objects]
    BY <2>1, <2>3, <2>7, <1>5
  <2>9. n # NoObject => n \in ChainOf(heap')
    BY <2>3, <2>4, <2>6 DEF Grown, Chain
  <2> QED
    BY <2>6, <2>8, <2>9, <1>6
<1>11. CASE HandleAgain
  <2>1. UNCHANGED heap /\ gc'.next = heap.first /\ gc'.phase \in {"handle", "release"}
    BY <1>5, <1>11 DEF HandleAgain, AtEnd
  <2>2. gc' \in [phase : Phases, next : Maybe, collected : BOOLEAN, due : SUBSET Objects]
    BY <1>2, <1>5, <1>11 DEF HandleAgain, Phases, Heaps
  <2> QED
    BY <2>1, <2>2, <1>4, <1>6, <1>7 DEF Chain
<1>12. CASE ReleaseNext
  <2> DEFINE c == gc.next
             n == heap.next[c]
  <2>1. /\ c \in ChainOf(heap) /\ c \in Objects /\ gc.phase = "release"
        /\ heap' = IF heap.deleted[c] THEN ReleaseOne(heap, c) ELSE heap
        /\ gc' = [gc EXCEPT !.next = n]
    BY <1>1, <1>3, <1>12 DEF ReleaseNext, At, Candidate, Chain
  <2>3. n \in Chain \cup {NoObject} /\ n # c
    BY <2>1, <1>2, <1>3 DEF Chain
  <2> HIDE DEF c, n
  <2>4. /\ Regular(heap') /\ ChainOf(heap) \ {c} \subseteq ChainOf(heap')
        /\ heap'.calls = heap.calls \/ heap'.calls = <<[op |-> "release", obj |-> c]>> \o heap.calls
    <3>1. CASE heap' = heap
      BY <3>1, <1>1
    <3>2. CASE heap' = ReleaseOne(heap, c)
      <4>1. Regular(heap') /\ Freed(heap', heap, c)
        BY <3>2, <2>1, <1>1, ReleaseRegular
      <4> QED
        BY <4>1 DEF Freed
    <3> QED
      BY <2>1, <3>1, <3>2
  <2>5. FitCalls(heap'.calls, gc.phase)
    <3>1. heap.calls \in Seq(Frames)
      BY <1>2 DEF Heaps
    <3> QED
      BY <3>1, <2>1, <2>4, <1>1, PushFits
  <2>8. gc'.next = n /\ gc'.phase = "release" /\ gc.phase = "release"
        /\ gc' \in [phase : Phases, next : Maybe, collected : BOOLEAN, due : SUBSET Objects]
    BY <2>1, <2>3, <1>5
  <2> QED
    BY <2>3, <2>4, <2>5, <2>8, <1>6 DEF Chain
<1>13. CASE End
  <2>1. UNCHANGED heap /\ gc' = Idle
    BY <1>13 DEF End
  <2> QED
    BY <2>1, <1>5, <1>6, <1>7 DEF Idle, Phases
<1> QED
  BY <1>8, <1>9, <1>10, <1>11, <1>12, <1>13 DEF Collection

LEMMA ListStutter == ListInv /\ UNCHANGED vars => ListInv'
  BY DEF ListInv, vars, Types, ListLinked, Chain, CallsFit

\* As long as a search answers with a list of objects, the list of candidates is
\* one chain from gcStart to gcEnd, every marked object is in it, and the
\* successor that ASWorker::processGarbageCollection has read is in it when it
\* comes to it, although the releases in between add candidates.
THEOREM ListIsLinked == Spec /\ []SearchAnswers => []ListLinked
<1>1. ListInv /\ SearchAnswers /\ [Next]_vars => ListInv'
  BY ListScript, ListCalls, ListCollection, ListStutter DEF Next
<1>2. ListInv => ListLinked
  BY DEF ListInv
<1> QED
  BY <1>1, <1>2, ListInit, PTL DEF Spec

(***************************************************************************)
(* Who is in which call, and who refers to whom.                           *)
(***************************************************************************)
Frame(op, o) == [op |-> op, obj |-> o]

LEMMA FrameIn ==
  /\ \A op \in Ops, o \in Objects : Frame(op, o) \in Frames /\ Frame(op, o).op = op /\ Frame(op, o).obj = o
  /\ \A f \in Frames : f.op \in Ops /\ f.obj \in Objects /\ f = Frame(f.op, f.obj)
  /\ \A op1, op2, o1, o2 : Frame(op1, o1) = Frame(op2, o2) <=> op1 = op2 /\ o1 = o2
<1>1. \A op \in Ops, o \in Objects : Frame(op, o) \in Frames /\ Frame(op, o).op = op /\ Frame(op, o).obj = o
  BY DEF Frame, Frames
<1>2. \A f \in Frames : f.op \in Ops /\ f.obj \in Objects /\ f = Frame(f.op, f.obj)
  BY DEF Frame, Frames
<1>3. ASSUME NEW op1, NEW op2, NEW o1, NEW o2
      PROVE  Frame(op1, o1) = Frame(op2, o2) <=> op1 = op2 /\ o1 = o2
  <2>1. /\ Frame(op1, o1).op = op1 /\ Frame(op2, o2).op = op2
        /\ Frame(op1, o1).obj = o1 /\ Frame(op2, o2).obj = o2
    BY DEF Frame
  <2> QED
    BY <2>1
<1> QED
  BY <1>1, <1>2, <1>3

LEMMA PushWithin ==
  ASSUME NEW q \in Seq(Frames), NEW f \in Frames, NEW r, r = <<f>> \o q
  PROVE  /\ \A op, o : Within(r, op, o) <=> f = Frame(op, o) \/ Within(q, op, o)
         /\ Unique(q) /\ (\A i \in DOMAIN q : q[i] # f) => Unique(r)
<1>1. /\ r \in Seq(Frames) /\ Len(r) = Len(q) + 1
      /\ r[1] = f /\ \A i \in 1 .. Len(q) : r[i + 1] = q[i]
  BY PushCall
<1>2. DOMAIN r = 1 .. Len(q) + 1 /\ DOMAIN q = 1 .. Len(q) /\ Len(q) \in Nat
  BY <1>1
<1>3. \A i \in DOMAIN r : i = 1 \/ (i - 1 \in DOMAIN q /\ r[i] = q[i - 1])
  <2> SUFFICES ASSUME NEW i \in DOMAIN r, i # 1 PROVE i - 1 \in DOMAIN q /\ r[i] = q[i - 1]
    OBVIOUS
  <2>1. i - 1 \in 1 .. Len(q) /\ (i - 1) + 1 = i
    BY <1>2
  <2>2. r[(i - 1) + 1] = q[i - 1]
    BY <2>1, <1>1
  <2> QED
    BY <2>1, <2>2, <1>2
<1>4. 1 \in DOMAIN r /\ \A i \in DOMAIN q : i + 1 \in DOMAIN r /\ r[i + 1] = q[i]
  BY <1>1, <1>2
<1>5. ASSUME NEW op, NEW o PROVE Within(r, op, o) <=> f = Frame(op, o) \/ Within(q, op, o)
  <2>1. ASSUME NEW i \in DOMAIN r, r[i] = Frame(op, o) PROVE f = Frame(op, o) \/ Within(q, op, o)
    BY <2>1, <1>1, <1>3 DEF Within, Frame
  <2>2. ASSUME NEW i \in DOMAIN q, q[i] = Frame(op, o) PROVE Within(r, op, o)
    BY <2>2, <1>4 DEF Within, Frame
  <2>3. f = Frame(op, o) => Within(r, op, o)
    BY <1>1, <1>4 DEF Within, Frame
  <2> QED
    BY <2>1, <2>2, <2>3 DEF Within, Frame
<1>6. ASSUME Unique(q), \A i \in DOMAIN q : q[i] # f PROVE Unique(r)
  <2> SUFFICES ASSUME NEW i \in DOMAIN r, NEW k \in DOMAIN r, r[i] = r[k] PROVE i = k
    BY DEF Unique
  <2>1. i \in 1 .. Len(q) + 1 /\ k \in 1 .. Len(q) + 1
    BY <1>2
  <2>2. CASE i = 1
    BY <2>2, <1>1, <1>3, <1>6
  <2>3. CASE k = 1
    BY <2>3, <1>1, <1>3, <1>6
  <2>4. CASE i # 1 /\ k # 1
    <3>1. i - 1 \in DOMAIN q /\ k - 1 \in DOMAIN q /\ q[i - 1] = q[k - 1]
      BY <2>4, <1>3
    <3>2. i - 1 = k - 1
      BY <3>1, <1>6 DEF Unique
    <3> QED
      BY <3>2, <2>1
  <2> QED
    BY <2>2, <2>3, <2>4
<1> QED
  BY <1>5, <1>6

LEMMA PopWithin ==
  ASSUME NEW q \in Seq(Frames), q # <<>>, Unique(q)
  PROVE  /\ \A op, o : Within(Tail(q), op, o) <=> Within(q, op, o) /\ Head(q) # Frame(op, o)
         /\ Unique(Tail(q))
<1>1. /\ Tail(q) \in Seq(Frames) /\ Len(Tail(q)) = Len(q) - 1 /\ Len(q) \in Nat \ {0}
      /\ Head(q) = q[1] /\ Head(q) \in Frames
      /\ \A i \in 1 .. Len(q) - 1 : Tail(q)[i] = q[i + 1]
  BY PopCall
<1>2. DOMAIN Tail(q) = 1 .. Len(q) - 1 /\ DOMAIN q = 1 .. Len(q) /\ 1 \in DOMAIN q
  BY <1>1
<1>3. \A i \in DOMAIN Tail(q) : i + 1 \in DOMAIN q /\ i + 1 # 1 /\ Tail(q)[i] = q[i + 1]
  BY <1>1, <1>2
<1>4. \A i \in DOMAIN q : i # 1 => i - 1 \in DOMAIN Tail(q) /\ Tail(q)[i - 1] = q[i]
  <2> SUFFICES ASSUME NEW i \in DOMAIN q, i # 1 PROVE i - 1 \in DOMAIN Tail(q) /\ Tail(q)[i - 1] = q[i]
    OBVIOUS
  <2>1. i - 1 \in 1 .. Len(q) - 1 /\ (i - 1) + 1 = i
    BY <1>1, <1>2
  <2> QED
    BY <2>1, <1>1, <1>2
<1>5. ASSUME NEW op, NEW o PROVE Within(Tail(q), op, o) <=> Within(q, op, o) /\ Head(q) # Frame(op, o)
  <2>1. ASSUME NEW i \in DOMAIN Tail(q), Tail(q)[i] = Frame(op, o)
        PROVE  Within(q, op, o) /\ Head(q) # Frame(op, o)
    <3>1. q[i + 1] = Frame(op, o) /\ i + 1 \in DOMAIN q /\ i + 1 # 1
      BY <2>1, <1>3
    <3>2. q[1] # Frame(op, o)
      BY <3>1, <1>2 DEF Unique
    <3> QED
      BY <3>1, <3>2, <1>1 DEF Within, Frame
  <2>2. ASSUME NEW i \in DOMAIN q, q[i] = Frame(op, o), Head(q) # Frame(op, o)
        PROVE  Within(Tail(q), op, o)
    <3>1. i # 1
      BY <2>2, <1>1
    <3> QED
      BY <3>1, <2>2, <1>4 DEF Within, Frame
  <2> QED
    BY <2>1, <2>2 DEF Within, Frame
<1>6. Unique(Tail(q))
  <2> SUFFICES ASSUME NEW i \in DOMAIN Tail(q), NEW k \in DOMAIN Tail(q), Tail(q)[i] = Tail(q)[k] PROVE i = k
    BY DEF Unique
  <2>1. i + 1 = k + 1
    BY <1>3 DEF Unique
  <2> QED
    BY <2>1, <1>2
<1> QED
  BY <1>5, <1>6

LEMMA CountRefs ==
  ASSUME NEW M \in SUBSET (Objects \X (1 .. Slots)), NEW V \in SUBSET Statics
  PROVE  /\ IsFiniteSet(M) /\ IsFiniteSet(V) /\ Cardinality(M) \in Nat /\ Cardinality(V) \in Nat
         /\ Cardinality(M) + Cardinality(V) = 0 <=> M = {} /\ V = {}
         /\ Cardinality(V) = 0 <=> V = {}
<1>1. IsFiniteSet(Objects) /\ IsFiniteSet(1 .. Slots) /\ IsFiniteSet(Statics)
  BY ObjectsAssumption, SlotsAssumption, FS_Interval
<1>2. IsFiniteSet(M) /\ IsFiniteSet(V)
  BY <1>1, FS_Product, FS_Subset
<1>3. Cardinality(M) \in Nat /\ Cardinality(V) \in Nat
  BY <1>2, FS_CardinalityType
<1>4. (Cardinality(M) = 0 <=> M = {}) /\ (Cardinality(V) = 0 <=> V = {})
  BY <1>2, FS_EmptySet
<1> QED
  BY <1>2, <1>3, <1>4

LEMMA RefSets ==
  /\ \A o : MemberRefs(o) \in SUBSET (Objects \X (1 .. Slots)) /\ StaticRefs(o) \in SUBSET Statics
  /\ \A o : MemberRefs(o)' \in SUBSET (Objects \X (1 .. Slots)) /\ StaticRefs(o)' \in SUBSET Statics
  BY DEF MemberRefs, StaticRefs

\* The number of variables that refer to an object, and its change.
LEMMA StoredCount ==
  /\ \A o : Stored(o) \in Nat /\ Cardinality(StaticRefs(o)) \in Nat
            /\ (Stored(o) = 0 <=> MemberRefs(o) = {} /\ StaticRefs(o) = {})
            /\ (Cardinality(StaticRefs(o)) = 0 <=> StaticRefs(o) = {})
  /\ \A o : Stored(o)' \in Nat /\ Cardinality(StaticRefs(o)') \in Nat
            /\ (Stored(o)' = 0 <=> MemberRefs(o)' = {} /\ StaticRefs(o)' = {})
            /\ (Cardinality(StaticRefs(o)') = 0 <=> StaticRefs(o)' = {})
<1>1. ASSUME NEW o
      PROVE  Stored(o) \in Nat /\ Cardinality(StaticRefs(o)) \in Nat
             /\ (Stored(o) = 0 <=> MemberRefs(o) = {} /\ StaticRefs(o) = {})
             /\ (Cardinality(StaticRefs(o)) = 0 <=> StaticRefs(o) = {})
  <2>1. MemberRefs(o) \in SUBSET (Objects \X (1 .. Slots)) /\ StaticRefs(o) \in SUBSET Statics
    BY RefSets
  <2> QED
    BY <2>1, CountRefs DEF Stored
<1>2. ASSUME NEW o
      PROVE  Stored(o)' \in Nat /\ Cardinality(StaticRefs(o)') \in Nat
             /\ (Stored(o)' = 0 <=> MemberRefs(o)' = {} /\ StaticRefs(o)' = {})
             /\ (Cardinality(StaticRefs(o)') = 0 <=> StaticRefs(o)' = {})
  <2>1. MemberRefs(o)' \in SUBSET (Objects \X (1 .. Slots)) /\ StaticRefs(o)' \in SUBSET Statics
    BY RefSets
  <2>2. Stored(o)' = Cardinality(MemberRefs(o)') + Cardinality(StaticRefs(o)')
    BY DEF Stored
  <2> QED
    BY <2>1, <2>2, CountRefs
<1> QED
  BY <1>1, <1>2

LEMMA MemberChange ==
  ASSUME heap \in Heaps, NEW p \in Objects, NEW s \in 1 .. Slots, NEW v \in Maybe,
         heap'.member = [heap.member EXCEPT ![p] = [@ EXCEPT ![s] = v]], NEW x \in Objects
  PROVE  /\ MemberRefs(x)' = IF v = x THEN MemberRefs(x) \cup {<<p, s>>} ELSE MemberRefs(x) \ {<<p, s>>}
         /\ <<p, s>> \in MemberRefs(x) <=> heap.member[p][s] = x
         /\ Cardinality(MemberRefs(x)') = Cardinality(MemberRefs(x))
              + One(v = x) - One(heap.member[p][s] = x)
<1>1. /\ heap.member \in [Objects -> [1 .. Slots -> Maybe]]
      /\ \A r \in Objects, t \in 1 .. Slots :
           heap'.member[r][t] = IF r = p /\ t = s THEN v ELSE heap.member[r][t]
  <2>1. heap.member \in [Objects -> [1 .. Slots -> Maybe]]
    BY DEF Heaps
  <2>2. ASSUME NEW r \in Objects, NEW t \in 1 .. Slots
        PROVE  heap'.member[r][t] = IF r = p /\ t = s THEN v ELSE heap.member[r][t]
    <3>1. CASE r = p
      <4>1. heap'.member[r] = [heap.member[p] EXCEPT ![s] = v]
        BY <3>1, <2>1
      <4>2. heap.member[p] \in [1 .. Slots -> Maybe]
        BY <2>1
      <4> QED
        BY <3>1, <4>1, <4>2
    <3>2. CASE r # p
      BY <3>2, <2>1
    <3> QED
      BY <3>1, <3>2
  <2> QED
    BY <2>1, <2>2
<1>2. \A r \in Objects \X (1 .. Slots) : r = <<r[1], r[2]>> /\ r[1] \in Objects /\ r[2] \in 1 .. Slots
  OBVIOUS
<1>3. \A r \in Objects \X (1 .. Slots) :
        heap'.member[r[1]][r[2]] = IF r = <<p, s>> THEN v ELSE heap.member[r[1]][r[2]]
  BY <1>1, <1>2
<1>4. <<p, s>> \in Objects \X (1 .. Slots) /\ <<p, s>>[1] = p /\ <<p, s>>[2] = s
  OBVIOUS
<1>5. MemberRefs(x)' = {r \in Objects \X (1 .. Slots) : heap'.member[r[1]][r[2]] = x}
  BY DEF MemberRefs
<1>6. <<p, s>> \in MemberRefs(x) <=> heap.member[p][s] = x
  BY <1>4 DEF MemberRefs
<1>7. MemberRefs(x)' = IF v = x THEN MemberRefs(x) \cup {<<p, s>>} ELSE MemberRefs(x) \ {<<p, s>>}
  BY <1>3, <1>4, <1>5 DEF MemberRefs
<1>8. IsFiniteSet(MemberRefs(x)) /\ Cardinality(MemberRefs(x)) \in Nat
  BY RefSets, CountRefs
<1>9. Cardinality(MemberRefs(x)') = Cardinality(MemberRefs(x)) + One(v = x) - One(heap.member[p][s] = x)
  <2>1. CASE v = x
    <3>1. Cardinality(MemberRefs(x) \cup {<<p, s>>}) =
            IF <<p, s>> \in MemberRefs(x) THEN Cardinality(MemberRefs(x)) ELSE Cardinality(MemberRefs(x)) + 1
      BY <1>8, FS_AddElement
    <3>2. MemberRefs(x)' = MemberRefs(x) \cup {<<p, s>>} /\ One(v = x) = 1
      BY <2>1, <1>7 DEF One
    <3>3. One(heap.member[p][s] = x) = IF <<p, s>> \in MemberRefs(x) THEN 1 ELSE 0
      BY <1>6 DEF One
    <3> QED
      BY <3>1, <3>2, <3>3, <1>8
  <2>2. CASE v # x
    <3>1. Cardinality(MemberRefs(x) \ {<<p, s>>}) =
            IF <<p, s>> \in MemberRefs(x) THEN Cardinality(MemberRefs(x)) - 1 ELSE Cardinality(MemberRefs(x))
      BY <1>8, FS_RemoveElement
    <3>2. MemberRefs(x)' = MemberRefs(x) \ {<<p, s>>} /\ One(v = x) = 0
      BY <2>2, <1>7 DEF One
    <3>3. One(heap.member[p][s] = x) = IF <<p, s>> \in MemberRefs(x) THEN 1 ELSE 0
      BY <1>6 DEF One
    <3> QED
      BY <3>1, <3>2, <3>3, <1>8
  <2> QED
    BY <2>1, <2>2
<1> QED
  BY <1>6, <1>7, <1>9

ClassSet(u, v) == statics' = [statics EXCEPT ![u] = v]
LEMMA StaticChange ==
  ASSUME statics \in [Statics -> Maybe], NEW u \in Statics, NEW v \in Maybe,
         ClassSet(u, v), NEW x \in Objects
  PROVE  /\ StaticRefs(x)' = IF v = x THEN StaticRefs(x) \cup {u} ELSE StaticRefs(x) \ {u}
         /\ u \in StaticRefs(x) <=> statics[u] = x
         /\ Cardinality(StaticRefs(x)') = Cardinality(StaticRefs(x)) + One(v = x) - One(statics[u] = x)
<1>1. \A r \in Statics : statics'[r] = IF r = u THEN v ELSE statics[r]
  BY DEF ClassSet
<1>5. StaticRefs(x)' = {r \in Statics : statics'[r] = x}
  BY DEF StaticRefs
<1>6. u \in StaticRefs(x) <=> statics[u] = x
  BY DEF StaticRefs
<1>7. StaticRefs(x)' = IF v = x THEN StaticRefs(x) \cup {u} ELSE StaticRefs(x) \ {u}
  BY <1>1, <1>5 DEF StaticRefs
<1>8. IsFiniteSet(StaticRefs(x)) /\ Cardinality(StaticRefs(x)) \in Nat
  BY RefSets, CountRefs
<1>9. Cardinality(StaticRefs(x)') = Cardinality(StaticRefs(x)) + One(v = x) - One(statics[u] = x)
  <2>1. CASE v = x
    <3>1. Cardinality(StaticRefs(x) \cup {u}) =
            IF u \in StaticRefs(x) THEN Cardinality(StaticRefs(x)) ELSE Cardinality(StaticRefs(x)) + 1
      BY <1>8, FS_AddElement
    <3>2. StaticRefs(x)' = StaticRefs(x) \cup {u} /\ One(v = x) = 1
      BY <2>1, <1>7 DEF One
    <3>3. One(statics[u] = x) = IF u \in StaticRefs(x) THEN 1 ELSE 0
      BY <1>6 DEF One
    <3> QED
      BY <3>1, <3>2, <3>3, <1>8
  <2>2. CASE v # x
    <3>1. Cardinality(StaticRefs(x) \ {u}) =
            IF u \in StaticRefs(x) THEN Cardinality(StaticRefs(x)) - 1 ELSE Cardinality(StaticRefs(x))
      BY <1>8, FS_RemoveElement
    <3>2. StaticRefs(x)' = StaticRefs(x) \ {u} /\ One(v = x) = 0
      BY <2>2, <1>7 DEF One
    <3>3. One(statics[u] = x) = IF u \in StaticRefs(x) THEN 1 ELSE 0
      BY <1>6 DEF One
    <3> QED
      BY <3>1, <3>2, <3>3, <1>8
  <2> QED
    BY <2>1, <2>2
<1> QED
  BY <1>6, <1>7, <1>9

(***************************************************************************)
(* The state of an object in a step.                                       *)
(***************************************************************************)
\* A step that leaves the object, its references and its calls alone.
Same(x) ==
    /\ heap'.live[x] = heap.live[x] /\ heap'.dying[x] = heap.dying[x]
    /\ heap'.constant[x] = heap.constant[x] /\ heap'.deleted[x] = heap.deleted[x]
    /\ heap'.stored[x] = heap.stored[x] /\ heap'.static[x] = heap.static[x] /\ heap'.ref[x] = heap.ref[x]
    /\ heap.constant[x] /\ heap.marked[x] => heap'.marked[x]
    /\ Listed(heap', x) <=> Listed(heap, x)
    /\ MemberRefs(x)' = MemberRefs(x) /\ StaticRefs(x)' = StaticRefs(x) /\ held'[x] = held[x]
    /\ \A op \in Ops : In(op, x)' <=> In(op, x)

LEMMA SameAccount ==
  ASSUME NEW x \in Objects, Account(x), Same(x), Good(x) \/ Filled(x)' \subseteq Filled(x),
         \A p \in Objects, s \in 1 .. Slots :
           heap.member[p][s] = x /\ In("collect", p) => In("collect", p)'
  PROVE  Account(x)'
<1>1. Stored(x)' = Stored(x)
  BY DEF Same, Stored
<1>2. /\ In("add", x)' <=> In("add", x)
      /\ In("addStatic", x)' <=> In("addStatic", x)
      /\ In("release", x)' <=> In("release", x)
      /\ In("collect", x)' <=> In("collect", x)
  BY DEF Same, Ops
<1>3. One(Adding(x))' = One(Adding(x)) /\ One(In("addStatic", x))' = One(In("addStatic", x))
      /\ One(Listed(heap, x))' = One(Listed(heap, x)) /\ Refs(x)' = Refs(x)
  BY <1>1, <1>2 DEF Same, One, Adding, Refs
<1>4. CASE Good(x)
  <2>1. /\ heap'.live[x] /\ ~heap'.dying[x] /\ ~heap'.constant[x] /\ ~heap'.deleted[x]
    BY <1>4 DEF Good, Plain, Same
  <2>2. heap'.stored[x] = Stored(x)' - One(Adding(x))'
    BY <1>4, <1>1, <1>3 DEF Good, Same
  <2>3. heap'.static[x] = Cardinality(StaticRefs(x)') - One(In("addStatic", x))'
    BY <1>4, <1>3 DEF Good, Same
  <2>4. heap'.ref[x] = Refs(x)' + One(Listed(heap, x))'
    BY <1>4, <1>3 DEF Good, Same
  <2> QED
    BY <2>1, <2>2, <2>3, <2>4 DEF Account, Good, Plain
<1>5. CASE Dead(x)
  <2>1. ~Good(x)
    BY <1>5 DEF Dead, Good
  <2>2. Filled(x)' = {}
    BY <2>1, <1>5 DEF Dead
  <2>3. Unused(x)'
    BY <1>5 DEF Dead, Unused, Same
  <2> QED
    BY <2>2, <2>3, <1>5 DEF Account, Dead, Plain, Same
<1>6. CASE Dying(x)
  <2>1. Unused(x)'
    BY <1>6 DEF Dying, Unused, Same
  <2> QED
    BY <2>1, <1>2, <1>6 DEF Account, Dying, Plain, Same
<1>7. CASE Condemned(x)
  <2>1. ~Good(x)
    BY <1>7 DEF Condemned, Good, Plain
  <2>2. /\ heap'.live[x] /\ ~heap'.dying[x] /\ heap'.constant[x] /\ heap'.deleted[x]
        /\ held'[x] = 0 /\ StaticRefs(x)' = {}
    BY <1>7 DEF Condemned, Same
  <2>3. ASSUME NEW p \in Objects, NEW s \in 1 .. Slots, heap'.member[p][s] = x PROVE In("collect", p)'
    <3>1. <<p, s>> \in MemberRefs(x)'
      BY <2>3 DEF MemberRefs
    <3>2. <<p, s>> \in MemberRefs(x)
      BY <3>1 DEF Same
    <3>3. heap.member[p][s] = x
      BY <3>2 DEF MemberRefs
    <3> QED
      BY <3>3, <1>7 DEF Condemned
  <2>4. In("collect", x)' \/ (Listed(heap', x) /\ heap'.marked[x] /\ Filled(x)' = {})
    <3>1. CASE In("collect", x)
      BY <3>1, <1>2
    <3>2. CASE ~In("collect", x)
      BY <3>2, <1>2, <1>7, <2>1 DEF Condemned, Same
    <3> QED
      BY <3>1, <3>2
  <2>5. In("collect", x)' => ~Listed(heap', x)
    BY <1>2, <1>7 DEF Condemned, Same
  <2> QED
    BY <2>2, <2>3, <2>4, <2>5 DEF Account, Condemned
<1> QED
  BY <1>4, <1>5, <1>6, <1>7 DEF Account

\* removeStoredMember of an object in use, whose counts h still has while one
\* variable does not refer to it any more: they are exact afterwards, or the
\* object dies.
Exact(h, o, q) ==
    /\ h.live[o] /\ ~h.dying[o] /\ ~h.constant[o] /\ ~h.deleted[o]
    /\ h.stored[o] = Stored(o)' + 1 - One(Within(q, "add", o) \/ Within(q, "addStatic", o))
    /\ h.static[o] = Cardinality(StaticRefs(o)') - One(Within(q, "addStatic", o))
    /\ h.ref[o] = Stored(o)' + 1 + held'[o] + One(Listed(h, o))
    /\ Within(q, "add", o) \/ Within(q, "addStatic", o) => Stored(o)' > 0

LEMMA RemovedAccount ==
  ASSUME NEW h, Regular(h), NEW o \in Objects, Exact(h, o, h.calls), heap' = removeStoredMember(h, o),
         held'[o] \in Nat
  PROVE  /\ Regular(heap') /\ Unstored(heap', h, o)
         /\ Good(o)' \/ Dying(o)'
         /\ \/ heap'.calls = h.calls
            \/ heap'.calls = <<Frame("release", o)>> \o h.calls /\ heap'.dying[o]
<1>1. Regular(heap') /\ Unstored(heap', h, o)
  BY RemoveStoredRegular
<1>2. h \in Heaps /\ heap' \in Heaps /\ ~Frozen(h, o) /\ h.calls \in Seq(Frames)
  BY <1>1 DEF Regular, Exact, Frozen, Heaps
<1>3. /\ Stored(o)' \in Nat /\ Cardinality(StaticRefs(o)') \in Nat
      /\ Stored(o)' = 0 <=> MemberRefs(o)' = {} /\ StaticRefs(o)' = {}
  BY StoredCount
<1> DEFINE S == Stored(o)'
           H == held'[o]
           A == One(Within(h.calls, "add", o) \/ Within(h.calls, "addStatic", o))
           L == One(Listed(h, o))
<1>4. /\ h.stored[o] = S + 1 - A /\ h.ref[o] = S + 1 + H + L
      /\ A \in {0, 1} /\ L \in {0, 1} /\ (A = 1 => S > 0) /\ H \in Nat /\ S \in Nat
  BY <1>3 DEF Exact, One
<1>5. /\ heap'.live[o] /\ ~heap'.constant[o] /\ ~heap'.deleted[o]
      /\ heap'.stored[o] = h.stored[o] - 1 /\ heap'.static[o] = h.static[o]
  BY <1>1, <1>2 DEF Unstored, Exact, Heaps
<1>6. Frame("release", o) \in Frames /\ \A f \in {"add", "addStatic"} : Frame("release", o) # Frame(f, o)
  BY FrameIn DEF Ops
<1>7. (Listed(h, o) <=> o \in ChainOf(h)) /\ (Listed(heap', o) <=> o \in ChainOf(heap'))
  BY DEF ChainOf
<1>8. CASE NewCandidate(h, o)
  <2>1. h.ref[o] = h.stored[o]
    BY <1>8 DEF NewCandidate
  <2>2. H = 0 /\ L = 0 /\ A = 0
    BY <2>1, <1>4
  <2> HIDE DEF S, H, A, L
  <2>3. heap'.calls = h.calls /\ heap'.ref = h.ref /\ heap'.dying = h.dying /\ o \in ChainOf(heap')
    BY <1>1, <1>2, <1>8 DEF Unstored
  <2>4. One(Listed(heap, o))' = 1
    BY <2>3, <1>7 DEF One
  <2>5. One(Adding(o))' = A /\ One(In("addStatic", o))' = One(Within(h.calls, "addStatic", o))
    BY <2>3 DEF Adding, In, A
  <2>6. ~heap'.dying[o] /\ heap'.ref[o] = S + H + 1 /\ heap'.stored[o] = S - A
    BY <2>2, <2>3, <1>4, <1>5 DEF Exact
  <2>7. heap'.static[o] = Cardinality(StaticRefs(o)') - One(In("addStatic", o))'
    BY <1>5, <2>5 DEF Exact
  <2> QED
    <3>1. heap'.ref[o] = Refs(o)' + One(Listed(heap, o))'
      BY <2>2, <2>4, <2>6 DEF Refs, S, H
    <3>2. heap'.stored[o] = Stored(o)' - One(Adding(o))'
      BY <2>5, <2>6 DEF S
    <3>3. Good(o)'
      BY <1>5, <2>6, <2>7, <3>1, <3>2 DEF Good, Plain
    <3> QED
      BY <1>1, <2>3, <3>3
<1>9. CASE ~NewCandidate(h, o) /\ h.ref[o] # 1
  <2> HIDE DEF S, H, A, L
  <2>1. /\ heap'.calls = h.calls /\ heap'.ref = [h.ref EXCEPT ![o] = @ - 1] /\ heap'.dying = h.dying
        /\ ChainOf(heap') = ChainOf(h)
    BY <1>1, <1>2, <1>9 DEF Unstored
  <2>2. heap'.ref[o] = h.ref[o] - 1
    BY <2>1, <1>2 DEF Heaps
  <2>4. One(Listed(heap, o))' = L
    BY <2>1, <1>7 DEF One, L
  <2>5. One(Adding(o))' = A /\ One(In("addStatic", o))' = One(Within(h.calls, "addStatic", o))
    BY <2>1 DEF Adding, In, A
  <2>6. ~heap'.dying[o] /\ heap'.ref[o] = S + H + L /\ heap'.stored[o] = S - A
    BY <2>1, <2>2, <1>4, <1>5 DEF Exact
  <2>7. heap'.static[o] = Cardinality(StaticRefs(o)') - One(In("addStatic", o))'
    BY <1>5, <2>5 DEF Exact
  <2> QED
    <3>1. heap'.ref[o] = Refs(o)' + One(Listed(heap, o))'
      BY <2>4, <2>6 DEF Refs, S, H
    <3>2. heap'.stored[o] = Stored(o)' - One(Adding(o))'
      BY <2>5, <2>6 DEF S
    <3>3. Good(o)'
      BY <1>5, <2>6, <2>7, <3>1, <3>2 DEF Good, Plain
    <3> QED
      BY <1>1, <2>1, <3>3
<1>10. CASE ~NewCandidate(h, o) /\ h.ref[o] = 1
  <2>1. S = 0 /\ H = 0 /\ L = 0
    BY <1>4, <1>10
  <2> HIDE DEF S, H, A, L
  <2>2. /\ heap'.calls = <<Frame("release", o)>> \o h.calls /\ heap'.ref = h.ref
        /\ heap'.dying = [h.dying EXCEPT ![o] = TRUE] /\ ChainOf(heap') = ChainOf(h)
    BY <1>1, <1>2, <1>10 DEF Unstored, Frame
  <2>3. heap'.dying[o] /\ heap'.ref[o] = 1
    BY <2>2, <1>2, <1>10 DEF Heaps
  <2>4. ~Listed(heap', o)
    BY <2>1, <2>2, <1>7 DEF L, One
  <2>5. Unused(o)'
    BY <2>1, <1>3 DEF Unused, S, H
  <2>6. In("release", o)'
    <3>1. h.calls \in Seq(Frames)
      BY <1>2 DEF Heaps
    <3>2. heap'.calls = <<Frame("release", o)>> \o h.calls
      BY <2>2
    <3>3. Within(heap'.calls, "release", o)
      BY <1>6, <3>1, <3>2, PushWithin
    <3> QED
      BY <3>3 DEF In
  <2> QED
    BY <1>1, <1>5, <2>2, <2>3, <2>4, <2>5, <2>6 DEF Dying, Plain
<1> QED
  BY <1>8, <1>9, <1>10

LEMMA UnstoredOther ==
  ASSUME NEW h, Regular(h), NEW o \in Objects, NEW a, Regular(a), Unstored(a, h, o), NEW x \in Objects, x # o
  PROVE  /\ a.live[x] = h.live[x] /\ a.dying[x] = h.dying[x]
         /\ a.constant[x] = h.constant[x] /\ a.deleted[x] = h.deleted[x]
         /\ a.stored[x] = h.stored[x] /\ a.static[x] = h.static[x] /\ a.ref[x] = h.ref[x]
         /\ a.marked[x] = h.marked[x]
         /\ Listed(a, x) <=> Listed(h, x)
<1>1. h \in Heaps
  BY DEF Regular
<1>2. (Listed(a, x) <=> x \in ChainOf(a)) /\ (Listed(h, x) <=> x \in ChainOf(h))
  BY DEF ChainOf
<1>3. CASE Frozen(h, o)
  BY <1>3 DEF Unstored
<1>4. CASE ~Frozen(h, o) /\ NewCandidate(h, o)
  BY <1>1, <1>2, <1>4 DEF Unstored, Heaps
<1>5. CASE ~Frozen(h, o) /\ ~NewCandidate(h, o)
  BY <1>1, <1>2, <1>5 DEF Unstored, Heaps
<1> QED
  BY <1>3, <1>4, <1>5

\* The calls after a removal that may have started a release.
LEMMA CallsAfter ==
  ASSUME NEW q \in Seq(Frames), Unique(q), NEW m \in Objects, ~Within(q, "release", m),
         heap'.calls = q \/ heap'.calls = <<Frame("release", m)>> \o q
  PROVE  /\ Unique(heap'.calls)
         /\ \A op, o : In(op, o)' => \/ Within(q, op, o)
                                     \/ heap'.calls # q /\ op = "release" /\ o = m
         /\ \A op, o : Within(q, op, o) => In(op, o)'
<1>1. Frame("release", m) \in Frames /\ \A op, o : Frame("release", m) = Frame(op, o) => op = "release" /\ o = m
  BY FrameIn DEF Ops
<1>2. CASE heap'.calls = q
  BY <1>2 DEF In
<1>3. CASE heap'.calls = <<Frame("release", m)>> \o q
  <2>1. \A i \in DOMAIN q : q[i] # Frame("release", m)
    BY DEF Within, Frame
  <2>2. /\ \A op, o : Within(heap'.calls, op, o) <=> Frame("release", m) = Frame(op, o) \/ Within(q, op, o)
        /\ Unique(heap'.calls)
    BY <2>1, <1>1, <1>3, PushWithin
  <2>3. heap'.calls # q
    BY <2>2, <1>1
  <2> QED
    BY <2>2, <2>3, <1>1 DEF In
<1> QED
  BY <1>2, <1>3

\* Between the operations of a script.
LEMMA ScriptState ==
  ASSUME CountInv, ~Busy, gc.phase = "idle"
  PROVE  /\ Regular(heap) /\ Types /\ heap.calls = <<>> /\ \A op, o : ~In(op, o)
         /\ \A o \in Objects : ~heap.constant[o] /\ (Good(o) \/ Dead(o))
         /\ \A o \in Objects : Good(o) =>
              /\ heap.live[o] /\ ~heap.dying[o] /\ ~heap.constant[o] /\ ~heap.deleted[o]
              /\ heap.stored[o] = Stored(o) /\ heap.static[o] = Cardinality(StaticRefs(o))
              /\ heap.ref[o] = Stored(o) + held[o] + One(Listed(heap, o))
         /\ \A o \in Objects : held[o] > 0 \/ MemberRefs(o) # {} \/ StaticRefs(o) # {} => Good(o)
<1>1. Regular(heap) /\ Types
  BY ListParts DEF CountInv
<1>2. heap.calls = <<>> /\ \A op, o : ~In(op, o)
  BY DEF Busy, In, Within
<1>3. \A o \in Objects : ~heap.constant[o]
  BY DEF CountInv, CollectionOwns
<1>4. \A o \in Objects : Good(o) \/ Dead(o)
  BY <1>2, <1>3 DEF CountInv, Account, Dying, Condemned
<1>5. ASSUME NEW o \in Objects, Good(o)
      PROVE  /\ heap.live[o] /\ ~heap.dying[o] /\ ~heap.constant[o] /\ ~heap.deleted[o]
             /\ heap.stored[o] = Stored(o) /\ heap.static[o] = Cardinality(StaticRefs(o))
             /\ heap.ref[o] = Stored(o) + held[o] + One(Listed(heap, o))
  <2>1. One(Adding(o)) = 0 /\ One(In("addStatic", o)) = 0
    BY <1>2 DEF One, Adding
  <2>2. Stored(o) \in Nat /\ Cardinality(StaticRefs(o)) \in Nat
    BY StoredCount
  <2> QED
    BY <2>1, <2>2, <1>5 DEF Good, Plain, Refs
<1>6. \A o \in Objects : held[o] > 0 \/ MemberRefs(o) # {} \/ StaticRefs(o) # {} => Good(o)
  BY <1>4 DEF Dead, Unused
<1> QED
  BY <1>1, <1>2, <1>3, <1>4, <1>5, <1>6

\* A variable gets a new value v and its old one m is removed.  h is the heap
\* with the new value, before the removal.
Prepared(op, v, m, h) ==
    /\ h.live = heap.live /\ h.dying = heap.dying /\ h.constant = heap.constant
    /\ h.deleted = heap.deleted /\ h.stored = heap.stored /\ h.ref = heap.ref
    /\ h.marked = heap.marked /\ SameList(h, heap)
    /\ h.calls = IF v = NoObject THEN <<>> ELSE <<Frame(op, v)>>
    /\ \A x \in Objects :
         h.static[x] = IF op = "addStatic" /\ x = m THEN heap.static[x] - 1 ELSE heap.static[x]
    /\ heap' = IF m = NoObject THEN h ELSE removeStoredMember(h, m)
Exchanged(op, v, m) ==
    /\ \A x \in Objects :
         /\ held'[x] = held[x] - One(x = v) /\ held[x] \in Nat /\ held'[x] \in Nat
         /\ Stored(x)' = Stored(x) + One(v = x) - One(m = x)
         /\ Cardinality(StaticRefs(x)') =
              IF op = "addStatic" THEN Cardinality(StaticRefs(x)) + One(v = x) - One(m = x)
                                  ELSE Cardinality(StaticRefs(x))
         /\ x # v /\ x # m => MemberRefs(x)' = MemberRefs(x) /\ StaticRefs(x)' = StaticRefs(x)
         /\ Good(x) \/ Filled(x)' \subseteq Filled(x)
    /\ m # NoObject => Good(m)
    /\ v # NoObject => /\ Good(v) /\ Stored(v)' > 0
                       /\ op = "add" => \E p \in Objects, s \in 1 .. Slots :
                                          held'[p] > 0 /\ heap'.member[p][s] = v
                       /\ op = "addStatic" => StaticRefs(v)' # {}
LEMMA Replaced ==
  ASSUME CountInv, ~Busy, gc.phase = "idle", UNCHANGED gc,
         NEW op \in AddOps, NEW v \in Maybe, NEW m \in Maybe, NEW h, Regular(h),
         Prepared(op, v, m, h), Exchanged(op, v, m)
  PROVE  CallsOwn' /\ CollectionOwns' /\ \A x \in Objects : Account(x)'
<1>a. /\ h.live = heap.live /\ h.dying = heap.dying /\ h.constant = heap.constant
      /\ h.deleted = heap.deleted /\ h.stored = heap.stored /\ h.ref = heap.ref
      /\ h.marked = heap.marked /\ SameList(h, heap)
      /\ h.calls = IF v = NoObject THEN <<>> ELSE <<Frame(op, v)>>
      /\ \A x \in Objects :
           h.static[x] = IF op = "addStatic" /\ x = m THEN heap.static[x] - 1 ELSE heap.static[x]
      /\ heap' = IF m = NoObject THEN h ELSE removeStoredMember(h, m)
  BY DEF Prepared
<1>b. /\ \A x \in Objects :
           /\ held'[x] = held[x] - One(x = v) /\ held[x] \in Nat /\ held'[x] \in Nat
           /\ Stored(x)' = Stored(x) + One(v = x) - One(m = x)
           /\ Cardinality(StaticRefs(x)') =
                IF op = "addStatic" THEN Cardinality(StaticRefs(x)) + One(v = x) - One(m = x)
                                    ELSE Cardinality(StaticRefs(x))
           /\ x # v /\ x # m => MemberRefs(x)' = MemberRefs(x) /\ StaticRefs(x)' = StaticRefs(x)
           /\ Good(x) \/ Filled(x)' \subseteq Filled(x)
      /\ m # NoObject => Good(m)
      /\ v # NoObject => /\ Good(v) /\ Stored(v)' > 0
                         /\ op = "add" => \E p \in Objects, s \in 1 .. Slots :
                                            held'[p] > 0 /\ heap'.member[p][s] = v
                         /\ op = "addStatic" => StaticRefs(v)' # {}
  BY DEF Exchanged
<1> USE <1>a, <1>b
<1> DEFINE q == h.calls
<1>1. /\ heap.calls = <<>> /\ (\A f, o : ~In(f, o))
      /\ \A o \in Objects : ~heap.constant[o] /\ (Good(o) \/ Dead(o))
  BY ScriptState
<1>2. \A o \in Objects : Good(o) =>
        /\ heap.live[o] /\ ~heap.dying[o] /\ ~heap.constant[o] /\ ~heap.deleted[o]
        /\ heap.stored[o] = Stored(o) /\ heap.static[o] = Cardinality(StaticRefs(o))
        /\ heap.ref[o] = Stored(o) + held[o] + One(Listed(heap, o))
  BY ScriptState
<1>3. /\ \A x \in Objects : Listed(h, x) <=> Listed(heap, x)
      /\ NoObject \notin Objects /\ (v # NoObject => v \in Objects) /\ (m # NoObject => m \in Objects)
  BY ObjectsAssumption DEF Listed, SameList, Maybe
<1>4. /\ q \in Seq(Frames) /\ Unique(q)
      /\ \A f, o : Within(q, f, o) <=> v # NoObject /\ f = op /\ o = v
  <2>1. CASE v = NoObject
    BY <2>1 DEF Unique, Within
  <2>2. CASE v # NoObject
    <3>1. q = <<Frame(op, v)>> /\ v \in Objects /\ op \in Ops
      BY <2>2, <1>3 DEF AddOps, Ops
    <3>2. \A f, o : Frame(op, v) = Frame(f, o) <=> f = op /\ o = v
      BY FrameIn
    <3>3. q \in Seq(Frames) /\ DOMAIN q = {1} /\ q[1] = Frame(op, v)
      <4>1. Frame(op, v) \in Frames
        BY <3>1, FrameIn
      <4>2. \A f \in Frames : <<f>> \in Seq(Frames) /\ DOMAIN <<f>> = {1} /\ <<f>>[1] = f
        OBVIOUS
      <4>3. PICK f \in Frames : f = Frame(op, v)
        BY <4>1
      <4>4. q = <<f>>
        BY <4>3, <3>1
      <4>5. <<f>> \in Seq(Frames) /\ DOMAIN <<f>> = {1} /\ <<f>>[1] = f
        BY <4>2
      <4> HIDE DEF q
      <4> QED
        BY <4>3, <4>4, <4>5
    <3> QED
      BY <2>2, <3>2, <3>3 DEF Unique, Within, Frame
  <2> QED
    BY <2>1, <2>2
<1> HIDE DEF q
<1>5. \A x \in Objects : Stored(x) \in Nat /\ Cardinality(StaticRefs(x)) \in Nat /\ Stored(x)' \in Nat
                         /\ Cardinality(StaticRefs(x)') \in Nat
  BY StoredCount
\* What the removal does.
<1>6. /\ Regular(heap')
      /\ m = NoObject => heap' = h
      /\ m # NoObject =>
           /\ Unstored(heap', h, m) /\ (Good(m)' \/ Dying(m)')
           /\ \/ heap'.calls = q
              \/ heap'.calls = <<Frame("release", m)>> \o q /\ heap'.dying[m]
  <2>1. CASE m = NoObject
    BY <2>1
  <2>2. CASE m # NoObject
    <3>1. m \in Objects /\ Good(m) /\ heap' = removeStoredMember(h, m) /\ held'[m] \in Nat
      BY <2>2, <1>3
    <3>2. /\ h.live[m] /\ ~h.dying[m] /\ ~h.constant[m] /\ ~h.deleted[m]
          /\ h.stored[m] = Stored(m) /\ h.ref[m] = Stored(m) + held[m] + One(Listed(h, m))
          /\ h.static[m] = IF op = "addStatic" THEN Cardinality(StaticRefs(m)) - 1 ELSE Cardinality(StaticRefs(m))
      <4>1. One(Listed(h, m)) = One(Listed(heap, m))
        BY <3>1, <1>3 DEF One
      <4>2. /\ heap.live[m] /\ ~heap.dying[m] /\ ~heap.constant[m] /\ ~heap.deleted[m]
            /\ heap.stored[m] = Stored(m) /\ heap.static[m] = Cardinality(StaticRefs(m))
            /\ heap.ref[m] = Stored(m) + held[m] + One(Listed(heap, m))
        BY <3>1, <1>2
      <4>3. h.static[m] = IF op = "addStatic" THEN heap.static[m] - 1 ELSE heap.static[m]
        BY <3>1
      <4> QED
        BY <4>1, <4>2, <4>3
    <3>3. /\ held'[m] = held[m] - One(m = v) /\ held[m] \in Nat /\ held'[m] \in Nat
          /\ Stored(m)' = Stored(m) + One(v = m) - One(m = m)
          /\ Cardinality(StaticRefs(m)') =
               IF op = "addStatic" THEN Cardinality(StaticRefs(m)) + One(v = m) - One(m = m)
                                   ELSE Cardinality(StaticRefs(m))
      BY <3>1
    <3>4. (Within(q, "add", m) \/ Within(q, "addStatic", m) <=> v = m)
          /\ (Within(q, "addStatic", m) <=> v = m /\ op = "addStatic")
      BY <1>4, <2>2 DEF AddOps
    <3>5. h.stored[m] = Stored(m)' + 1 - One(Within(q, "add", m) \/ Within(q, "addStatic", m))
      BY <3>1, <3>2, <3>3, <3>4, <1>5 DEF One
    <3>6. h.static[m] = Cardinality(StaticRefs(m)') - One(Within(q, "addStatic", m))
      BY <3>1, <3>2, <3>3, <3>4, <1>5 DEF One
    <3>7. h.ref[m] = Stored(m)' + 1 + held'[m] + One(Listed(h, m))
      <4>1. One(Listed(h, m)) \in {0, 1}
        BY DEF One
      <4>2. One(m = v) = One(v = m) /\ One(m = m) = 1 /\ One(v = m) \in {0, 1}
        BY DEF One
      <4>3. h.ref[m] = Stored(m) + held[m] + One(Listed(h, m))
        BY <3>2
      <4>4. held'[m] = held[m] - One(v = m) /\ held[m] \in Nat /\ Stored(m)' = Stored(m) + One(v = m) - 1
        BY <3>3, <4>2
      <4>5. Stored(m) \in Nat
        BY <3>1, <1>5
      <4> DEFINE S == Stored(m)
                 T == Stored(m)'
                 G == held[m]
                 K == held'[m]
                 L == One(Listed(h, m))
                 V == One(v = m)
                 R == h.ref[m]
      <4>6. L \in {0, 1} /\ V \in {0, 1} /\ S \in Nat /\ G \in Nat
        BY <4>1, <4>2, <4>4, <4>5
      <4>7. R = S + G + L /\ K = G - V /\ T = S + V - 1
        BY <4>3, <4>4
      <4> HIDE <1>a, <1>b
      <4>8. R = T + 1 + K + L
        <5> HIDE DEF S, T, G, K, L, V, R
        <5> QED
          BY <4>6, <4>7
      <4> QED
        BY <4>8
    <3>8. Exact(h, m, h.calls)
      <4>1. q = h.calls
        BY DEF q
      <4>2. /\ h.stored[m] = Stored(m)' + 1 - One(Within(h.calls, "add", m) \/ Within(h.calls, "addStatic", m))
            /\ h.static[m] = Cardinality(StaticRefs(m)') - One(Within(h.calls, "addStatic", m))
        BY <3>5, <3>6, <4>1
      <4>3. Within(h.calls, "add", m) \/ Within(h.calls, "addStatic", m) => Stored(m)' > 0
        BY <3>4, <4>1, <2>2
      <4> HIDE <1>a, <1>b
      <4> QED
        BY <3>2, <3>7, <4>2, <4>3 DEF Exact
    <3> QED
      <4>1. Regular(h) /\ m \in Objects /\ Exact(h, m, h.calls) /\ heap' = removeStoredMember(h, m) /\ held'[m] \in Nat
        BY <3>1, <3>8
      <4> HIDE <1>a, <1>b
      <4>2. /\ Regular(heap') /\ Unstored(heap', h, m)
            /\ Good(m)' \/ Dying(m)'
            /\ \/ heap'.calls = h.calls
               \/ heap'.calls = <<Frame("release", m)>> \o h.calls /\ heap'.dying[m]
        BY <4>1, RemovedAccount
      <4> QED
        BY <4>2, <2>2 DEF q
  <2> QED
    BY <2>1, <2>2
<1>7. /\ Unique(heap'.calls)
      /\ \A f, o : In(f, o)' => Within(q, f, o) \/ (f = "release" /\ o = m /\ m # NoObject /\ heap'.dying[o])
      /\ \A f, o : Within(q, f, o) => In(f, o)'
  <2>1. CASE m = NoObject \/ heap'.calls = q
    <3>1. heap'.calls = q
      BY <2>1, <1>6 DEF q
    <3> QED
      BY <3>1, <1>4 DEF In
  <2>2. CASE m # NoObject /\ heap'.calls # q
    <3>1. heap'.calls = <<Frame("release", m)>> \o q /\ heap'.dying[m] /\ m \in Objects
      BY <2>2, <1>3, <1>6
    <3>2. ~Within(q, "release", m)
      BY <1>4 DEF AddOps
    <3> QED
      BY <2>2, <3>1, <3>2, <1>4, CallsAfter
  <2> QED
    BY <2>1, <2>2
<1>8. CallsOwn'
  <2> SUFFICES ASSUME NEW o \in Objects
               PROVE  /\ In("release", o)' => heap'.dying[o]
                      /\ In("collect", o)' => heap'.constant[o]
                      /\ In("add", o)' => \E p \in Objects, s \in 1 .. Slots :
                                            held'[p] > 0 /\ heap'.member[p][s] = o
                      /\ In("addStatic", o)' => StaticRefs(o)' # {}
    BY <1>7 DEF CallsOwn
  <2> QED
    BY <1>4, <1>7 DEF AddOps
<1>9. heap'.constant = heap.constant
  BY <1>6 DEF Unstored
<1>10. CollectionOwns'
  BY <1>1, <1>9 DEF CollectionOwns
<1>11. ASSUME NEW x \in Objects PROVE Account(x)'
  <2>1. CASE x = m
    BY <2>1, <1>3, <1>6 DEF Account
  <2>2. CASE x # m
    <3>1. /\ heap'.live[x] = heap.live[x] /\ heap'.dying[x] = heap.dying[x]
          /\ heap'.constant[x] = heap.constant[x] /\ heap'.deleted[x] = heap.deleted[x]
          /\ heap'.stored[x] = heap.stored[x] /\ heap'.static[x] = heap.static[x]
          /\ heap'.ref[x] = heap.ref[x]
          /\ heap'.marked[x] = heap.marked[x]
          /\ Listed(heap', x) <=> Listed(heap, x)
      <4>1. h.static[x] = heap.static[x]
        <5>1. heap.static[x] \in Int
          BY DEF CountInv, ListInv, Types, Heaps
        <5> QED
          BY <2>2, <5>1 DEF One
      <4>2. CASE m = NoObject
        BY <4>1, <4>2, <1>3, <1>6
      <4>3. CASE m # NoObject
        <5>1. /\ heap'.live[x] = h.live[x] /\ heap'.dying[x] = h.dying[x]
              /\ heap'.constant[x] = h.constant[x] /\ heap'.deleted[x] = h.deleted[x]
              /\ heap'.stored[x] = h.stored[x] /\ heap'.static[x] = h.static[x] /\ heap'.ref[x] = h.ref[x]
              /\ heap'.marked[x] = h.marked[x]
              /\ Listed(heap', x) <=> Listed(h, x)
          BY <2>2, <4>3, <1>3, <1>6, UnstoredOther
        <5> QED
          BY <4>1, <5>1, <1>3
      <4> QED
        BY <4>2, <4>3
    <3>2. CASE x = v
      <4>1. Good(x) /\ v # NoObject
        BY <3>2, <1>3
      <4>2. /\ held'[x] = held[x] - One(x = v) /\ held[x] \in Nat
            /\ Stored(x)' = Stored(x) + One(v = x) - One(m = x)
            /\ Cardinality(StaticRefs(x)') =
                 IF op = "addStatic" THEN Cardinality(StaticRefs(x)) + One(v = x) - One(m = x)
                                     ELSE Cardinality(StaticRefs(x))
        OBVIOUS
      <4>3. One(x = v) = 1 /\ One(v = x) = 1 /\ One(m = x) = 0
        BY <2>2, <3>2 DEF One
      <4>4. (Adding(x)' <=> TRUE) /\ (In("addStatic", x)' <=> op = "addStatic")
        BY <3>2, <4>1, <1>4, <1>7 DEF Adding, AddOps
      <4>5. One(Adding(x))' = 1 /\ One(In("addStatic", x))' = IF op = "addStatic" THEN 1 ELSE 0
        BY <4>4 DEF One
      <4>6. One(Listed(heap, x))' = One(Listed(heap, x)) /\ One(Listed(heap, x)) \in {0, 1}
        BY <3>1 DEF One
      <4>7. /\ heap.live[x] /\ ~heap.dying[x] /\ ~heap.constant[x] /\ ~heap.deleted[x]
            /\ heap.stored[x] = Stored(x) /\ heap.static[x] = Cardinality(StaticRefs(x))
            /\ heap.ref[x] = Stored(x) + held[x] + One(Listed(heap, x))
        BY <4>1, <1>2
      <4>8. heap'.stored[x] = Stored(x)' - One(Adding(x))'
        BY <3>1, <4>2, <4>3, <4>5, <4>7, <1>5
      <4>9. heap'.static[x] = Cardinality(StaticRefs(x)') - One(In("addStatic", x))'
        BY <3>1, <4>2, <4>3, <4>5, <4>7, <1>5
      <4>10. heap'.ref[x] = Refs(x)' + One(Listed(heap, x))'
        <5>1. Refs(x)' = Stored(x)' + held'[x]
          BY DEF Refs
        <5>2. Stored(x)' = Stored(x) + 1 /\ held'[x] = held[x] - 1 /\ Stored(x) \in Nat /\ held[x] \in Nat
          BY <4>2, <4>3, <1>5
        <5>3. heap'.ref[x] = Stored(x) + held[x] + One(Listed(heap, x)) /\ One(Listed(heap, x)) \in Int
          BY <3>1, <4>6, <4>7
        <5> QED
          BY <4>6, <5>1, <5>2, <5>3
      <4> QED
        BY <3>1, <4>7, <4>8, <4>9, <4>10 DEF Account, Good, Plain
    <3>3. CASE x # v
      <4>1. held'[x] = held[x] /\ MemberRefs(x)' = MemberRefs(x) /\ StaticRefs(x)' = StaticRefs(x)
        <5>1. held'[x] = held[x] - One(x = v) /\ held[x] \in Nat /\ One(x = v) = 0
          BY <3>3 DEF One
        <5> QED
          BY <2>2, <3>3, <5>1
      <4>2. \A f \in Ops : In(f, x)' <=> In(f, x)
        BY <2>2, <3>3, <1>1, <1>4, <1>7
      <4>3. Same(x)
        BY <3>1, <4>1, <4>2 DEF Same
      <4>4. Account(x) /\ (Good(x) \/ Filled(x)' \subseteq Filled(x))
        BY DEF CountInv
      <4>5. \A p \in Objects, s \in 1 .. Slots : heap.member[p][s] = x /\ In("collect", p) => In("collect", p)'
        BY <1>1
      <4> QED
        BY <4>3, <4>4, <4>5, SameAccount
    <3> QED
      BY <3>2, <3>3
  <2> QED
    BY <2>1, <2>2
<1> QED
  BY <1>8, <1>10, <1>11

\* A script's step that concerns one object of the stack and no variable.
LEMMA StackStep ==
  ASSUME CountInv, ~Busy, gc.phase = "idle", UNCHANGED <<gc, statics>>, NEW o \in Objects,
         heap'.member = heap.member, heap'.constant = heap.constant,
         \/ heap'.calls = heap.calls
         \/ heap'.calls = <<Frame("release", o)>> \o heap.calls /\ heap'.dying[o],
         \A x \in Objects : x # o =>
           /\ heap'.live[x] = heap.live[x] /\ heap'.dying[x] = heap.dying[x]
           /\ heap'.deleted[x] = heap.deleted[x]
           /\ heap'.stored[x] = heap.stored[x] /\ heap'.static[x] = heap.static[x] /\ heap'.ref[x] = heap.ref[x]
           /\ heap.marked[x] => heap'.marked[x]
           /\ Listed(heap', x) <=> Listed(heap, x)
           /\ held'[x] = held[x],
         Account(o)'
  PROVE  CallsOwn' /\ CollectionOwns' /\ \A x \in Objects : Account(x)'
<1>1. heap.calls = <<>> /\ (\A op, x : ~In(op, x)) /\ \A x \in Objects : ~heap.constant[x]
  BY ScriptState
<1>2. <<>> \in Seq(Frames) /\ Unique(<<>>) /\ \A op, x : ~Within(<<>>, op, x)
  BY DEF Unique, Within
<1>3. /\ Unique(heap'.calls)
      /\ \A op, x : In(op, x)' => op = "release" /\ x = o /\ heap'.dying[o]
  <2>1. CASE heap'.calls = heap.calls
    BY <2>1, <1>1, <1>2 DEF In
  <2>2. CASE heap'.calls # heap.calls
    <3>1. heap'.calls = <<Frame("release", o)>> \o <<>> /\ heap'.dying[o]
      BY <2>2, <1>1
    <3>2. /\ Unique(heap'.calls)
          /\ \A op, x : In(op, x)' => \/ Within(<<>>, op, x)
                                      \/ heap'.calls # <<>> /\ op = "release" /\ x = o
          /\ \A op, x : Within(<<>>, op, x) => In(op, x)'
      BY <3>1, <1>2, CallsAfter
    <3> QED
      BY <3>1, <3>2, <1>2
  <2> QED
    BY <2>1, <2>2
<1>4. CallsOwn'
  BY <1>3 DEF CallsOwn
<1>5. CollectionOwns'
  BY <1>1 DEF CollectionOwns
<1>6. ASSUME NEW x \in Objects, x # o PROVE Account(x)'
  <2>1. MemberRefs(x)' = MemberRefs(x) /\ StaticRefs(x)' = StaticRefs(x) /\ Filled(x)' = Filled(x)
    BY DEF MemberRefs, StaticRefs, Filled
  <2>2. \A op \in Ops : In(op, x)' <=> In(op, x)
    BY <1>1, <1>3, <1>6
  <2>3. Same(x)
    BY <1>6, <2>1, <2>2 DEF Same
  <2>4. Account(x) /\ \A p \in Objects, s \in 1 .. Slots : heap.member[p][s] = x /\ In("collect", p) => In("collect", p)'
    BY <1>1 DEF CountInv
  <2> QED
    BY <2>1, <2>3, <2>4, SameAccount
<1> QED
  BY <1>4, <1>5, <1>6

\* Good, for an object that no call concerns.
LEMMA GoodNow ==
  ASSUME NEW o \in Objects, ~In("add", o)', ~In("addStatic", o)',
         heap'.live[o], ~heap'.dying[o], ~heap'.constant[o], ~heap'.deleted[o],
         heap'.stored[o] = Stored(o)', heap'.static[o] = Cardinality(StaticRefs(o)'),
         heap'.ref[o] = Stored(o)' + held'[o] + One(Listed(heap', o))
  PROVE  Good(o)'
<1>1. One(Adding(o))' = 0 /\ One(In("addStatic", o))' = 0
  BY DEF One, Adding
<1>2. Stored(o)' \in Nat /\ Cardinality(StaticRefs(o)') \in Nat
  BY StoredCount
<1>3. Refs(o)' = Stored(o)' + held'[o] /\ One(Listed(heap, o))' = One(Listed(heap', o))
  BY DEF Refs
<1>4. heap'.stored[o] = Stored(o)' - One(Adding(o))'
  BY <1>1, <1>2
<1>5. heap'.static[o] = Cardinality(StaticRefs(o)') - One(In("addStatic", o))'
  BY <1>1, <1>2
<1> QED
  BY <1>3, <1>4, <1>5 DEF Good, Plain

LEMMA CountNew ==
  ASSUME CountInv, NEW o \in Objects, New(o)
  PROVE  CallsOwn' /\ CollectionOwns' /\ \A x \in Objects : Account(x)'
<1>1. ~Busy /\ gc.phase = "idle" /\ UNCHANGED <<gc, statics>> /\ Pushed(o)
  BY DEF New, Running
<1>2. /\ Regular(heap) /\ Types /\ heap.calls = <<>> /\ \A op, x : ~In(op, x)
      /\ \A x \in Objects : ~heap.constant[x] /\ (Good(x) \/ Dead(x))
  BY <1>1, ScriptState
<1>3. Dead(o)
  BY <1>2 DEF New, Good
<1>4. Created(heap', heap, o)
  <2>1. heap' = NewObject(heap, o)
    BY DEF New, NewObject
  <2> QED
    BY <2>1, <1>2, NewRegular
<1>5. heap \in Heaps /\ held \in [Objects -> Nat]
  BY <1>2 DEF Regular, Types
<1>6. /\ heap'.live[o] /\ heap'.ref[o] = 1 /\ heap'.stored[o] = 0 /\ heap'.static[o] = 0
      /\ ~heap'.dying[o] /\ ~heap'.constant[o] /\ ~heap'.deleted[o]
      /\ heap'.member = heap.member /\ heap'.calls = heap.calls /\ heap'.constant = heap.constant
  BY <1>3, <1>4, <1>5 DEF Created, Heaps, Dead, Plain
<1>7. held'[o] = 1 /\ \A x \in Objects : x # o => held'[x] = held[x]
  BY <1>1, <1>3, <1>5 DEF Pushed, Dead, Unused
<1>8. \A x \in Objects : Listed(heap', x) <=> Listed(heap, x)
  BY <1>4 DEF Created, SameList, Listed
<1>9. Stored(o)' = 0 /\ Cardinality(StaticRefs(o)') = 0
  <2>1. MemberRefs(o)' = {} /\ StaticRefs(o)' = {}
    BY <1>1, <1>3, <1>6 DEF Dead, Unused, MemberRefs, StaticRefs
  <2> QED
    BY <2>1, StoredCount
<1>10. One(Listed(heap', o)) = 0
  BY <1>3, <1>8 DEF Dead, One
<1>11. ~In("add", o)' /\ ~In("addStatic", o)'
  BY <1>2, <1>6 DEF In
<1>12. Good(o)'
  <2>1. heap'.ref[o] = Stored(o)' + held'[o] + One(Listed(heap', o))
    BY <1>6, <1>7, <1>9, <1>10
  <2> QED
    BY <2>1, <1>6, <1>9, <1>11, GoodNow
<1>13. \A x \in Objects : x # o =>
           /\ heap'.live[x] = heap.live[x] /\ heap'.dying[x] = heap.dying[x]
           /\ heap'.deleted[x] = heap.deleted[x]
           /\ heap'.stored[x] = heap.stored[x] /\ heap'.static[x] = heap.static[x] /\ heap'.ref[x] = heap.ref[x]
           /\ heap.marked[x] => heap'.marked[x]
           /\ Listed(heap', x) <=> Listed(heap, x)
           /\ held'[x] = held[x]
  BY <1>4, <1>5, <1>7, <1>8 DEF Created, Heaps
<1>14. Account(o)'
  BY <1>12 DEF Account
<1> QED
  BY <1>1, <1>6, <1>13, <1>14, StackStep

LEMMA CountLoad ==
  ASSUME CountInv, NEW o \in Objects, Load(o)
  PROVE  CallsOwn' /\ CollectionOwns' /\ \A x \in Objects : Account(x)'
<1>1. ~Busy /\ gc.phase = "idle" /\ UNCHANGED <<gc, statics>> /\ Pushed(o) /\ heap' = incRef(heap, o)
  BY DEF Load, Running
<1>2. Regular(heap) /\ Types /\ heap.calls = <<>> /\ (\A op, x : ~In(op, x)) /\ ~heap.constant[o]
  BY <1>1, ScriptState
<1>3. heap \in Heaps /\ held \in [Objects -> Nat]
  BY <1>2 DEF Regular, Types
<1>4. MemberRefs(o) # {} \/ StaticRefs(o) # {}
  <2>1. CASE \E p \in Objects, s \in 1 .. Slots : heap.member[p][s] = o
    <3>1. PICK p \in Objects, s \in 1 .. Slots : heap.member[p][s] = o
      BY <2>1
    <3>2. <<p, s>> \in MemberRefs(o)
      BY <3>1 DEF MemberRefs
    <3> QED
      BY <3>2
  <2>2. CASE \E v \in Statics : statics[v] = o
    BY <2>2 DEF StaticRefs
  <2> QED
    BY <2>1, <2>2 DEF Load
<1>5. Good(o)
  BY <1>1, <1>4, ScriptState
<1>6. /\ heap.live[o] /\ ~heap.dying[o] /\ ~heap.constant[o] /\ ~heap.deleted[o]
      /\ heap.stored[o] = Stored(o) /\ heap.static[o] = Cardinality(StaticRefs(o))
      /\ heap.ref[o] = Stored(o) + held[o] + One(Listed(heap, o))
  BY <1>1, <1>5, ScriptState
<1>7. /\ SameBut(heap', heap) /\ heap'.dying = heap.dying /\ heap'.stored = heap.stored
      /\ heap'.static = heap.static /\ heap'.calls = heap.calls
      /\ heap'.ref = [heap.ref EXCEPT ![o] = @ + 1]
  BY <1>1, <1>2, IncRefRegular
<1>8. \A x \in Objects : Listed(heap', x) <=> Listed(heap, x)
  BY <1>7 DEF SameBut, SameList, Listed
<1>9. held'[o] = held[o] + 1 /\ \A x \in Objects : x # o => held'[x] = held[x]
  BY <1>1, <1>3 DEF Pushed
<1>10. /\ heap'.ref[o] = heap.ref[o] + 1 /\ \A x \in Objects : x # o => heap'.ref[x] = heap.ref[x]
  BY <1>3, <1>7 DEF Heaps
<1>11. Stored(o)' = Stored(o) /\ StaticRefs(o)' = StaticRefs(o) /\ Stored(o) \in Nat
  <2>1. MemberRefs(o)' = MemberRefs(o) /\ StaticRefs(o)' = StaticRefs(o)
    BY <1>1, <1>7 DEF SameBut, MemberRefs, StaticRefs
  <2> QED
    BY <2>1, StoredCount DEF Stored
<1>12. Good(o)'
  <2>1. heap'.ref[o] = Stored(o)' + held'[o] + One(Listed(heap', o))
    <3>1. One(Listed(heap', o)) = One(Listed(heap, o)) /\ One(Listed(heap, o)) \in Nat
      BY <1>8 DEF One
    <3>2. held[o] \in Nat
      BY <1>3
    <3> QED
      BY <3>1, <3>2, <1>6, <1>9, <1>10, <1>11
  <2>2. ~In("add", o)' /\ ~In("addStatic", o)'
    BY <1>2, <1>7 DEF In
  <2>3. heap'.live[o] /\ ~heap'.dying[o] /\ ~heap'.constant[o] /\ ~heap'.deleted[o]
    BY <1>6, <1>7 DEF SameBut
  <2>4. heap'.stored[o] = Stored(o)' /\ heap'.static[o] = Cardinality(StaticRefs(o)')
    BY <1>6, <1>7, <1>11
  <2> QED
    BY <2>1, <2>2, <2>3, <2>4, GoodNow
<1>13. \A x \in Objects : x # o =>
           /\ heap'.live[x] = heap.live[x] /\ heap'.dying[x] = heap.dying[x]
           /\ heap'.deleted[x] = heap.deleted[x]
           /\ heap'.stored[x] = heap.stored[x] /\ heap'.static[x] = heap.static[x] /\ heap'.ref[x] = heap.ref[x]
           /\ heap.marked[x] => heap'.marked[x]
           /\ Listed(heap', x) <=> Listed(heap, x)
           /\ held'[x] = held[x]
  BY <1>7, <1>8, <1>9, <1>10 DEF SameBut
<1>14. Account(o)' /\ heap'.member = heap.member /\ heap'.constant = heap.constant
  BY <1>7, <1>12 DEF Account, SameBut
<1> QED
  BY <1>1, <1>7, <1>13, <1>14, StackStep

\* decRef of an object whose counts are exact but for one reference that has gone.
LEMMA DroppedAccount ==
  ASSUME NEW h, Regular(h), NEW o \in Objects, Dropped(heap', h, o), ChainOf(heap') = ChainOf(h),
         h.live[o], ~h.dying[o], ~h.constant[o], ~h.deleted[o],
         ~Within(h.calls, "add", o), ~Within(h.calls, "addStatic", o),
         h.stored[o] = Stored(o)', h.static[o] = Cardinality(StaticRefs(o)'),
         h.ref[o] = Stored(o)' + held'[o] + One(Listed(h, o)) + 1, held'[o] \in Nat
  PROVE  /\ Good(o)' \/ Dying(o)'
         /\ \/ heap'.calls = h.calls
            \/ heap'.calls = <<Frame("release", o)>> \o h.calls /\ heap'.dying[o]
<1>1. h \in Heaps /\ h.calls \in Seq(Frames)
  BY DEF Regular, Heaps
<1>2. (Listed(h, o) <=> Listed(heap', o)) /\ (Listed(h, o) <=> One(Listed(h, o)) = 1) /\ One(Listed(h, o)) \in {0, 1}
  BY DEF ChainOf, One
<1>3. Stored(o)' \in Nat /\ (Stored(o)' = 0 <=> MemberRefs(o)' = {} /\ StaticRefs(o)' = {})
  BY StoredCount
<1>4. /\ heap'.live[o] /\ ~heap'.constant[o] /\ ~heap'.deleted[o]
      /\ heap'.stored[o] = Stored(o)' /\ heap'.static[o] = Cardinality(StaticRefs(o)')
  BY DEF Dropped, SameBut
<1>5. CASE h.ref[o] # 1
  <2>1. heap'.ref = [h.ref EXCEPT ![o] = @ - 1] /\ heap'.dying = h.dying /\ heap'.calls = h.calls
    BY <1>5 DEF Dropped, LastRef
  <2>2. heap'.ref[o] = h.ref[o] - 1
    BY <2>1, <1>1 DEF Heaps
  <2>3. heap'.ref[o] = Stored(o)' + held'[o] + One(Listed(heap', o))
    <3>1. One(Listed(heap', o)) = One(Listed(h, o))
      BY <1>2 DEF One
    <3> QED
      BY <3>1, <2>2, <1>2, <1>3
  <2>4. ~In("add", o)' /\ ~In("addStatic", o)'
    BY <2>1 DEF In
  <2>5. Good(o)'
    BY <2>1, <2>3, <2>4, <1>4, GoodNow
  <2> QED
    BY <2>1, <2>5
<1>6. CASE h.ref[o] = 1
  <2>1. Stored(o)' = 0 /\ held'[o] = 0 /\ One(Listed(h, o)) = 0
    BY <1>2, <1>3, <1>6
  <2>2. /\ heap'.ref = h.ref /\ heap'.dying = [h.dying EXCEPT ![o] = TRUE]
        /\ heap'.calls = <<Frame("release", o)>> \o h.calls
    BY <1>6 DEF Dropped, LastRef, Frame
  <2>3. heap'.dying[o] /\ heap'.ref[o] = 1
    BY <2>2, <1>1, <1>6 DEF Heaps
  <2>4. Unused(o)'
    BY <2>1, <1>3 DEF Unused
  <2>5. In("release", o)'
    <3>1. Frame("release", o) \in Frames
      BY FrameIn DEF Ops
    <3> QED
      BY <3>1, <2>2, <1>1, PushWithin DEF In
  <2>6. Dying(o)'
    BY <2>1, <2>3, <2>4, <2>5, <1>2, <1>4 DEF Dying, Plain
  <2> QED
    BY <2>2, <2>3, <2>6
<1> QED
  BY <1>5, <1>6

LEMMA CountDrop ==
  ASSUME CountInv, NEW o \in Objects, Drop(o)
  PROVE  CallsOwn' /\ CollectionOwns' /\ \A x \in Objects : Account(x)'
<1>1. /\ ~Busy /\ gc.phase = "idle" /\ UNCHANGED <<gc, statics>> /\ Popped(o)
      /\ heap' = decRef(heap, o) \/ heap' = decRefAndGCCheck(heap, o)
  BY DEF Drop, Running
<1>2. Regular(heap) /\ Types /\ heap.calls = <<>> /\ (\A op, x : ~In(op, x)) /\ ~heap.constant[o]
  BY <1>1, ScriptState
<1>3. heap \in Heaps /\ held \in [Objects -> Nat]
  BY <1>2 DEF Regular, Types
<1>4. held[o] > 0 /\ held'[o] = held[o] - 1 /\ held'[o] \in Nat /\ \A x \in Objects : x # o => held'[x] = held[x]
  BY <1>1, <1>3 DEF Popped
<1>5. Good(o)
  BY <1>1, <1>4, ScriptState
<1>6. /\ heap.live[o] /\ ~heap.dying[o] /\ ~heap.constant[o] /\ ~heap.deleted[o]
      /\ heap.stored[o] = Stored(o) /\ heap.static[o] = Cardinality(StaticRefs(o))
      /\ heap.ref[o] = Stored(o) + held[o] + One(Listed(heap, o))
  BY <1>1, <1>5, ScriptState
<1>7. Stored(o) \in Nat /\ One(Listed(heap, o)) \in {0, 1} /\ held[o] \in Nat
  BY <1>3, StoredCount DEF One
<1>8. ASSUME heap'.member = heap.member
      PROVE  Stored(o)' = Stored(o) /\ StaticRefs(o)' = StaticRefs(o)
  <2>1. MemberRefs(o)' = MemberRefs(o) /\ StaticRefs(o)' = StaticRefs(o)
    BY <1>1, <1>8 DEF MemberRefs, StaticRefs
  <2> QED
    BY <2>1 DEF Stored
<1>9. CASE heap' = decRef(heap, o)
  <2>1. ChainOf(heap') = ChainOf(heap) /\ Dropped(heap', heap, o)
    BY <1>2, <1>9, DecRefRegular
  <2>2. heap'.member = heap.member /\ heap'.constant = heap.constant
    BY <2>1 DEF Dropped, SameBut
  <2>3. heap.ref[o] = Stored(o)' + held'[o] + One(Listed(heap, o)) + 1
    BY <2>2, <1>4, <1>6, <1>7, <1>8
  <2>4. ~Within(heap.calls, "add", o) /\ ~Within(heap.calls, "addStatic", o)
    BY <1>2 DEF In
  <2>5. /\ Good(o)' \/ Dying(o)'
        /\ \/ heap'.calls = heap.calls
           \/ heap'.calls = <<Frame("release", o)>> \o heap.calls /\ heap'.dying[o]
    BY <2>1, <2>2, <2>3, <2>4, <1>2, <1>4, <1>6, <1>8, DroppedAccount
  <2>6. \A x \in Objects : x # o =>
           /\ heap'.live[x] = heap.live[x] /\ heap'.dying[x] = heap.dying[x]
           /\ heap'.deleted[x] = heap.deleted[x]
           /\ heap'.stored[x] = heap.stored[x] /\ heap'.static[x] = heap.static[x] /\ heap'.ref[x] = heap.ref[x]
           /\ heap.marked[x] => heap'.marked[x]
           /\ Listed(heap', x) <=> Listed(heap, x)
           /\ held'[x] = held[x]
    <3>1. \A x \in Objects : x # o => heap'.dying[x] = heap.dying[x] /\ heap'.ref[x] = heap.ref[x]
      BY <2>1, <1>3 DEF Dropped, Heaps
    <3>2. \A x \in Objects : Listed(heap', x) <=> Listed(heap, x)
      BY <2>1 DEF ChainOf
    <3> QED
      BY <3>1, <3>2, <2>1, <1>4 DEF Dropped, SameBut
  <2>7. Account(o)'
    BY <2>5 DEF Account
  <2> QED
    BY <2>2, <2>5, <2>6, <2>7, <1>1, StackStep
<1>10. CASE heap' # decRef(heap, o)
  <2>1. heap' = Mark(heap, o) /\ heap.ref[o] = heap.stored[o] + 1
    BY <1>1, <1>10 DEF decRefAndGCCheck, OnlyMembersLeft
  <2>2. Counts(heap', heap) /\ heap'.marked = [heap.marked EXCEPT ![o] = TRUE]
        /\ ChainOf(heap') = ChainOf(heap) \cup {o}
    BY <2>1, <1>2, MarkRegular
  <2>3. held[o] = 1 /\ One(Listed(heap, o)) = 0
    BY <2>1, <1>4, <1>6, <1>7
  <2>4. One(Listed(heap', o)) = 1 /\ \A x \in Objects : x # o => (Listed(heap', x) <=> Listed(heap, x))
    <3>1. o \in ChainOf(heap') /\ \A x \in Objects : x # o => (x \in ChainOf(heap') <=> x \in ChainOf(heap))
      BY <2>2
    <3> QED
      BY <3>1 DEF ChainOf, One
  <2>5. heap'.member = heap.member /\ heap'.constant = heap.constant /\ heap'.calls = heap.calls
    BY <2>2 DEF Counts
  <2>6. Good(o)'
    <3>1. heap'.ref[o] = Stored(o)' + held'[o] + One(Listed(heap', o))
      <4>1. heap'.ref[o] = heap.ref[o]
        BY <2>2 DEF Counts
      <4> QED
        BY <4>1, <2>3, <2>4, <2>5, <1>4, <1>6, <1>7, <1>8
    <3>2. ~In("add", o)' /\ ~In("addStatic", o)'
      BY <2>5, <1>2 DEF In
    <3>3. /\ heap'.live[o] /\ ~heap'.dying[o] /\ ~heap'.constant[o] /\ ~heap'.deleted[o]
          /\ heap'.stored[o] = Stored(o)' /\ heap'.static[o] = Cardinality(StaticRefs(o)')
      BY <2>2, <2>5, <1>6, <1>8 DEF Counts
    <3> QED
      BY <3>1, <3>2, <3>3, GoodNow
  <2>7. \A x \in Objects : x # o =>
           /\ heap'.live[x] = heap.live[x] /\ heap'.dying[x] = heap.dying[x]
           /\ heap'.deleted[x] = heap.deleted[x]
           /\ heap'.stored[x] = heap.stored[x] /\ heap'.static[x] = heap.static[x] /\ heap'.ref[x] = heap.ref[x]
           /\ heap.marked[x] => heap'.marked[x]
           /\ Listed(heap', x) <=> Listed(heap, x)
           /\ held'[x] = held[x]
    <3>1. \A x \in Objects : x # o => heap'.marked[x] = heap.marked[x]
      BY <2>2, <1>3 DEF Heaps
    <3> QED
      BY <3>1, <2>2, <2>4, <1>4 DEF Counts
  <2>8. Account(o)'
    BY <2>6 DEF Account
  <2> QED
    BY <2>5, <2>7, <2>8, <1>1, StackStep
<1> QED
  BY <1>9, <1>10

\* setVar of a variable of an object, and of one that is cleared.
LEMMA MemberReplaced ==
  ASSUME CountInv, ~Busy, gc.phase = "idle", UNCHANGED <<gc, statics>>,
         NEW p \in Objects, NEW s \in 1 .. Slots, NEW v \in Maybe, NEW b, NEW h,
         b = SetMember(heap, p, s, v), h = IF v = NoObject THEN b ELSE Call(b, "add", v),
         heap' = Removed(h, heap.member[p][s]),
         held[p] > 0, held'[p] > 0, v # NoObject => held[v] > 0,
         \A x \in Objects : held'[x] = held[x] - One(x = v) /\ held[x] \in Nat /\ held'[x] \in Nat
  PROVE  CallsOwn' /\ CollectionOwns' /\ \A x \in Objects : Account(x)'
<1> DEFINE m == heap.member[p][s]
<1>1. Regular(heap) /\ Types /\ heap.calls = <<>>
  BY ScriptState
<1>2. heap \in Heaps /\ m \in Maybe
  <2>1. heap \in Heaps /\ heap.member \in [Objects -> [1 .. Slots -> Maybe]]
    BY <1>1 DEF Regular, Heaps
  <2>2. heap.member[p] \in [1 .. Slots -> Maybe]
    BY <2>1
  <2> QED
    BY <2>1, <2>2
<1>3. NoObject \notin Objects /\ (v # NoObject => v \in Objects) /\ (m # NoObject => m \in Objects)
  BY <1>2, ObjectsAssumption DEF Maybe
<1>4. heap' = IF m = NoObject THEN h ELSE removeStoredMember(h, m)
  BY DEF Removed
<1>5. heap.member[p][s] = m
  OBVIOUS
<1> HIDE DEF m
<1>6. /\ b \in Heaps /\ SameList(b, heap) /\ b.marked = heap.marked /\ b.calls = heap.calls
      /\ b.live = heap.live /\ b.deleted = heap.deleted /\ b.dying = heap.dying /\ b.constant = heap.constant
      /\ b.ref = heap.ref /\ b.stored = heap.stored /\ b.static = heap.static
      /\ b.member = [heap.member EXCEPT ![p] = [@ EXCEPT ![s] = v]]
  BY <1>2, ClearedMember
<1>7. Regular(b)
  BY <1>1, <1>6, SameRegular
<1>8. /\ Regular(h) /\ SameBut(h, b) /\ h.dying = b.dying /\ h.ref = b.ref /\ h.stored = b.stored
      /\ h.static = b.static /\ h.calls = IF v = NoObject THEN <<>> ELSE <<Frame("add", v)>>
  <2>1. CASE v = NoObject
    BY <2>1, <1>1, <1>6, <1>7 DEF SameBut, SameList
  <2>2. CASE v # NoObject
    <3>1. h = Call(b, "add", v) /\ v \in Objects /\ "add" \in Ops
      BY <2>2, <1>3 DEF Ops
    <3>2. /\ Regular(h) /\ SameBut(h, b) /\ h.dying = b.dying /\ h.ref = b.ref /\ h.stored = b.stored
          /\ h.static = b.static /\ h.calls = <<[op |-> "add", obj |-> v]>> \o b.calls
      BY <3>1, <1>7, CallRegular
    <3>3. h.calls = <<Frame("add", v)>> \o <<>>
      BY <3>2, <1>1, <1>6 DEF Frame
    <3>4. <<Frame("add", v)>> \o <<>> = <<Frame("add", v)>>
      OBVIOUS
    <3> QED
      BY <2>2, <3>2, <3>3, <3>4
  <2> QED
    BY <2>1, <2>2
<1>9. heap'.member = [heap.member EXCEPT ![p] = [@ EXCEPT ![s] = v]]
  <2>1. h.member = [heap.member EXCEPT ![p] = [@ EXCEPT ![s] = v]]
    BY <1>6, <1>8 DEF SameBut
  <2>2. CASE m = NoObject
    BY <2>1, <2>2, <1>4
  <2>3. CASE m # NoObject
    <3>1. Unstored(heap', h, m)
      BY <2>3, <1>3, <1>4, <1>8, RemoveStoredRegular
    <3> QED
      BY <2>1, <3>1 DEF Unstored
  <2> QED
    BY <2>2, <2>3
<1>10. ASSUME NEW x \in Objects
       PROVE  /\ MemberRefs(x)' = IF v = x THEN MemberRefs(x) \cup {<<p, s>>} ELSE MemberRefs(x) \ {<<p, s>>}
              /\ <<p, s>> \in MemberRefs(x) <=> m = x
              /\ Cardinality(MemberRefs(x)') = Cardinality(MemberRefs(x)) + One(v = x) - One(m = x)
              /\ StaticRefs(x)' = StaticRefs(x)
  BY <1>2, <1>5, <1>9, MemberChange DEF StaticRefs
<1>11. ASSUME NEW x \in Objects
       PROVE  /\ Stored(x)' = Stored(x) + One(v = x) - One(m = x)
              /\ x # v /\ x # m => MemberRefs(x)' = MemberRefs(x) /\ StaticRefs(x)' = StaticRefs(x)
  <2>1. /\ Cardinality(MemberRefs(x)) \in Nat /\ Cardinality(StaticRefs(x)) \in Nat
        /\ One(v = x) \in Int /\ One(m = x) \in Int
    <3>1. MemberRefs(x) \in SUBSET (Objects \X (1 .. Slots)) /\ StaticRefs(x) \in SUBSET Statics
      BY RefSets
    <3>2. Cardinality(MemberRefs(x)) \in Nat /\ Cardinality(StaticRefs(x)) \in Nat
      BY <3>1, CountRefs
    <3> QED
      BY <3>2 DEF One
  <2>2. Stored(x)' = Cardinality(MemberRefs(x)') + Cardinality(StaticRefs(x)')
        /\ Stored(x) = Cardinality(MemberRefs(x)) + Cardinality(StaticRefs(x))
    BY DEF Stored
  <2>3. /\ Cardinality(MemberRefs(x)') = Cardinality(MemberRefs(x)) + One(v = x) - One(m = x)
        /\ Cardinality(StaticRefs(x)') = Cardinality(StaticRefs(x))
    BY <1>10
  <2>4. Stored(x)' = Stored(x) + One(v = x) - One(m = x)
    BY <2>1, <2>2, <2>3
  <2>5. x # v /\ x # m => MemberRefs(x)' = MemberRefs(x) /\ StaticRefs(x)' = StaticRefs(x)
    BY <1>10
  <2> QED
    BY <2>4, <2>5
<1>12. Good(p) /\ (v # NoObject => Good(v)) /\ (m # NoObject => Good(m))
  <2>1. m # NoObject => MemberRefs(m) # {}
    BY <1>3, <1>10
  <2> QED
    BY <2>1, <1>3, ScriptState
<1>13. \A x \in Objects : Good(x) \/ Filled(x)' \subseteq Filled(x)
  <2> SUFFICES ASSUME NEW x \in Objects, x # p PROVE Filled(x)' = Filled(x)
    BY <1>12
  <2>1. heap'.member[x] = heap.member[x]
    BY <1>2, <1>9 DEF Heaps
  <2> QED
    BY <2>1 DEF Filled
<1>14. ASSUME v # NoObject
       PROVE  Good(v) /\ Stored(v)' > 0
              /\ \E r \in Objects, t \in 1 .. Slots : held'[r] > 0 /\ heap'.member[r][t] = v
  <2>1. <<p, s>> \in MemberRefs(v)'
    BY <1>3, <1>10, <1>14
  <2>2. Stored(v)' > 0
    BY <2>1, StoredCount
  <2>3. heap'.member[p][s] = v
    BY <2>1 DEF MemberRefs
  <2> QED
    BY <2>2, <2>3, <1>12, <1>14
<1>0. PICK op \in AddOps : op = "add"
  BY DEF AddOps
<1>15. \A x \in Objects :
         h.static[x] = IF op = "addStatic" /\ x = m THEN heap.static[x] - 1 ELSE heap.static[x]
  BY <1>0, <1>6, <1>8
<1>16. /\ h.live = heap.live /\ h.dying = heap.dying /\ h.constant = heap.constant
       /\ h.deleted = heap.deleted /\ h.stored = heap.stored /\ h.ref = heap.ref
       /\ h.marked = heap.marked /\ SameList(h, heap)
  BY <1>6, <1>8 DEF SameBut, SameList
<1>17. \A x \in Objects :
           /\ held'[x] = held[x] - One(x = v) /\ held[x] \in Nat /\ held'[x] \in Nat
           /\ Stored(x)' = Stored(x) + One(v = x) - One(m = x)
           /\ Cardinality(StaticRefs(x)') =
                IF op = "addStatic" THEN Cardinality(StaticRefs(x)) + One(v = x) - One(m = x)
                                       ELSE Cardinality(StaticRefs(x))
           /\ x # v /\ x # m => MemberRefs(x)' = MemberRefs(x) /\ StaticRefs(x)' = StaticRefs(x)
           /\ Good(x) \/ Filled(x)' \subseteq Filled(x)
  BY <1>0, <1>10, <1>11, <1>13
<1>18. v # NoObject => /\ Good(v) /\ Stored(v)' > 0
                       /\ op = "add" => \E r \in Objects, t \in 1 .. Slots :
                                             held'[r] > 0 /\ heap'.member[r][t] = v
                       /\ op = "addStatic" => StaticRefs(v)' # {}
  BY <1>0, <1>14
<1>19. h.calls = IF v = NoObject THEN <<>> ELSE <<Frame(op, v)>>
  BY <1>0, <1>8
<1>20. Prepared(op, v, m, h)
  BY <1>4, <1>15, <1>16, <1>19 DEF Prepared
<1>21. Exchanged(op, v, m)
  BY <1>12, <1>17, <1>18 DEF Exchanged
<1> HIDE <1>0
<1> QED
  BY <1>2, <1>8, <1>20, <1>21, Replaced

\* setVar of a variable of a class, and of one that is cleared.
LEMMA StaticReplaced ==
  ASSUME CountInv, ~Busy, gc.phase = "idle", UNCHANGED gc,
         NEW u \in Statics, NEW v \in Maybe, NEW b,
         b = IF v = NoObject THEN heap ELSE Call(heap, "addStatic", v),
         heap' = RemovedStatic(b, statics[u]), ClassSet(u, v),
         v # NoObject => held[v] > 0,
         \A x \in Objects : held'[x] = held[x] - One(x = v) /\ held[x] \in Nat /\ held'[x] \in Nat
  PROVE  CallsOwn' /\ CollectionOwns' /\ \A x \in Objects : Account(x)'
<1> DEFINE m == statics[u]
           h == IF m = NoObject THEN b ELSE SetStatic(b, m, b.static[m] - 1)
<1>1. Regular(heap) /\ Types /\ heap.calls = <<>>
  BY ScriptState
<1>2. heap \in Heaps /\ m \in Maybe /\ statics \in [Statics -> Maybe]
  BY <1>1 DEF Regular, Types
<1>3. NoObject \notin Objects /\ (v # NoObject => v \in Objects) /\ (m # NoObject => m \in Objects)
  BY <1>2, ObjectsAssumption DEF Maybe
<1>4. heap' = IF m = NoObject THEN h ELSE removeStoredMember(h, m)
  BY DEF RemovedStatic, SetStatic
<1>5. statics[u] = m /\ h = IF m = NoObject THEN b ELSE SetStatic(b, m, b.static[m] - 1)
  OBVIOUS
<1> HIDE DEF m, h
<1>6. /\ Regular(b) /\ SameBut(b, heap) /\ b.dying = heap.dying /\ b.ref = heap.ref /\ b.stored = heap.stored
      /\ b.static = heap.static /\ b.calls = IF v = NoObject THEN <<>> ELSE <<Frame("addStatic", v)>>
  <2>1. CASE v = NoObject
    BY <2>1, <1>1 DEF SameBut, SameList
  <2>2. CASE v # NoObject
    <3>1. b = Call(heap, "addStatic", v) /\ v \in Objects /\ "addStatic" \in Ops
      BY <2>2, <1>3 DEF Ops
    <3>2. PICK op \in Ops : op = "addStatic"
      BY <3>1
    <3>3. /\ Regular(b) /\ SameBut(b, heap) /\ b.dying = heap.dying /\ b.ref = heap.ref /\ b.stored = heap.stored
          /\ b.static = heap.static /\ b.calls = <<[op |-> op, obj |-> v]>> \o heap.calls
      <4> DEFINE c == Call(heap, op, v)
      <4>1. b = c /\ v \in Objects
        BY <3>1, <3>2
      <4>2. /\ Regular(c) /\ Grown(c, heap) /\ SameBut(c, heap) /\ ChainOf(c) = ChainOf(heap)
            /\ c.dying = heap.dying /\ c.ref = heap.ref /\ c.stored = heap.stored /\ c.static = heap.static
            /\ c.calls = <<[op |-> op, obj |-> v]>> \o heap.calls
        BY <4>1, <1>1, CallRegular
      <4> HIDE DEF c
      <4> QED
        BY <4>1, <4>2
    <3>4. b.calls = <<Frame("addStatic", v)>> \o <<>>
      BY <3>2, <3>3, <1>1 DEF Frame
    <3>5. <<Frame("addStatic", v)>> \o <<>> = <<Frame("addStatic", v)>>
      OBVIOUS
    <3> QED
      BY <2>2, <3>3, <3>4, <3>5
  <2> QED
    BY <2>1, <2>2
<1>7. \A x \in Objects : b.static[x] \in Int /\ heap.static[x] \in Int
  BY <1>2, <1>6 DEF Heaps
<1>8. /\ Regular(h) /\ SameBut(h, b) /\ h.calls = b.calls /\ h.dying = b.dying /\ h.ref = b.ref
      /\ h.stored = b.stored
      /\ \A x \in Objects : h.static[x] = IF x = m THEN heap.static[x] - 1 ELSE heap.static[x]
  <2>1. CASE m = NoObject
    BY <2>1, <1>3, <1>5, <1>6 DEF SameBut, SameList
  <2>2. CASE m # NoObject
    <3>1. m \in Objects /\ h = SetStatic(b, m, b.static[m] - 1) /\ b.static[m] - 1 \in Int
      BY <2>2, <1>3, <1>5, <1>7
    <3>2. /\ Regular(h) /\ SameBut(h, b) /\ h.calls = b.calls /\ h.dying = b.dying /\ h.ref = b.ref
          /\ h.stored = b.stored /\ h.static = [b.static EXCEPT ![m] = b.static[m] - 1]
      BY <3>1, <1>6, StaticSet
    <3>3. ASSUME NEW x \in Objects
          PROVE  h.static[x] = IF x = m THEN heap.static[x] - 1 ELSE heap.static[x]
      <4>1. h.static[x] = IF x = m THEN b.static[m] - 1 ELSE b.static[x]
        <5>1. b.static \in [Objects -> Int]
          BY <1>6 DEF Regular, Heaps
        <5> QED
          BY <5>1, <3>1, <3>2
      <4> QED
        BY <4>1, <1>6
    <3> QED
      BY <3>2, <3>3
  <2> QED
    BY <2>1, <2>2
<1>9. heap'.member = heap.member
  <2>1. h.member = heap.member
    BY <1>6, <1>8 DEF SameBut
  <2>2. CASE m = NoObject
    BY <2>1, <2>2, <1>4
  <2>3. CASE m # NoObject
    <3>1. Unstored(heap', h, m)
      BY <2>3, <1>3, <1>4, <1>8, RemoveStoredRegular
    <3> QED
      BY <2>1, <3>1 DEF Unstored
  <2> QED
    BY <2>2, <2>3
<1>10. ASSUME NEW x \in Objects
       PROVE  /\ StaticRefs(x)' = IF v = x THEN StaticRefs(x) \cup {u} ELSE StaticRefs(x) \ {u}
              /\ u \in StaticRefs(x) <=> m = x
              /\ Cardinality(StaticRefs(x)') = Cardinality(StaticRefs(x)) + One(v = x) - One(m = x)
              /\ MemberRefs(x)' = MemberRefs(x) /\ Filled(x)' = Filled(x)
  <2>1. /\ StaticRefs(x)' = IF v = x THEN StaticRefs(x) \cup {u} ELSE StaticRefs(x) \ {u}
        /\ u \in StaticRefs(x) <=> statics[u] = x
        /\ Cardinality(StaticRefs(x)') = Cardinality(StaticRefs(x)) + One(v = x) - One(statics[u] = x)
    BY <1>2, StaticChange
  <2> QED
    BY <2>1, <1>5, <1>9 DEF MemberRefs, Filled
<1>11. ASSUME NEW x \in Objects
       PROVE  /\ Stored(x)' = Stored(x) + One(v = x) - One(m = x)
              /\ x # v /\ x # m => MemberRefs(x)' = MemberRefs(x) /\ StaticRefs(x)' = StaticRefs(x)
  <2>1. /\ Cardinality(MemberRefs(x)) \in Nat /\ Cardinality(StaticRefs(x)) \in Nat
        /\ One(v = x) \in Int /\ One(m = x) \in Int
    <3>1. MemberRefs(x) \in SUBSET (Objects \X (1 .. Slots)) /\ StaticRefs(x) \in SUBSET Statics
      BY RefSets
    <3>2. Cardinality(MemberRefs(x)) \in Nat /\ Cardinality(StaticRefs(x)) \in Nat
      BY <3>1, CountRefs
    <3> QED
      BY <3>2 DEF One
  <2>2. Stored(x)' = Cardinality(MemberRefs(x)') + Cardinality(StaticRefs(x)')
        /\ Stored(x) = Cardinality(MemberRefs(x)) + Cardinality(StaticRefs(x))
    BY DEF Stored
  <2>3. /\ Cardinality(StaticRefs(x)') = Cardinality(StaticRefs(x)) + One(v = x) - One(m = x)
        /\ Cardinality(MemberRefs(x)') = Cardinality(MemberRefs(x))
    BY <1>10
  <2>4. Stored(x)' = Stored(x) + One(v = x) - One(m = x)
    BY <2>1, <2>2, <2>3
  <2>5. x # v /\ x # m => MemberRefs(x)' = MemberRefs(x) /\ StaticRefs(x)' = StaticRefs(x)
    <3>1. StaticRefs(x)' = IF v = x THEN StaticRefs(x) \cup {u} ELSE StaticRefs(x) \ {u}
      BY <1>10
    <3>2. (u \in StaticRefs(x) <=> m = x) /\ MemberRefs(x)' = MemberRefs(x)
      BY <1>10
    <3> QED
      BY <3>1, <3>2
  <2> QED
    BY <2>4, <2>5
<1>12. (v # NoObject => Good(v)) /\ (m # NoObject => Good(m))
  <2>1. m # NoObject => StaticRefs(m) # {}
    BY <1>3, <1>10
  <2> QED
    BY <2>1, <1>3, ScriptState
<1>13. ASSUME v # NoObject
       PROVE  Good(v) /\ Stored(v)' > 0 /\ StaticRefs(v)' # {}
  <2>1. u \in StaticRefs(v)'
    BY <1>3, <1>10, <1>13
  <2>2. Stored(v)' > 0
    BY <2>1, StoredCount
  <2> QED
    BY <2>1, <2>2, <1>12, <1>13
<1>0. PICK op \in AddOps : op = "addStatic"
  BY DEF AddOps
<1>14. /\ h.live = heap.live /\ h.dying = heap.dying /\ h.constant = heap.constant
       /\ h.deleted = heap.deleted /\ h.stored = heap.stored /\ h.ref = heap.ref
       /\ h.marked = heap.marked /\ SameList(h, heap)
       /\ h.calls = IF v = NoObject THEN <<>> ELSE <<Frame(op, v)>>
  BY <1>0, <1>6, <1>8 DEF SameBut, SameList
<1>15. \A x \in Objects :
           /\ held'[x] = held[x] - One(x = v) /\ held[x] \in Nat /\ held'[x] \in Nat
           /\ Stored(x)' = Stored(x) + One(v = x) - One(m = x)
           /\ Cardinality(StaticRefs(x)') =
                IF op = "addStatic" THEN Cardinality(StaticRefs(x)) + One(v = x) - One(m = x)
                                             ELSE Cardinality(StaticRefs(x))
           /\ x # v /\ x # m => MemberRefs(x)' = MemberRefs(x) /\ StaticRefs(x)' = StaticRefs(x)
           /\ Good(x) \/ Filled(x)' \subseteq Filled(x)
  BY <1>0, <1>10, <1>11
<1>16. v # NoObject => /\ Good(v) /\ Stored(v)' > 0
                       /\ op = "add" => \E r \in Objects, t \in 1 .. Slots :
                                                   held'[r] > 0 /\ heap'.member[r][t] = v
                       /\ op = "addStatic" => StaticRefs(v)' # {}
  BY <1>0, <1>13
<1>17. \A x \in Objects :
         h.static[x] = IF op = "addStatic" /\ x = m THEN heap.static[x] - 1 ELSE heap.static[x]
  BY <1>0, <1>8
<1>18. Prepared(op, v, m, h)
  BY <1>4, <1>14, <1>17 DEF Prepared
<1>19. Exchanged(op, v, m)
  BY <1>12, <1>15, <1>16 DEF Exchanged
<1> HIDE <1>0
<1> QED
  BY <1>2, <1>8, <1>18, <1>19, Replaced

LEMMA StackPopped ==
  ASSUME held \in [Objects -> Nat], NEW o \in Objects, Popped(o), NEW x \in Objects
  PROVE  held'[x] = held[x] - One(x = o) /\ held[x] \in Nat /\ held'[x] \in Nat
  BY DEF Popped, One

LEMMA StackKept ==
  ASSUME held \in [Objects -> Nat], UNCHANGED held, NEW x \in Objects
  PROVE  held'[x] = held[x] - One(x = NoObject) /\ held[x] \in Nat /\ held'[x] \in Nat
<1>1. One(x = NoObject) = 0
  BY ObjectsAssumption DEF One
<1> QED
  BY <1>1

LEMMA CountScript ==
  ASSUME CountInv, Script
  PROVE  CallsOwn' /\ CollectionOwns' /\ \A x \in Objects : Account(x)'
<1>1. ~Busy /\ gc.phase = "idle" /\ UNCHANGED gc
  BY DEF Script, New, Load, Drop, Store, Clear, StoreStatic, ClearStatic, Running
<1>2. held \in [Objects -> Nat] /\ heap \in Heaps /\ NoObject \notin Objects /\ Objects \subseteq Maybe /\ NoObject \in Maybe
  BY ObjectsAssumption DEF CountInv, ListInv, Types, Maybe
<1>3. ASSUME NEW p \in Objects, NEW s \in 1 .. Slots, NEW o \in Objects, Store(p, s, o)
      PROVE  CallsOwn' /\ CollectionOwns' /\ \A x \in Objects : Account(x)'
  <2> DEFINE b == SetMember(heap, p, s, o)
             h == IF o = NoObject THEN b ELSE Call(b, "add", o)
  <2>1. heap' = Removed(h, heap.member[p][s]) /\ UNCHANGED statics
    BY <1>2, <1>3 DEF Store, SetMember
  <2>2. held[p] > 0 /\ held[o] > 0 /\ Popped(o) /\ o \in Maybe
    BY <1>2, <1>3 DEF Store, Popped
  <2>3. held'[p] > 0
    <3>1. CASE o = p
      <4>1. held[o] > 1 /\ held'[o] = held[o] - 1 /\ held[o] \in Nat
        BY <3>1, <1>2, <1>3 DEF Store, Popped
      <4> QED
        BY <3>1, <4>1
    <3>2. CASE o # p
      BY <3>2, <2>2, <1>2 DEF Popped
    <3> QED
      BY <3>1, <3>2
  <2>4. \A x \in Objects : held'[x] = held[x] - One(x = o) /\ held[x] \in Nat /\ held'[x] \in Nat
    BY <2>2, <1>2, StackPopped
  <2>5. PICK a, c : a = b /\ c = h
    OBVIOUS
  <2>6. a = SetMember(heap, p, s, o) /\ c = IF o = NoObject THEN a ELSE Call(a, "add", o)
    BY <2>5
  <2>7. heap' = Removed(c, heap.member[p][s])
    BY <2>1, <2>5
  <2> HIDE DEF b, h
  <2> QED
    BY <1>1, <2>1, <2>2, <2>3, <2>4, <2>6, <2>7, MemberReplaced
<1>4. ASSUME NEW p \in Objects, NEW s \in 1 .. Slots, Clear(p, s)
      PROVE  CallsOwn' /\ CollectionOwns' /\ \A x \in Objects : Account(x)'
  <2>1. heap' = Removed(SetMember(heap, p, s, NoObject), heap.member[p][s]) /\ UNCHANGED statics
    BY <1>4 DEF Clear, SetMember
  <2>2. held[p] > 0 /\ UNCHANGED held
    BY <1>4 DEF Clear
  <2>3. held'[p] > 0
    BY <2>2
  <2>4. PICK v \in Maybe : v = NoObject
    BY <1>2
  <2>5. \A x \in Objects : held'[x] = held[x] - One(x = v) /\ held[x] \in Nat /\ held'[x] \in Nat
    BY <2>2, <2>4, <1>2, StackKept
  <2>6. PICK a, c : a = SetMember(heap, p, s, v) /\ c = a
    OBVIOUS
  <2>7. c = IF v = NoObject THEN a ELSE Call(a, "add", v)
    BY <2>4, <2>6
  <2>8. heap' = Removed(c, heap.member[p][s])
    BY <2>1, <2>4, <2>6
  <2>9. v # NoObject => held[v] > 0
    BY <2>4
  <2> QED
    BY <1>1, <2>1, <2>2, <2>3, <2>5, <2>6, <2>7, <2>8, <2>9, MemberReplaced
<1>5. ASSUME NEW u \in Statics, NEW o \in Objects, StoreStatic(u, o)
      PROVE  CallsOwn' /\ CollectionOwns' /\ \A x \in Objects : Account(x)'
  <2>1. heap' = RemovedStatic(Call(heap, "addStatic", o), statics[u]) /\ ClassSet(u, o)
    BY <1>5 DEF StoreStatic, ClassSet
  <2>2. held[o] > 0 /\ Popped(o) /\ o \in Maybe
    BY <1>2, <1>5 DEF StoreStatic, Popped
  <2>3. \A x \in Objects : held'[x] = held[x] - One(x = o) /\ held[x] \in Nat /\ held'[x] \in Nat
    BY <2>2, <1>2, StackPopped
  <2>4. PICK b : b = IF o = NoObject THEN heap ELSE Call(heap, "addStatic", o)
    OBVIOUS
  <2>5. heap' = RemovedStatic(b, statics[u])
    BY <2>1, <2>4, <1>2
  <2> QED
    BY <1>1, <2>1, <2>2, <2>3, <2>4, <2>5, StaticReplaced
<1>6. ASSUME NEW u \in Statics, ClearStatic(u)
      PROVE  CallsOwn' /\ CollectionOwns' /\ \A x \in Objects : Account(x)'
  <2>1. heap' = RemovedStatic(heap, statics[u]) /\ ClassSet(u, NoObject) /\ UNCHANGED held
    BY <1>6 DEF ClearStatic, ClassSet
  <2>2. PICK v \in Maybe : v = NoObject
    BY <1>2
  <2>3. \A x \in Objects : held'[x] = held[x] - One(x = v) /\ held[x] \in Nat /\ held'[x] \in Nat
    BY <2>1, <2>2, <1>2, StackKept
  <2>4. PICK b : b = heap
    OBVIOUS
  <2>5. b = (IF v = NoObject THEN heap ELSE Call(heap, "addStatic", v)) /\ heap' = RemovedStatic(b, statics[u])
    BY <2>1, <2>2, <2>4
  <2>6. ClassSet(u, v) /\ (v # NoObject => held[v] > 0)
    BY <2>1, <2>2
  <2> QED
    BY <1>1, <2>3, <2>5, <2>6, StaticReplaced
<1> QED
  BY <1>3, <1>4, <1>5, <1>6, CountNew, CountLoad, CountDrop DEF Script

(***************************************************************************)
(* The calls in progress.                                                  *)
(***************************************************************************)
LEMMA Calling ==
  ASSUME CountInv, Busy
  PROVE  /\ Regular(heap) /\ Types /\ heap \in Heaps /\ heap.calls \in Seq(Frames) /\ heap.calls # <<>>
         /\ Innermost.obj \in Objects /\ Innermost.op \in Ops
         /\ Innermost = Head(heap.calls) /\ Innermost = Frame(Innermost.op, Innermost.obj)
         /\ In(Innermost.op, Innermost.obj)
<1>1. Regular(heap) /\ Types /\ heap \in Heaps /\ heap.calls \in Seq(Frames) /\ heap.calls # <<>>
  BY ListParts DEF CountInv, Regular, Heaps, Busy
<1>2. /\ Len(heap.calls) \in Nat \ {0} /\ Head(heap.calls) = heap.calls[1] /\ Head(heap.calls) \in Frames
  BY <1>1, PopCall
<1>3. Innermost \in Frames /\ Innermost = heap.calls[1] /\ Innermost = Head(heap.calls)
  BY <1>2 DEF Innermost
<1>4. Innermost.obj \in Objects /\ Innermost.op \in Ops /\ Innermost = Frame(Innermost.op, Innermost.obj)
  BY <1>3, FrameIn
<1>5. 1 \in DOMAIN heap.calls
  BY <1>1, <1>2
<1>6. In(Innermost.op, Innermost.obj)
  BY <1>3, <1>4, <1>5 DEF In, Within, Frame
<1> QED
  BY <1>1, <1>3, <1>4, <1>6

\* An object whose variables go is unused, or a collection has it.
LEMMA Destroying ==
  ASSUME CountInv, NEW p \in Objects
  PROVE  /\ In("release", p) => Dying(p)
         /\ In("collect", p) => Condemned(p)
         /\ In("release", p) \/ In("collect", p) => held[p] = 0
<1>1. (In("release", p) => heap.dying[p]) /\ (In("collect", p) => heap.constant[p]) /\ Account(p)
  BY DEF CountInv, CallsOwn
<1>2. heap.dying[p] => Dying(p)
  BY <1>1 DEF Account, Good, Dead, Condemned
<1>3. heap.constant[p] => Condemned(p)
  BY <1>1 DEF Account, Good, Dead, Dying, Plain
<1>4. (Dying(p) => held[p] = 0) /\ (Condemned(p) => held[p] = 0)
  BY DEF Dying, Unused, Condemned
<1> QED
  BY <1>1, <1>2, <1>3, <1>4

\* The collection comes to what it has condemned, as long as the list only grows.
LEMMA OwnsStep ==
  ASSUME CountInv, UNCHANGED gc, heap'.constant = heap.constant, Grown(heap', heap)
  PROVE  CollectionOwns'
<1>1. gc.next \in Maybe
  BY DEF CountInv, ListInv, Types
<1>2. gc.next # NoObject => Ahead(heap, gc.next) \subseteq Ahead(heap', gc.next)
  BY <1>1 DEF Grown, Maybe
<1> QED
  BY <1>2 DEF CountInv, CollectionOwns

LEMMA CountVariable ==
  ASSUME CountInv, DestroyVariable
  PROVE  CallsOwn' /\ CollectionOwns' /\ \A x \in Objects : Account(x)'
<1>1. Busy /\ Innermost.op \in {"release", "collect"} /\ UNCHANGED <<held, statics, gc>>
  BY DEF DestroyVariable
<1>2. PICK p \in Objects : p = Innermost.obj
  BY <1>1, Calling
<1>3. PICK s \in Filled(p) : heap' = removeStoredMember([heap EXCEPT !.member[p][s] = NoObject], heap.member[p][s])
  BY <1>2 DEF DestroyVariable
<1>4. /\ Regular(heap) /\ Types /\ heap \in Heaps /\ heap.calls \in Seq(Frames) /\ heap.calls # <<>>
      /\ In(Innermost.op, p)
  BY <1>1, <1>2, Calling
<1>5. s \in 1 .. Slots /\ heap.member[p][s] \in Objects
  <2>1. s \in 1 .. Slots /\ heap.member[p][s] # NoObject
    BY DEF Filled
  <2>2. heap.member \in [Objects -> [1 .. Slots -> Maybe]]
    BY <1>4 DEF Heaps
  <2>3. heap.member[p][s] \in Maybe
    BY <2>1, <2>2
  <2> QED
    BY <2>1, <2>3 DEF Maybe
<1>6. PICK m \in Objects : m = heap.member[p][s]
  BY <1>5
<1>7. PICK b : b = SetMember(heap, p, s, NoObject)
  OBVIOUS
<1>8. NoObject \in Maybe /\ NoObject \notin Objects
  BY ObjectsAssumption DEF Maybe
<1>9. /\ b \in Heaps /\ SameList(b, heap) /\ b.marked = heap.marked /\ b.calls = heap.calls
      /\ b.live = heap.live /\ b.deleted = heap.deleted /\ b.dying = heap.dying /\ b.constant = heap.constant
      /\ b.ref = heap.ref /\ b.stored = heap.stored /\ b.static = heap.static
      /\ b.member = [heap.member EXCEPT ![p] = [@ EXCEPT ![s] = NoObject]]
  <2> HIDE <1>7
  <2> QED
    BY <1>4, <1>5, <1>7, <1>8, ClearedMember
<1>10. Regular(b) /\ ChainOf(b) = ChainOf(heap) /\ Grown(b, heap) /\ \A x : Listed(b, x) <=> Listed(heap, x)
  <2>1. Regular(b) /\ Grown(b, heap) /\ ChainOf(b) = ChainOf(heap)
    BY <1>4, <1>9, SameRegular
  <2>2. \A x : Listed(b, x) <=> Listed(heap, x)
    BY <1>9 DEF Listed, SameList
  <2> QED
    BY <2>1, <2>2
<1>11. heap' = removeStoredMember(b, m)
  BY <1>3, <1>6, <1>7 DEF SetMember
<1>12. Regular(heap') /\ Grown(heap', b) /\ Unstored(heap', b, m)
  BY <1>10, <1>11, RemoveStoredRegular
<1>13. heap'.member = [heap.member EXCEPT ![p] = [@ EXCEPT ![s] = NoObject]] /\ heap'.constant = heap.constant
  BY <1>9, <1>12 DEF Unstored
\* Who refers to whom.
<1>14. ASSUME NEW x \in Objects
       PROVE  /\ MemberRefs(x)' = MemberRefs(x) \ {<<p, s>>}
              /\ <<p, s>> \in MemberRefs(x) <=> m = x
              /\ Cardinality(MemberRefs(x)') = Cardinality(MemberRefs(x)) - One(m = x)
  <2>1. /\ MemberRefs(x)' = IF NoObject = x THEN MemberRefs(x) \cup {<<p, s>>} ELSE MemberRefs(x) \ {<<p, s>>}
        /\ <<p, s>> \in MemberRefs(x) <=> heap.member[p][s] = x
        /\ Cardinality(MemberRefs(x)') = Cardinality(MemberRefs(x)) + One(NoObject = x) - One(heap.member[p][s] = x)
    BY <1>4, <1>5, <1>8, <1>13, MemberChange
  <2>2. One(NoObject = x) = 0 /\ NoObject # x
    BY <1>8 DEF One
  <2>3. Cardinality(MemberRefs(x)) \in Nat
    <3>1. MemberRefs(x) \in SUBSET (Objects \X (1 .. Slots)) /\ StaticRefs(x) \in SUBSET Statics
      BY RefSets
    <3> QED
      BY <3>1, CountRefs
  <2>4. MemberRefs(x)' = MemberRefs(x) \ {<<p, s>>}
    BY <2>1, <2>2
  <2>5. <<p, s>> \in MemberRefs(x) <=> m = x
    BY <2>1, <1>6
  <2>6. Cardinality(MemberRefs(x)') = Cardinality(MemberRefs(x)) - One(m = x)
    <3>1. One(heap.member[p][s] = x) = One(m = x) /\ One(m = x) \in Int
      BY <1>6 DEF One
    <3> QED
      BY <2>1, <2>2, <2>3, <3>1
  <2> QED
    BY <2>4, <2>5, <2>6
<1>15. \A x : StaticRefs(x)' = StaticRefs(x)
  BY <1>1 DEF StaticRefs
<1>16. \A r \in Objects, t \in 1 .. Slots :
         /\ heap'.member[r][t] \in {heap.member[r][t], NoObject}
         /\ r # p => heap'.member[r][t] = heap.member[r][t]
  <2> SUFFICES ASSUME NEW r \in Objects, NEW t \in 1 .. Slots
               PROVE  /\ heap'.member[r][t] \in {heap.member[r][t], NoObject}
                      /\ r # p => heap'.member[r][t] = heap.member[r][t]
    OBVIOUS
  <2>1. heap.member \in [Objects -> [1 .. Slots -> Maybe]] /\ heap.member[p] \in [1 .. Slots -> Maybe]
    BY <1>4 DEF Heaps
  <2>2. heap'.member[r] = IF r = p THEN [heap.member[p] EXCEPT ![s] = NoObject] ELSE heap.member[r]
    BY <2>1, <1>13
  <2> QED
    BY <2>1, <2>2
<1>17. \A x \in Objects : Filled(x)' \subseteq Filled(x)
  BY <1>16 DEF Filled
\* The calls.
<1>18. held[p] = 0 /\ (Condemned(p) => In("collect", p))
  <2>1. In("release", p) \/ In("collect", p)
    BY <1>1, <1>4
  <2>2. Condemned(p) => ~In("release", p)
    BY DEF CountInv, CallsOwn, Condemned
  <2> QED
    BY <2>1, <2>2, Destroying
<1>19. Good(m) \/ Condemned(m)
  <2>1. MemberRefs(m) # {}
    BY <1>14
  <2> QED
    BY <2>1 DEF CountInv, Account, Dead, Dying, Unused
<1>20. ~In("release", m) /\ (Condemned(m) => Frozen(b, m))
  BY <1>9, <1>19 DEF CountInv, CallsOwn, Good, Condemned, Frozen
<1>21. ASSUME Good(m)
       PROVE  /\ Good(m)' \/ Dying(m)'
              /\ \/ heap'.calls = heap.calls
                 \/ heap'.calls = <<Frame("release", m)>> \o heap.calls /\ heap'.dying[m]
  <2>1. m # p
    <3>1. In("release", p) => ~Good(p)
      BY Destroying DEF Good, Dying
    <3>2. In("collect", p) => ~Good(p)
      BY Destroying DEF Good, Condemned, Plain
    <3> QED
      BY <3>1, <3>2, <1>1, <1>4, <1>21
  <2>2. Stored(m)' = Stored(m) - 1 /\ Stored(m)' \in Nat /\ Stored(m) \in Nat
    <3>1. Cardinality(MemberRefs(m)') = Cardinality(MemberRefs(m)) - 1
      BY <1>14 DEF One
    <3>2. Stored(m)' = Cardinality(MemberRefs(m)') + Cardinality(StaticRefs(m)')
          /\ Stored(m) = Cardinality(MemberRefs(m)) + Cardinality(StaticRefs(m))
      BY DEF Stored
    <3>3. Cardinality(StaticRefs(m)') = Cardinality(StaticRefs(m))
      BY <1>15
    <3>4. MemberRefs(m) \in SUBSET (Objects \X (1 .. Slots)) /\ StaticRefs(m) \in SUBSET Statics
      BY RefSets
    <3>5. Cardinality(MemberRefs(m)) \in Nat /\ Cardinality(StaticRefs(m)) \in Nat
      BY <3>4, CountRefs
    <3>6. Stored(m)' \in Nat /\ Stored(m) \in Nat
      BY StoredCount
    <3> QED
      BY <3>1, <3>2, <3>3, <3>5, <3>6
  <2>3. In("add", m) => \E r \in Objects, t \in 1 .. Slots : held'[r] > 0 /\ heap'.member[r][t] = m
    <3> SUFFICES ASSUME In("add", m) PROVE \E r \in Objects, t \in 1 .. Slots : held'[r] > 0 /\ heap'.member[r][t] = m
      OBVIOUS
    <3>1. PICK r \in Objects, t \in 1 .. Slots : held[r] > 0 /\ heap.member[r][t] = m
      BY DEF CountInv, CallsOwn
    <3>2. r # p
      BY <3>1, <1>18
    <3> QED
      BY <3>1, <3>2, <1>1, <1>16
  <2>4. Adding(m) => Stored(m)' > 0
    <3>1. CASE In("add", m)
      <4>1. MemberRefs(m)' # {}
        <5>1. PICK r \in Objects, t \in 1 .. Slots : heap'.member[r][t] = m
          BY <3>1, <2>3
        <5>2. <<r, t>> \in MemberRefs(m)'
          BY <5>1 DEF MemberRefs
        <5> QED
          BY <5>2
      <4>2. Stored(m)' # 0
        BY <4>1, StoredCount
      <4> QED
        BY <4>2, <2>2
    <3>2. CASE In("addStatic", m)
      <4>1. StaticRefs(m)' # {}
        BY <3>2, <1>15 DEF CountInv, CallsOwn
      <4>2. Stored(m)' # 0
        BY <4>1, StoredCount
      <4> QED
        BY <4>2, <2>2
    <3> QED
      BY <3>1, <3>2 DEF Adding
  <2>5. Exact(b, m, b.calls)
    <3>1. One(Adding(m)) = One(Within(b.calls, "add", m) \/ Within(b.calls, "addStatic", m))
          /\ One(In("addStatic", m)) = One(Within(b.calls, "addStatic", m))
          /\ (Adding(m) <=> Within(b.calls, "add", m) \/ Within(b.calls, "addStatic", m))
      BY <1>9 DEF Adding, In
    <3>2. One(Listed(b, m)) = One(Listed(heap, m)) /\ One(Listed(heap, m)) \in {0, 1} /\ One(Adding(m)) \in {0, 1}
      BY <1>10 DEF One
    <3>3. held'[m] = held[m] /\ held[m] \in Nat
      BY <1>1, <1>4 DEF Types
    <3>4. /\ heap.stored[m] = Stored(m) - One(Adding(m))
          /\ heap.static[m] = Cardinality(StaticRefs(m)) - One(In("addStatic", m))
          /\ heap.ref[m] = Stored(m) + held[m] + One(Listed(heap, m))
          /\ heap.live[m] /\ ~heap.dying[m] /\ ~heap.constant[m] /\ ~heap.deleted[m]
      BY <1>21 DEF Good, Plain, Refs
    <3>5. b.stored[m] = Stored(m)' + 1 - One(Adding(m))
      BY <3>2, <3>4, <2>2, <1>9
    <3>6. b.ref[m] = Stored(m)' + 1 + held'[m] + One(Listed(b, m))
      BY <3>2, <3>3, <3>4, <2>2, <1>9
    <3>7. b.static[m] = Cardinality(StaticRefs(m)') - One(In("addStatic", m))
      BY <3>4, <1>9, <1>15
    <3> QED
      BY <3>1, <3>4, <3>5, <3>6, <3>7, <2>4, <1>9 DEF Exact
  <2>6. held'[m] \in Nat
    BY <1>1, <1>4 DEF Types
  <2>7. /\ Good(m)' \/ Dying(m)'
        /\ \/ heap'.calls = heap.calls
           \/ heap'.calls = <<Frame("release", m)>> \o heap.calls /\ heap'.dying[m]
    <3>1. /\ Regular(heap') /\ Unstored(heap', b, m)
          /\ Good(m)' \/ Dying(m)'
          /\ \/ heap'.calls = b.calls
             \/ heap'.calls = <<Frame("release", m)>> \o b.calls /\ heap'.dying[m]
      BY <2>5, <2>6, <1>10, <1>11, RemovedAccount
    <3> QED
      BY <3>1, <1>9
  <2> QED
    BY <2>7
<1>22. ASSUME Condemned(m)
       PROVE  Condemned(m)' /\ heap'.calls = heap.calls
  <2>1. heap' = b
    BY <1>12, <1>20, <1>22 DEF Unstored
  <2>2. \A f, o : In(f, o)' <=> In(f, o)
    BY <2>1, <1>9 DEF In
  <2>3. \A r \in Objects, t \in 1 .. Slots : heap'.member[r][t] = m => heap.member[r][t] = m
    BY <1>8, <1>16
  <2>4. (Listed(heap', m) <=> Listed(heap, m)) /\ heap'.marked[m] = heap.marked[m] /\ Filled(m)' \subseteq Filled(m)
    BY <2>1, <1>9, <1>10, <1>17
  <2>5. /\ heap'.live[m] /\ ~heap'.dying[m] /\ heap'.constant[m] /\ heap'.deleted[m]
        /\ held'[m] = 0 /\ StaticRefs(m)' = {}
    BY <2>1, <1>1, <1>9, <1>15, <1>22 DEF Condemned
  <2>6. \A r \in Objects, t \in 1 .. Slots : heap'.member[r][t] = m => In("collect", r)'
    BY <2>2, <2>3, <1>22 DEF Condemned
  <2>7. In("collect", m)' \/ (Listed(heap', m) /\ heap'.marked[m] /\ Filled(m)' = {})
    BY <2>2, <2>4, <1>22 DEF Condemned
  <2>8. In("collect", m)' => ~Listed(heap', m)
    BY <2>2, <2>4, <1>22 DEF Condemned
  <2> QED
    BY <2>1, <2>5, <2>6, <2>7, <2>8, <1>9 DEF Condemned
<1>23. /\ Account(m)'
       /\ \/ heap'.calls = heap.calls
          \/ heap'.calls = <<Frame("release", m)>> \o heap.calls /\ heap'.dying[m]
  BY <1>19, <1>21, <1>22 DEF Account
<1>24. /\ Unique(heap'.calls)
       /\ \A f, o : In(f, o)' => In(f, o) \/ (f = "release" /\ o = m /\ heap'.dying[o])
       /\ \A f, o : In(f, o) => In(f, o)'
  <2>1. Unique(heap.calls) /\ ~Within(heap.calls, "release", m)
    BY <1>20 DEF CountInv, CallsOwn, In
  <2>2. CASE heap'.calls = heap.calls
    BY <2>1, <2>2 DEF In
  <2>3. CASE heap'.calls # heap.calls
    <3>1. /\ Unique(heap'.calls)
          /\ \A op, o : In(op, o)' => \/ Within(heap.calls, op, o)
                                      \/ heap'.calls # heap.calls /\ op = "release" /\ o = m
          /\ \A op, o : Within(heap.calls, op, o) => In(op, o)'
      BY <2>1, <1>4, <1>23, CallsAfter
    <3> QED
      BY <2>3, <3>1, <1>23 DEF In
  <2> QED
    BY <2>2, <2>3
<1>25. \A o \in Objects : heap.dying[o] => heap'.dying[o]
  <2> SUFFICES ASSUME NEW o \in Objects, heap.dying[o] PROVE heap'.dying[o]
    OBVIOUS
  <2>1. CASE o = m
    <3>1. Frozen(b, m)
      BY <2>1, <1>9 DEF Frozen
    <3> QED
      BY <2>1, <3>1, <1>9, <1>12 DEF Unstored
  <2>2. CASE o # m
    BY <2>2, <1>9, <1>10, <1>12, UnstoredOther
  <2> QED
    BY <2>1, <2>2
<1>26. CallsOwn'
  <2> SUFFICES ASSUME NEW o \in Objects
               PROVE  /\ In("release", o)' => heap'.dying[o]
                      /\ In("collect", o)' => heap'.constant[o]
                      /\ In("add", o)' => \E r \in Objects, t \in 1 .. Slots :
                                            held'[r] > 0 /\ heap'.member[r][t] = o
                      /\ In("addStatic", o)' => StaticRefs(o)' # {}
    BY <1>24 DEF CallsOwn
  <2>1. In("release", o)' => heap'.dying[o]
    BY <1>24, <1>25 DEF CountInv, CallsOwn
  <2>2. In("collect", o)' => heap'.constant[o]
    BY <1>13, <1>24 DEF CountInv, CallsOwn
  <2>3. In("addStatic", o)' => StaticRefs(o)' # {}
    BY <1>15, <1>24 DEF CountInv, CallsOwn
  <2>4. ASSUME In("add", o)' PROVE \E r \in Objects, t \in 1 .. Slots : held'[r] > 0 /\ heap'.member[r][t] = o
    <3>1. PICK r \in Objects, t \in 1 .. Slots : held[r] > 0 /\ heap.member[r][t] = o
      BY <2>4, <1>24 DEF CountInv, CallsOwn
    <3>2. r # p
      BY <3>1, <1>18
    <3> QED
      BY <3>1, <3>2, <1>1, <1>16
  <2> QED
    BY <2>1, <2>2, <2>3, <2>4
<1>27. CollectionOwns'
  <2>1. \A x \in Objects : Ahead(heap, x) \subseteq Ahead(heap', x)
    BY <1>10, <1>12 DEF Grown
  <2>2. Grown(heap', heap)
    BY <2>1, <1>10, <1>12 DEF Grown
  <2> QED
    BY <2>2, <1>1, <1>13, OwnsStep
<1>28. ASSUME NEW x \in Objects, x # m PROVE Account(x)'
  <2>1. /\ heap'.live[x] = b.live[x] /\ heap'.dying[x] = b.dying[x]
        /\ heap'.constant[x] = b.constant[x] /\ heap'.deleted[x] = b.deleted[x]
        /\ heap'.stored[x] = b.stored[x] /\ heap'.static[x] = b.static[x] /\ heap'.ref[x] = b.ref[x]
        /\ heap'.marked[x] = b.marked[x]
        /\ Listed(heap', x) <=> Listed(b, x)
    BY <1>10, <1>12, <1>28, UnstoredOther
  <2>2. MemberRefs(x)' = MemberRefs(x)
    <3>1. MemberRefs(x)' = MemberRefs(x) \ {<<p, s>>} /\ <<p, s>> \notin MemberRefs(x)
      BY <1>14, <1>28
    <3> QED
      BY <3>1
  <2>3. \A f \in Ops : In(f, x)' <=> In(f, x)
    BY <1>24, <1>28
  <2>4. Same(x)
    BY <2>1, <2>2, <2>3, <1>1, <1>9, <1>10, <1>15 DEF Same
  <2>5. Account(x) /\ \A r \in Objects, t \in 1 .. Slots : heap.member[r][t] = x /\ In("collect", r) => In("collect", r)'
    BY <1>24 DEF CountInv
  <2> QED
    BY <2>4, <2>5, <1>17, SameAccount
<1> QED
  BY <1>23, <1>26, <1>27, <1>28

LEMMA CountDestroyed ==
  ASSUME CountInv, Destroyed
  PROVE  CallsOwn' /\ CollectionOwns' /\ \A x \in Objects : Account(x)'
<1>1. Busy /\ Innermost.op \in {"release", "collect"} /\ UNCHANGED <<held, statics, gc>>
  BY DEF Destroyed
<1>2. PICK p \in Objects, op \in {"release", "collect"} : p = Innermost.obj /\ op = Innermost.op
  BY <1>1, Calling
<1>3. PICK b : b = Return(heap)
  OBVIOUS
<1>4. /\ Regular(heap) /\ Types /\ heap \in Heaps /\ heap.calls \in Seq(Frames) /\ heap.calls # <<>>
      /\ Head(heap.calls) = Frame(op, p) /\ In(op, p)
  BY <1>1, <1>2, Calling
<1>5. /\ Filled(p) = {}
      /\ op = "release" => heap' = Released(b, p)
      /\ op = "collect" => heap' = Mark(b, p)
  BY <1>2, <1>3 DEF Destroyed
<1>6. /\ Regular(b) /\ Grown(b, heap) /\ SameBut(b, heap) /\ ChainOf(b) = ChainOf(heap)
      /\ b.dying = heap.dying /\ b.ref = heap.ref /\ b.stored = heap.stored /\ b.static = heap.static
      /\ b.calls = Tail(heap.calls)
  <2> HIDE <1>3
  <2> QED
    BY <1>3, <1>4, ReturnRegular
<1>7. /\ Unique(Tail(heap.calls))
      /\ \A f, o : Within(Tail(heap.calls), f, o) <=> In(f, o) /\ Frame(op, p) # Frame(f, o)
  <2>1. Unique(heap.calls)
    BY DEF CountInv, CallsOwn
  <2>2. /\ \A f, o : Within(Tail(heap.calls), f, o) <=> Within(heap.calls, f, o) /\ Head(heap.calls) # Frame(f, o)
        /\ Unique(Tail(heap.calls))
    BY <2>1, <1>4, PopWithin
  <2> QED
    BY <2>2, <1>4 DEF In
\* What both ends have in common.
<1>8. /\ Grown(heap', heap) /\ heap'.constant = heap.constant /\ heap'.member = heap.member
      /\ heap'.calls = Tail(heap.calls) /\ heap'.deleted = heap.deleted
      /\ \A x \in Objects : x # p =>
           /\ heap'.live[x] = heap.live[x] /\ heap'.dying[x] = heap.dying[x]
           /\ heap'.stored[x] = heap.stored[x] /\ heap'.static[x] = heap.static[x] /\ heap'.ref[x] = heap.ref[x]
           /\ heap'.marked[x] = heap.marked[x]
           /\ Listed(heap', x) <=> Listed(heap, x)
  <2>1. CASE op = "release"
    <3>1. Grown(heap', b) /\ ChainOf(heap') = ChainOf(b) /\ Gone(heap', b, p)
      BY <2>1, <1>5, <1>6, ReleasedRegular
    <3>2. /\ heap'.constant = heap.constant /\ heap'.member = heap.member
          /\ heap'.calls = Tail(heap.calls) /\ heap'.deleted = heap.deleted
      BY <3>1, <1>6 DEF Gone, SameBut
    <3>3. ASSUME NEW x \in Objects, x # p
          PROVE  /\ heap'.live[x] = heap.live[x] /\ heap'.dying[x] = heap.dying[x]
                 /\ heap'.stored[x] = heap.stored[x] /\ heap'.static[x] = heap.static[x] /\ heap'.ref[x] = heap.ref[x]
                 /\ heap'.marked[x] = heap.marked[x]
      BY <3>1, <3>3, <1>4, <1>6 DEF Gone, SameBut, Heaps
    <3>4. \A x \in Objects : Listed(heap', x) <=> Listed(heap, x)
      BY <3>1, <1>6 DEF ChainOf
    <3>5. Grown(heap', heap)
      BY <3>1, <1>6 DEF Grown
    <3> QED
      BY <3>2, <3>3, <3>4, <3>5
  <2>2. CASE op = "collect"
    <3>1. Grown(heap', b) /\ Counts(heap', b) /\ heap'.marked = [b.marked EXCEPT ![p] = TRUE]
          /\ ChainOf(heap') = ChainOf(b) \cup {p}
      BY <2>2, <1>5, <1>6, MarkRegular
    <3>2. /\ heap'.constant = heap.constant /\ heap'.member = heap.member
          /\ heap'.calls = Tail(heap.calls) /\ heap'.deleted = heap.deleted
          /\ heap'.live = heap.live /\ heap'.dying = heap.dying
          /\ heap'.stored = heap.stored /\ heap'.static = heap.static /\ heap'.ref = heap.ref
      BY <3>1, <1>6 DEF Counts, SameBut
    <3>3. \A x \in Objects : x # p => heap'.marked[x] = heap.marked[x]
      BY <3>1, <1>4, <1>6 DEF SameBut, Heaps
    <3>4. \A x \in Objects : x # p => (Listed(heap', x) <=> Listed(heap, x))
      <4>1. \A x \in Objects : x # p => (x \in ChainOf(heap') <=> x \in ChainOf(heap))
        BY <3>1, <1>6
      <4> QED
        BY <4>1 DEF ChainOf
    <3>5. Grown(heap', heap)
      BY <3>1, <1>6 DEF Grown
    <3> QED
      BY <3>2, <3>3, <3>4, <3>5
  <2> QED
    BY <2>1, <2>2
<1>9. /\ \A f, o : In(f, o)' <=> In(f, o) /\ ~(f = op /\ o = p)
      /\ Unique(heap'.calls)
  <2>1. \A f, o : Frame(op, p) = Frame(f, o) <=> f = op /\ o = p
    BY FrameIn
  <2> QED
    BY <2>1, <1>7, <1>8 DEF In
<1>10. \A x : StaticRefs(x)' = StaticRefs(x) /\ MemberRefs(x)' = MemberRefs(x) /\ Filled(x)' = Filled(x)
  BY <1>1, <1>8 DEF StaticRefs, MemberRefs, Filled
<1>11. Account(p)'
  <2>1. CASE op = "release"
    <3>1. Dying(p)
      BY <2>1, <1>4, Destroying
    <3>2. ChainOf(heap') = ChainOf(b) /\ Gone(heap', b, p)
      BY <2>1, <1>5, <1>6, ReleasedRegular
    <3>3. ~heap'.live[p] /\ ~heap'.dying[p] /\ ~Listed(heap', p)
      <4>1. ~heap'.live[p] /\ ~heap'.dying[p]
        BY <3>2, <1>4, <1>6 DEF Gone, SameBut, Heaps
      <4>2. p \notin ChainOf(heap')
        BY <3>1, <3>2, <1>6 DEF Dying, ChainOf
      <4> QED
        BY <4>1, <4>2 DEF ChainOf
    <3> QED
      BY <3>1, <3>3, <1>1, <1>5, <1>8, <1>10 DEF Account, Dying, Dead, Plain, Unused
  <2>2. CASE op = "collect"
    <3>1. Condemned(p)
      BY <2>2, <1>4, Destroying
    <3>2. Counts(heap', b) /\ heap'.marked = [b.marked EXCEPT ![p] = TRUE] /\ ChainOf(heap') = ChainOf(b) \cup {p}
      BY <2>2, <1>5, <1>6, MarkRegular
    <3>3. heap'.live[p] /\ ~heap'.dying[p] /\ heap'.constant[p] /\ heap'.deleted[p]
      BY <3>1, <3>2, <1>6 DEF Counts, SameBut, Condemned
    <3>4. heap'.marked[p] /\ Listed(heap', p)
      BY <3>2, <1>4, <1>6 DEF SameBut, Heaps, ChainOf
    <3>5. ASSUME NEW r \in Objects, NEW t \in 1 .. Slots, heap'.member[r][t] = p PROVE In("collect", r)'
      <4>1. heap.member[r][t] = p /\ In("collect", r)
        BY <3>1, <3>5, <1>8 DEF Condemned
      <4>2. r # p
        BY <4>1, <1>5, ObjectsAssumption DEF Filled
      <4> QED
        BY <4>1, <4>2, <1>9
    <3>6. ~In("collect", p)' /\ Filled(p)' = {}
      BY <2>2, <1>5, <1>9, <1>10
    <3>7. held'[p] = 0 /\ StaticRefs(p)' = {}
      BY <3>1, <1>1, <1>10 DEF Condemned
    <3> QED
      BY <3>3, <3>4, <3>5, <3>6, <3>7 DEF Account, Condemned
  <2> QED
    BY <2>1, <2>2
<1>12. ASSUME NEW x \in Objects, x # p PROVE Account(x)'
  <2>1. \A f \in Ops : In(f, x)' <=> In(f, x)
    BY <1>9, <1>12
  <2>2. Same(x)
    BY <2>1, <1>1, <1>8, <1>10, <1>12 DEF Same
  <2>3. ASSUME NEW r \in Objects, NEW t \in 1 .. Slots, heap.member[r][t] = x, In("collect", r)
        PROVE  In("collect", r)'
    <3>1. r # p
      BY <2>3, <1>5, ObjectsAssumption DEF Filled
    <3> QED
      BY <2>3, <3>1, <1>9
  <2>4. Account(x)
    BY DEF CountInv
  <2> QED
    BY <2>2, <2>3, <2>4, <1>10, SameAccount
<1>13. CallsOwn'
  <2> SUFFICES ASSUME NEW o \in Objects
               PROVE  /\ In("release", o)' => heap'.dying[o]
                      /\ In("collect", o)' => heap'.constant[o]
                      /\ In("add", o)' => \E r \in Objects, t \in 1 .. Slots :
                                            held'[r] > 0 /\ heap'.member[r][t] = o
                      /\ In("addStatic", o)' => StaticRefs(o)' # {}
    BY <1>9 DEF CallsOwn
  <2>1. /\ In("release", o) => heap.dying[o]
        /\ In("collect", o) => heap.constant[o]
        /\ In("add", o) => \E r \in Objects, t \in 1 .. Slots : held[r] > 0 /\ heap.member[r][t] = o
        /\ In("addStatic", o) => StaticRefs(o) # {}
    BY DEF CountInv, CallsOwn
  <2>2. ASSUME In("release", o)' PROVE heap'.dying[o]
    <3>1. CASE o # p
      BY <2>1, <2>2, <3>1, <1>8, <1>9
    <3>2. CASE o = p
      <4>1. op = "collect" /\ In("release", p)
        BY <2>2, <3>2, <1>9
      <4>2. Condemned(p)
        BY <4>1, <1>4, Destroying
      <4> QED
        BY <2>1, <3>2, <4>1, <4>2 DEF Condemned
    <3> QED
      BY <3>1, <3>2
  <2> QED
    BY <2>1, <2>2, <1>1, <1>8, <1>9, <1>10
<1>14. CollectionOwns'
  BY <1>1, <1>8, OwnsStep
<1> QED
  BY <1>11, <1>12, <1>13, <1>14

LEMMA CountAdded ==
  ASSUME CountInv, AddNewValue
  PROVE  CallsOwn' /\ CollectionOwns' /\ \A x \in Objects : Account(x)'
<1>1. Busy /\ Innermost.op \in AddOps /\ UNCHANGED <<held, statics, gc>>
  BY DEF AddNewValue, AddOps
<1>2. PICK o \in Objects, op \in AddOps : o = Innermost.obj /\ op = Innermost.op
  BY <1>1, Calling
<1>3. PICK b : b = Return(heap)
  OBVIOUS
<1>4. PICK a : a = addStoredMember(b, o)
  OBVIOUS
<1>5. /\ Regular(heap) /\ Types /\ heap \in Heaps /\ heap.calls \in Seq(Frames) /\ heap.calls # <<>>
      /\ Head(heap.calls) = Frame(op, o) /\ In(op, o)
  BY <1>1, <1>2, Calling
<1>6. heap' = IF op = "add" THEN a ELSE SetStatic(a, o, a.static[o] + 1)
  BY <1>2, <1>3, <1>4 DEF AddNewValue, SetStatic
<1>7. gc.phase = "idle" /\ Tail(heap.calls) = <<>>
  <2>1. /\ Tail(heap.calls) \in Seq(Frames) /\ Len(Tail(heap.calls)) = Len(heap.calls) - 1
        /\ Len(heap.calls) \in Nat \ {0} /\ Head(heap.calls) = heap.calls[1]
    BY <1>5, PopCall
  <2>2. 1 \in DOMAIN heap.calls /\ heap.calls[1].op \in AddOps
    BY <2>1, <1>1, <1>5 DEF Innermost
  <2>3. gc.phase = "idle" /\ 1 = Len(heap.calls)
    BY <2>2 DEF CountInv, ListInv, CallsFit
  <2>4. Len(Tail(heap.calls)) = 0
    BY <2>1, <2>3
  <2>5. \A q \in Seq(Frames) : Len(q) = 0 => q = <<>>
    OBVIOUS
  <2> QED
    BY <2>1, <2>3, <2>4, <2>5
<1>8. /\ Regular(b) /\ SameBut(b, heap) /\ ChainOf(b) = ChainOf(heap)
      /\ b.dying = heap.dying /\ b.ref = heap.ref /\ b.stored = heap.stored /\ b.static = heap.static
      /\ b.calls = <<>>
  <2>1. /\ Regular(b) /\ Grown(b, heap) /\ SameBut(b, heap) /\ ChainOf(b) = ChainOf(heap)
        /\ b.dying = heap.dying /\ b.ref = heap.ref /\ b.stored = heap.stored /\ b.static = heap.static
        /\ b.calls = Tail(heap.calls)
    <3> HIDE <1>3, <1>4
    <3> QED
      BY <1>3, <1>5, ReturnRegular
  <2> QED
    BY <2>1, <1>7
<1>9. /\ \A f, x : In(f, x) <=> f = op /\ x = o
  <2>1. Unique(heap.calls)
    BY DEF CountInv, CallsOwn
  <2>2. \A f, x : Within(Tail(heap.calls), f, x) <=> Within(heap.calls, f, x) /\ Head(heap.calls) # Frame(f, x)
    BY <2>1, <1>5, PopWithin
  <2>3. \A f, x : ~Within(<<>>, f, x)
    BY DEF Within
  <2>4. \A f, x : Frame(op, o) = Frame(f, x) <=> f = op /\ x = o
    BY FrameIn
  <2>5. ASSUME NEW f, NEW x, In(f, x) PROVE f = op /\ x = o
    <3>1. ~Within(Tail(heap.calls), f, x)
      BY <2>3, <1>7
    <3>2. Frame(op, o) = Frame(f, x)
      BY <2>2, <2>5, <3>1, <1>5 DEF In
    <3> QED
      BY <2>4, <3>2
  <2> QED
    BY <2>5, <1>5
<1>10. Good(o) /\ \A x \in Objects : ~heap.constant[x]
  <2>1. \A x \in Objects : ~heap.constant[x]
    BY <1>7 DEF CountInv, CollectionOwns
  <2>2. MemberRefs(o) # {} \/ StaticRefs(o) # {}
    <3>1. CASE op = "add"
      <4>1. PICK r \in Objects, t \in 1 .. Slots : heap.member[r][t] = o
        BY <3>1, <1>5 DEF CountInv, CallsOwn
      <4>2. <<r, t>> \in MemberRefs(o)
        BY <4>1 DEF MemberRefs
      <4> QED
        BY <4>2
    <3>2. CASE op = "addStatic"
      BY <3>2, <1>5 DEF CountInv, CallsOwn
    <3> QED
      BY <3>1, <3>2 DEF AddOps
  <2> QED
    BY <2>1, <2>2 DEF CountInv, Account, Dead, Dying, Condemned, Unused
<1>11. /\ heap.live[o] /\ ~heap.dying[o] /\ ~heap.constant[o] /\ ~heap.deleted[o]
       /\ heap.stored[o] = Stored(o) - 1
       /\ heap.static[o] = Cardinality(StaticRefs(o)) - One(op = "addStatic")
       /\ heap.ref[o] = Stored(o) + held[o] + One(Listed(heap, o))
       /\ Stored(o) \in Nat /\ Stored(o) > 0 /\ held[o] \in Nat
  <2>1. One(Adding(o)) = 1 /\ One(In("addStatic", o)) = One(op = "addStatic")
    BY <1>9 DEF One, Adding, AddOps
  <2>2. Stored(o) \in Nat /\ held[o] \in Nat
    BY <1>5, StoredCount DEF Types
  <2>3. Stored(o) > 0
    <3>1. MemberRefs(o) # {} \/ StaticRefs(o) # {}
      <4>1. CASE op = "add"
        <5>1. PICK r \in Objects, t \in 1 .. Slots : heap.member[r][t] = o
          BY <4>1, <1>5 DEF CountInv, CallsOwn
        <5>2. <<r, t>> \in MemberRefs(o)
          BY <5>1 DEF MemberRefs
        <5> QED
          BY <5>2
      <4>2. CASE op = "addStatic"
        BY <4>2, <1>5 DEF CountInv, CallsOwn
      <4> QED
        BY <4>1, <4>2 DEF AddOps
    <3> QED
      BY <2>2, <3>1, StoredCount
  <2> QED
    BY <2>1, <2>2, <2>3, <1>10 DEF Good, Plain, Refs
<1>12. Regular(a) /\ Restored(a, b, o)
  <2> HIDE <1>3
  <2> QED
    BY <1>4, <1>8, AddStoredRegular
<1>13. b \in Heaps /\ a \in Heaps
  BY <1>8, <1>12 DEF Regular
\* The heap after the step, for this object and for others.
<1>14. /\ a.live = heap.live /\ a.constant = heap.constant /\ a.member = heap.member /\ a.static = heap.static
       /\ a.stored = [heap.stored EXCEPT ![o] = @ + 1]
       /\ a.dying = heap.dying /\ a.calls = <<>>
       /\ \A x \in Objects : x # o => /\ a.deleted[x] = heap.deleted[x] /\ a.ref[x] = heap.ref[x]
                                      /\ Listed(a, x) <=> Listed(heap, x)
       /\ ~a.deleted[o] /\ a.ref[o] = Stored(o) + held[o] + One(Listed(a, o))
  <2>1. /\ a.live = b.live /\ a.constant = b.constant /\ a.member = b.member /\ a.static = b.static
        /\ a.stored = [b.stored EXCEPT ![o] = @ + 1]
    BY <1>8, <1>11, <1>12 DEF Restored, SameBut
  <2>2. (Listed(a, o) <=> o \in ChainOf(a)) /\ (Listed(heap, o) <=> o \in ChainOf(b))
    BY <1>8 DEF ChainOf
  <2>3. CASE ~b.marked[o]
    <3>1. ChainOf(a) = ChainOf(b) /\ a.deleted = b.deleted /\ a.ref = b.ref /\ a.dying = b.dying /\ a.calls = b.calls
      BY <2>3, <1>8, <1>11, <1>12 DEF Restored, SameBut
    <3>2. \A x \in Objects : Listed(a, x) <=> Listed(heap, x)
      BY <3>1, <1>8 DEF ChainOf
    <3>3. One(Listed(a, o)) = One(Listed(heap, o))
      BY <3>2 DEF One
    <3>4. ~a.deleted[o] /\ a.ref[o] = Stored(o) + held[o] + One(Listed(a, o))
      BY <3>1, <3>3, <1>8, <1>11 DEF SameBut
    <3> QED
      BY <2>1, <3>1, <3>2, <3>4, <1>8 DEF SameBut
  <2>4. CASE b.marked[o]
    <3>1. o \in ChainOf(b)
      BY <2>4, <1>8 DEF Regular
    <3>2. One(Listed(heap, o)) = 1
      BY <2>2, <3>1 DEF One
    <3>3. heap.ref[o] = Stored(o) + held[o] + 1 /\ heap.ref[o] # 1
      BY <3>2, <1>11
    <3>4. ~LastRef(b, o) /\ b.live[o] /\ b.ref[o] # 1 /\ ~b.constant[o]
      BY <3>3, <1>8, <1>11 DEF LastRef, SameBut
    <3>5. /\ ChainOf(a) = ChainOf(b) \ {o} /\ a.deleted = [b.deleted EXCEPT ![o] = FALSE]
          /\ a.ref = [b.ref EXCEPT ![o] = @ - 1] /\ a.dying = b.dying /\ a.calls = b.calls
      BY <2>4, <3>4, <1>12 DEF Restored
    <3>6. \A x \in Objects : x # o => (Listed(a, x) <=> Listed(heap, x))
      <4>1. \A x \in Objects : x # o => (x \in ChainOf(a) <=> x \in ChainOf(heap))
        BY <3>5, <1>8
      <4> QED
        BY <4>1 DEF ChainOf
    <3>7. One(Listed(a, o)) = 0
      BY <2>2, <3>5 DEF One
    <3>8. ~a.deleted[o] /\ a.ref[o] = heap.ref[o] - 1
      BY <3>5, <1>8, <1>13 DEF Heaps
    <3>9. a.ref[o] = Stored(o) + held[o] + One(Listed(a, o))
      BY <3>3, <3>7, <3>8, <1>11
    <3>10. \A x \in Objects : x # o => a.deleted[x] = heap.deleted[x] /\ a.ref[x] = heap.ref[x]
      BY <3>5, <1>8, <1>13 DEF Heaps, SameBut
    <3> QED
      BY <2>1, <3>5, <3>6, <3>8, <3>9, <3>10, <1>8 DEF SameBut
  <2> QED
    BY <2>3, <2>4
<1>15. /\ heap'.live = heap.live /\ heap'.constant = heap.constant /\ heap'.member = heap.member
       /\ heap'.dying = heap.dying /\ heap'.calls = <<>> /\ heap'.deleted = a.deleted /\ heap'.ref = a.ref
       /\ heap'.stored = a.stored /\ \A x : Listed(heap', x) <=> Listed(a, x)
       /\ heap'.static = IF op = "add" THEN heap.static ELSE [heap.static EXCEPT ![o] = heap.static[o] + 1]
  <2>1. CASE op = "add"
    BY <2>1, <1>6, <1>14
  <2>2. CASE op # "add"
    <3>1. PICK n \in Int : n = a.static[o] + 1
      BY <1>13 DEF Heaps
    <3>2. heap' = SetStatic(a, o, n)
      BY <2>2, <3>1, <1>6
    <3>3. /\ Regular(heap') /\ Grown(heap', a) /\ SameBut(heap', a) /\ ChainOf(heap') = ChainOf(a)
          /\ heap'.calls = a.calls /\ heap'.dying = a.dying /\ heap'.ref = a.ref /\ heap'.stored = a.stored
          /\ heap'.static = [a.static EXCEPT ![o] = n]
      BY <3>2, <1>12, StaticSet
    <3>4. \A x : Listed(heap', x) <=> Listed(a, x)
      BY <3>3 DEF SameBut, SameList, Listed
    <3> QED
      BY <2>2, <3>1, <3>3, <3>4, <1>14 DEF SameBut
  <2> QED
    BY <2>1, <2>2
<1>16. \A x : StaticRefs(x)' = StaticRefs(x) /\ MemberRefs(x)' = MemberRefs(x) /\ Filled(x)' = Filled(x) /\ Stored(x)' = Stored(x)
  <2>1. \A x : StaticRefs(x)' = StaticRefs(x) /\ MemberRefs(x)' = MemberRefs(x) /\ Filled(x)' = Filled(x)
    BY <1>1, <1>15 DEF StaticRefs, MemberRefs, Filled
  <2> QED
    BY <2>1 DEF Stored
<1>17. (\A f, x : ~In(f, x)') /\ Unique(heap'.calls)
  BY <1>15 DEF In, Within, Unique
<1>18. Good(o)'
  <2>1. heap'.stored[o] = Stored(o)'
    <3>1. heap'.stored[o] = heap.stored[o] + 1
      BY <1>5, <1>14, <1>15 DEF Heaps
    <3> QED
      BY <3>1, <1>11, <1>16
  <2>2. heap'.static[o] = Cardinality(StaticRefs(o)')
    <3>1. heap'.static[o] = IF op = "add" THEN heap.static[o] ELSE heap.static[o] + 1
      BY <1>5, <1>15 DEF Heaps
    <3>2. One(op = "addStatic") = IF op = "add" THEN 0 ELSE 1
      BY DEF One, AddOps
    <3>3. Cardinality(StaticRefs(o)) \in Nat
      BY StoredCount
    <3> QED
      BY <3>1, <3>2, <3>3, <1>11, <1>16
  <2>3. heap'.ref[o] = Stored(o)' + held'[o] + One(Listed(heap', o))
    <3>1. One(Listed(heap', o)) = One(Listed(a, o))
      BY <1>15 DEF One
    <3> QED
      BY <3>1, <1>1, <1>14, <1>15, <1>16
  <2>4. heap'.live[o] /\ ~heap'.dying[o] /\ ~heap'.constant[o] /\ ~heap'.deleted[o]
    BY <1>11, <1>14, <1>15
  <2> QED
    BY <2>1, <2>2, <2>3, <2>4, <1>17, GoodNow
<1>19. ASSUME NEW x \in Objects, x # o PROVE Account(x)'
  <2>1. heap'.stored[x] = heap.stored[x] /\ heap'.static[x] = heap.static[x]
    BY <1>5, <1>14, <1>15, <1>19 DEF Heaps
  <2>2. \A f \in Ops : In(f, x)' <=> In(f, x)
    BY <1>9, <1>17, <1>19
  <2>3. Same(x)
    BY <2>1, <2>2, <1>1, <1>10, <1>14, <1>15, <1>16, <1>19 DEF Same
  <2>4. Account(x) /\ \A r \in Objects, t \in 1 .. Slots : heap.member[r][t] = x /\ In("collect", r) => In("collect", r)'
    BY <1>9 DEF CountInv, AddOps
  <2> QED
    BY <2>3, <2>4, <1>16, SameAccount
<1>20. CallsOwn'
  BY <1>17 DEF CallsOwn
<1>21. CollectionOwns'
  BY <1>10, <1>15 DEF CollectionOwns
<1>22. Account(o)'
  BY <1>18 DEF Account
<1> QED
  BY <1>19, <1>20, <1>21, <1>22

(***************************************************************************)
(* The collection.                                                         *)
(***************************************************************************)
LEMMA Collecting ==
  ASSUME CountInv, ~Busy
  PROVE  /\ Regular(heap) /\ Types /\ heap \in Heaps /\ heap.calls = <<>> /\ \A op, o : ~In(op, o)
         /\ \A o \in Objects : ~Dying(o) /\ (Good(o) \/ Dead(o) \/ Condemned(o))
         /\ \A o \in Objects : heap.constant[o] => Condemned(o) /\ heap.deleted[o] /\ o \in Chain
<1>1. Regular(heap) /\ Types /\ heap \in Heaps
  BY ListParts DEF CountInv, Regular
<1>2. heap.calls = <<>> /\ \A op, o : ~In(op, o)
  BY DEF Busy, In, Within
<1>3. \A o \in Objects : ~Dying(o) /\ (Good(o) \/ Dead(o) \/ Condemned(o))
  BY <1>2 DEF CountInv, Account, Dying
<1>4. \A o \in Objects : heap.constant[o] => Condemned(o)
  BY <1>3 DEF Good, Dead, Plain
<1>5. \A o \in Objects : Condemned(o) => heap.deleted[o] /\ o \in Chain
  BY <1>2 DEF Condemned, Chain, ChainOf
<1> QED
  BY <1>1, <1>2, <1>3, <1>4, <1>5

\* A step that only moves the collection on.
LEMMA MovedAccount ==
  ASSUME CountInv, ~Busy, UNCHANGED <<heap, held, statics>>
  PROVE  CallsOwn' /\ \A x \in Objects : Account(x)'
<1>1. \A op, o : ~In(op, o) /\ ~In(op, o)'
  BY Collecting DEF In
<1>2. CallsOwn'
  BY <1>1 DEF CountInv, CallsOwn
<1>3. ASSUME NEW x \in Objects PROVE Account(x)'
  <2>1. MemberRefs(x)' = MemberRefs(x) /\ StaticRefs(x)' = StaticRefs(x) /\ Filled(x)' = Filled(x)
    BY DEF MemberRefs, StaticRefs, Filled
  <2>2. Same(x)
    BY <2>1, <1>1 DEF Same
  <2>3. Account(x)
    BY DEF CountInv
  <2> QED
    BY <2>1, <2>2, <2>3, <1>1, SameAccount
<1> QED
  BY <1>2, <1>3

\* A step of the collection that concerns the candidate only.
LEMMA CandidateStep ==
  ASSUME CountInv, ~Busy, UNCHANGED <<held, statics>>, NEW c \in Objects, heap'.member = heap.member,
         \/ heap'.calls = heap.calls
         \/ heap'.calls = <<Frame("release", c)>> \o heap.calls /\ heap'.dying[c],
         \A x \in Objects : x # c =>
           /\ heap'.live[x] = heap.live[x] /\ heap'.dying[x] = heap.dying[x]
           /\ heap'.constant[x] = heap.constant[x] /\ heap'.deleted[x] = heap.deleted[x]
           /\ heap'.stored[x] = heap.stored[x] /\ heap'.static[x] = heap.static[x] /\ heap'.ref[x] = heap.ref[x]
           /\ heap.marked[x] => heap'.marked[x]
           /\ Listed(heap', x) <=> Listed(heap, x),
         Account(c)'
  PROVE  CallsOwn' /\ \A x \in Objects : Account(x)'
<1>1. heap.calls = <<>> /\ \A op, x : ~In(op, x)
  BY Collecting
<1>2. <<>> \in Seq(Frames) /\ Unique(<<>>) /\ \A op, x : ~Within(<<>>, op, x)
  BY DEF Unique, Within
<1>3. /\ Unique(heap'.calls)
      /\ \A op, x : In(op, x)' => op = "release" /\ x = c /\ heap'.dying[c]
  <2>1. CASE heap'.calls = heap.calls
    BY <2>1, <1>1, <1>2 DEF In
  <2>2. CASE heap'.calls # heap.calls
    <3>1. heap'.calls = <<Frame("release", c)>> \o <<>> /\ heap'.dying[c]
      BY <2>2, <1>1
    <3>2. /\ Unique(heap'.calls)
          /\ \A op, x : In(op, x)' => \/ Within(<<>>, op, x)
                                      \/ heap'.calls # <<>> /\ op = "release" /\ x = c
          /\ \A op, x : Within(<<>>, op, x) => In(op, x)'
      BY <3>1, <1>2, CallsAfter
    <3> QED
      BY <3>1, <3>2, <1>2
  <2> QED
    BY <2>1, <2>2
<1>4. CallsOwn'
  BY <1>3 DEF CallsOwn
<1>5. ASSUME NEW x \in Objects, x # c PROVE Account(x)'
  <2>1. MemberRefs(x)' = MemberRefs(x) /\ StaticRefs(x)' = StaticRefs(x) /\ Filled(x)' = Filled(x)
    BY DEF MemberRefs, StaticRefs, Filled
  <2>2. \A op \in Ops : In(op, x)' <=> In(op, x)
    BY <1>1, <1>3, <1>5
  <2>3. Same(x)
    BY <1>5, <2>1, <2>2 DEF Same
  <2>4. Account(x) /\ \A p \in Objects, s \in 1 .. Slots : heap.member[p][s] = x /\ In("collect", p) => In("collect", p)'
    BY <1>1 DEF CountInv
  <2> QED
    BY <2>1, <2>3, <2>4, SameAccount
<1> QED
  BY <1>4, <1>5

LEMMA CountRelease ==
  ASSUME CountInv, ReleaseNext
  PROVE  CallsOwn' /\ CollectionOwns' /\ \A x \in Objects : Account(x)'
<1>1. ~Busy /\ gc.phase = "release" /\ gc.next # NoObject /\ UNCHANGED <<held, statics>>
  BY DEF ReleaseNext, At
<1>2. /\ Regular(heap) /\ Types /\ heap \in Heaps /\ heap.calls = <<>> /\ \A op, o : ~In(op, o)
      /\ \A o \in Objects : ~Dying(o) /\ (Good(o) \/ Dead(o) \/ Condemned(o))
      /\ \A o \in Objects : heap.constant[o] => Condemned(o) /\ heap.deleted[o] /\ o \in Chain
  BY <1>1, Collecting
<1>3. PICK c \in Objects : c = gc.next /\ c \in Chain
  BY <1>1 DEF CountInv, ListInv, ListLinked, Chain, ChainOf
<1>4. gc'.next = heap.next[c] /\ gc'.phase = "release"
  BY <1>1, <1>2, <1>3 DEF ReleaseNext, Candidate, Types
<1>5. \A o \in Objects : heap.constant[o] /\ o # c => heap.next[c] # NoObject /\ o \in Ahead(heap, heap.next[c])
  <2>1. \A o \in Objects : heap.constant[o] => o \in Ahead(heap, c)
    BY <1>1, <1>3 DEF CountInv, CollectionOwns
  <2> QED
    BY <2>1, <1>2, AheadStep
<1>6. CASE ~heap.deleted[c]
  <2>1. UNCHANGED heap
    BY <1>3, <1>6 DEF ReleaseNext, Candidate
  <2>2. CollectionOwns'
    <3> SUFFICES ASSUME NEW o \in Objects, heap'.constant[o]
                 PROVE  /\ gc'.phase # "idle"
                        /\ gc'.phase = "release" => gc'.next # NoObject /\ o \in Ahead(heap', gc'.next)
      BY DEF CollectionOwns
    <3>1. heap.constant[o] /\ o # c
      BY <2>1, <1>2, <1>6
    <3> QED
      BY <2>1, <3>1, <1>4, <1>5
  <2> QED
    BY <2>1, <2>2, <1>1, MovedAccount
<1>7. CASE heap.deleted[c]
  <2>1. heap' = ReleaseOne(heap, c)
    BY <1>3, <1>7 DEF ReleaseNext, Candidate
  <2>2. Regular(heap') /\ Freed(heap', heap, c)
    BY <2>1, <1>2, ReleaseRegular
  <2>3. Condemned(c)
    BY <1>2, <1>7 DEF Good, Dead, Plain
  <2>4. heap.live[c] /\ ~heap.dying[c] /\ heap.marked[c] /\ Filled(c) = {} /\ held[c] = 0 /\ StaticRefs(c) = {}
    BY <2>3, <1>2 DEF Condemned
  <2>5. MemberRefs(c) = {}
    BY <2>3, <1>2 DEF MemberRefs, Condemned
  <2>6. /\ heap'.member = heap.member /\ heap'.dying = [heap.dying EXCEPT ![c] = TRUE]
        /\ heap'.calls = <<Frame("release", c)>> \o heap.calls /\ ChainOf(heap') = ChainOf(heap) \ {c}
        /\ heap'.live = heap.live
    BY <2>2, <2>4 DEF Freed, Frame
  <2>7. heap'.dying[c] /\ heap'.ref[c] = 1 /\ ~heap'.constant[c] /\ ~heap'.deleted[c] /\ heap'.live[c]
    BY <2>2, <2>4, <2>6, <1>2 DEF Freed, Heaps
  <2>8. \A x \in Objects : x # c =>
           /\ heap'.live[x] = heap.live[x] /\ heap'.dying[x] = heap.dying[x]
           /\ heap'.constant[x] = heap.constant[x] /\ heap'.deleted[x] = heap.deleted[x]
           /\ heap'.stored[x] = heap.stored[x] /\ heap'.static[x] = heap.static[x] /\ heap'.ref[x] = heap.ref[x]
           /\ heap.marked[x] => heap'.marked[x]
           /\ Listed(heap', x) <=> Listed(heap, x)
    <3>1. \A x \in Objects : x # c =>
           /\ heap'.live[x] = heap.live[x] /\ heap'.dying[x] = heap.dying[x]
           /\ heap'.constant[x] = heap.constant[x] /\ heap'.deleted[x] = heap.deleted[x]
           /\ heap'.stored[x] = heap.stored[x] /\ heap'.static[x] = heap.static[x] /\ heap'.ref[x] = heap.ref[x]
           /\ heap'.marked[x] = heap.marked[x]
      BY <2>2, <2>6, <1>2 DEF Freed, Heaps
    <3>2. \A x \in Objects : x # c => (x \in ChainOf(heap') <=> x \in ChainOf(heap))
      BY <2>6
    <3> QED
      BY <3>1, <3>2 DEF ChainOf
  <2>9. Account(c)'
    <3>1. ~Listed(heap', c)
      BY <2>6 DEF ChainOf
    <3>2. Unused(c)'
      BY <2>4, <2>5, <2>6, <1>1 DEF Unused, MemberRefs, StaticRefs
    <3>3. In("release", c)'
      <4>1. Frame("release", c) \in Frames /\ heap.calls \in Seq(Frames)
        BY <1>2, FrameIn DEF Ops, Heaps
      <4> QED
        BY <4>1, <2>6, PushWithin DEF In
    <3> QED
      BY <3>1, <3>2, <3>3, <2>7 DEF Account, Dying, Plain
  <2>10. CollectionOwns'
    <3> SUFFICES ASSUME NEW o \in Objects, heap'.constant[o]
                 PROVE  /\ gc'.phase # "idle"
                        /\ gc'.phase = "release" => gc'.next # NoObject /\ o \in Ahead(heap', gc'.next)
      BY DEF CollectionOwns
    <3>1. o # c /\ heap.constant[o]
      BY <2>7, <2>8
    <3>2. o \in Ahead(heap, c)
      BY <3>1, <1>1, <1>3 DEF CountInv, CollectionOwns
    <3>3. heap.next[c] # NoObject /\ Ahead(heap, c) \ {c} \subseteq Ahead(heap', heap.next[c])
      BY <3>1, <2>2, <1>5 DEF Freed
    <3> QED
      BY <3>1, <3>2, <3>3, <1>4
  <2> QED
    BY <2>6, <2>7, <2>8, <2>9, <2>10, <1>1, CandidateStep
<1> QED
  BY <1>6, <1>7

\* The calls of a collection that destructs what the search has found.
LEMMA CollectCalls ==
  ASSUME NEW q \in Seq(Objects), \A i, k \in DOMAIN q : q[i] = q[k] => i = k,
         heap'.calls = [i \in DOMAIN q |-> Frame("collect", q[i])] \o <<>>
  PROVE  /\ Unique(heap'.calls)
         /\ \A op, o : In(op, o)' <=> op = "collect" /\ o \in Elements(q)
<1>1. DOMAIN q = 1 .. Len(q) /\ Len(q) \in Nat
  OBVIOUS
<1>2. [i \in DOMAIN q |-> Frame("collect", q[i])] \in Seq(Frames)
  BY CollectFrames DEF Frame
<1>3. heap'.calls = [i \in DOMAIN q |-> Frame("collect", q[i])]
  BY <1>2
<1>4. \A op1, op2, o1, o2 : Frame(op1, o1) = Frame(op2, o2) <=> op1 = op2 /\ o1 = o2
  BY FrameIn
<1>5. DOMAIN heap'.calls = DOMAIN q /\ \A i \in DOMAIN q : heap'.calls[i] = Frame("collect", q[i])
  BY <1>3
<1>6. Unique(heap'.calls)
  BY <1>4, <1>5 DEF Unique
<1>7. ASSUME NEW op, NEW o
      PROVE  In(op, o)' <=> op = "collect" /\ o \in Elements(q)
  <2>1. In(op, o)' <=> \E i \in DOMAIN q : Frame("collect", q[i]) = Frame(op, o)
    BY <1>5 DEF In, Within, Frame
  <2>2. In(op, o)' <=> \E i \in DOMAIN q : "collect" = op /\ q[i] = o
    BY <2>1, <1>4
  <2> QED
    BY <2>2 DEF Elements
<1> QED
  BY <1>6, <1>7

\* What a search may give to the collection, t being the heap without the candidate.
Abandoned(t, q) ==
    /\ \A i, k \in DOMAIN q : q[i] = q[k] => i = k
    /\ \A o \in Elements(q) :
        /\ heap.live[o] /\ ~heap.constant[o] /\ ~Listed(t, o)
        /\ held[o] = 0 /\ StaticRefs(o) = {}
        /\ \A p \in Objects, s \in 1 .. Slots : heap.member[p][s] = o => p \in Elements(q)

LEMMA CountCollect ==
  ASSUME CountInv, ~Busy, UNCHANGED <<held, statics>>, NEW c \in Chain, NEW t, t = RemoveCandidate(heap, c),
         NEW q \in Seq(Objects), heap' = Delete(t, q), c \in Elements(q), Abandoned(t, q)
  PROVE  CallsOwn' /\ \A x \in Objects : Account(x)'
<1>0. /\ \A i, k \in DOMAIN q : q[i] = q[k] => i = k
      /\ \A o \in Elements(q) :
           /\ heap.live[o] /\ ~heap.constant[o] /\ ~Listed(t, o)
           /\ held[o] = 0 /\ StaticRefs(o) = {}
           /\ \A p \in Objects, s \in 1 .. Slots : heap.member[p][s] = o => p \in Elements(q)
  BY DEF Abandoned
<1>1. /\ Regular(heap) /\ heap \in Heaps /\ heap.calls = <<>> /\ \A op, o : ~In(op, o)
      /\ \A o \in Objects : ~Dying(o) /\ (Good(o) \/ Dead(o) \/ Condemned(o))
      /\ c \in ChainOf(heap) /\ c \in Objects
  BY Collecting DEF Chain, ChainOf
<1>2. /\ Regular(t) /\ Counts(t, heap) /\ t.marked = [heap.marked EXCEPT ![c] = FALSE]
      /\ ChainOf(t) = ChainOf(heap) \ {c}
  BY <1>1, RemoveRegular
<1>3. Regular(heap') /\ Grown(heap', t) /\ ChainOf(heap') = ChainOf(t) /\ Deleted(heap', t, q)
  BY <1>2, DeleteRegular
<1>4. Elements(q) \subseteq Objects
  BY DEF Elements
<1>5. /\ heap'.live = heap.live /\ heap'.dying = heap.dying /\ heap'.ref = heap.ref /\ heap'.stored = heap.stored
      /\ heap'.static = heap.static /\ heap'.member = heap.member
      /\ \A x \in Objects : /\ heap'.constant[x] = (heap.constant[x] \/ x \in Elements(q))
                            /\ heap'.deleted[x] = (heap.deleted[x] \/ x \in Elements(q))
                            /\ x # c => heap'.marked[x] = heap.marked[x]
                            /\ x # c => (Listed(heap', x) <=> Listed(heap, x))
                            /\ Listed(heap', x) => Listed(t, x)
  <2>1. /\ heap'.live = heap.live /\ heap'.dying = heap.dying /\ heap'.ref = heap.ref /\ heap'.stored = heap.stored
        /\ heap'.static = heap.static /\ heap'.member = heap.member
        /\ \A x \in Objects : /\ heap'.constant[x] = (heap.constant[x] \/ x \in Elements(q))
                              /\ heap'.deleted[x] = (heap.deleted[x] \/ x \in Elements(q))
    BY <1>2, <1>3 DEF Deleted, Counts
  <2>2. \A x \in Objects : x # c => heap'.marked[x] = heap.marked[x]
    BY <1>1, <1>2, <1>3 DEF Deleted, Heaps
  <2>3. \A x \in Objects : /\ x # c => (x \in ChainOf(heap') <=> x \in ChainOf(heap))
                           /\ x \in ChainOf(heap') => x \in ChainOf(t)
    BY <1>2, <1>3
  <2> QED
    BY <2>1, <2>2, <2>3 DEF ChainOf
<1>6. /\ Unique(heap'.calls)
      /\ \A op, o : In(op, o)' <=> op = "collect" /\ o \in Elements(q)
  <2>1. heap'.calls = [i \in DOMAIN q |-> Frame("collect", q[i])] \o <<>>
    BY <1>1, <1>2, <1>3 DEF Deleted, Counts, Frame
  <2> QED
    BY <2>1, <1>0, CollectCalls
<1>7. \A x : MemberRefs(x)' = MemberRefs(x) /\ StaticRefs(x)' = StaticRefs(x) /\ Filled(x)' = Filled(x)
  BY <1>5 DEF MemberRefs, StaticRefs, Filled
<1>8. ASSUME NEW o \in Elements(q) PROVE Account(o)'
  <2>1. Good(o)
    BY <1>0, <1>1, <1>4, <1>8 DEF Dead, Condemned
  <2>2. /\ heap'.live[o] /\ ~heap'.dying[o] /\ heap'.constant[o] /\ heap'.deleted[o]
        /\ held'[o] = 0 /\ StaticRefs(o)' = {} /\ ~Listed(heap', o)
    BY <2>1, <1>0, <1>4, <1>5, <1>7, <1>8 DEF Good
  <2>3. In("collect", o)' /\ \A p \in Objects, s \in 1 .. Slots : heap'.member[p][s] = o => In("collect", p)'
    BY <1>0, <1>5, <1>6, <1>8
  <2> QED
    BY <2>2, <2>3 DEF Account, Condemned
<1>9. ASSUME NEW x \in Objects, x \notin Elements(q) PROVE Account(x)'
  <2>1. \A f \in Ops : In(f, x)' <=> In(f, x)
    BY <1>1, <1>6, <1>9
  <2>2. x # c
    BY <1>9
  <2>3. (heap'.constant[x] <=> heap.constant[x]) /\ (heap'.deleted[x] <=> heap.deleted[x])
    BY <1>5, <1>9
  <2>4. heap'.constant[x] = heap.constant[x] /\ heap'.deleted[x] = heap.deleted[x]
    <3>1. heap.constant[x] \in BOOLEAN /\ heap.deleted[x] \in BOOLEAN /\ heap'.constant[x] \in BOOLEAN /\ heap'.deleted[x] \in BOOLEAN
      BY <1>1, <1>3 DEF Heaps, Regular
    <3> QED
      BY <2>3, <3>1
  <2>5. Same(x)
    BY <2>1, <2>2, <2>4, <1>5, <1>7 DEF Same
  <2>6. Account(x) /\ \A p \in Objects, s \in 1 .. Slots : heap.member[p][s] = x /\ In("collect", p) => In("collect", p)'
    BY <1>1 DEF CountInv
  <2> QED
    BY <2>5, <2>6, <1>7, SameAccount
<1>10. CallsOwn'
  <2>1. \A o \in Objects : In("collect", o)' => heap'.constant[o]
    BY <1>5, <1>6
  <2>2. \A o : ~In("release", o)' /\ ~In("add", o)' /\ ~In("addStatic", o)'
    BY <1>6
  <2>3. Unique(heap'.calls)
    BY <1>6
  <2> QED
    BY <2>1, <2>2, <2>3 DEF CallsOwn
<1> QED
  BY <1>8, <1>9, <1>10

LEMMA CountHandle ==
  ASSUME CountInv, HandleCandidate, SearchAnswers, SearchRight, ~misjudged'
  PROVE  CallsOwn' /\ CollectionOwns' /\ \A x \in Objects : Account(x)'
<1>1. ~Busy /\ gc.phase = "handle" /\ gc.next # NoObject /\ UNCHANGED <<held, statics>> /\ ~heap.deleted[Candidate]
      /\ heap' = handleGarbageCollection(Taken, Candidate)
  BY DEF HandleCandidate, At
<1>2. /\ Regular(heap) /\ Types /\ heap \in Heaps /\ heap.calls = <<>> /\ \A op, o : ~In(op, o)
      /\ \A o \in Objects : ~Dying(o) /\ (Good(o) \/ Dead(o) \/ Condemned(o))
  BY <1>1, Collecting
<1>3. PICK c \in Chain : c = Candidate
  BY <1>1 DEF CountInv, ListInv, ListLinked, Candidate
<1>4. PICK t : t = RemoveCandidate(heap, c)
  OBVIOUS
<1>5. c \in Objects /\ c \in ChainOf(heap) /\ t = Taken
  BY <1>3, <1>4 DEF Chain, ChainOf, Taken
<1>6. /\ Regular(t) /\ Counts(t, heap) /\ t.marked = [heap.marked EXCEPT ![c] = FALSE]
      /\ ChainOf(t) = ChainOf(heap) \ {c}
  BY <1>2, <1>4, <1>5, RemoveRegular
<1>7. Good(c) /\ Listed(heap, c) /\ ~Listed(t, c)
  <2>1. Listed(heap, c) /\ ~Listed(t, c)
    BY <1>5, <1>6 DEF ChainOf
  <2> QED
    BY <2>1, <1>1, <1>2, <1>3, <1>5 DEF Dead, Condemned
<1>8. /\ heap.live[c] /\ ~heap.dying[c] /\ ~heap.constant[c] /\ ~heap.deleted[c]
      /\ heap.stored[c] = Stored(c) /\ heap.static[c] = Cardinality(StaticRefs(c))
      /\ heap.ref[c] = Stored(c) + held[c] + 1 /\ held[c] \in Nat /\ Stored(c) \in Nat
  <2>1. One(Adding(c)) = 0 /\ One(In("addStatic", c)) = 0 /\ One(Listed(heap, c)) = 1
    BY <1>2, <1>7 DEF One, Adding
  <2>2. Stored(c) \in Nat /\ Cardinality(StaticRefs(c)) \in Nat /\ held[c] \in Nat
    BY <1>2, <1>5, StoredCount DEF Types
  <2>3. /\ heap.live[c] /\ ~heap.dying[c] /\ ~heap.constant[c] /\ ~heap.deleted[c]
        /\ heap.stored[c] = Stored(c) - One(Adding(c))
        /\ heap.static[c] = Cardinality(StaticRefs(c)) - One(In("addStatic", c))
        /\ heap.ref[c] = Stored(c) + held[c] + One(Listed(heap, c))
    BY <1>7 DEF Good, Plain, Refs
  <2>4. /\ heap.stored[c] = Stored(c) - 0 /\ heap.static[c] = Cardinality(StaticRefs(c)) - 0
        /\ heap.ref[c] = Stored(c) + held[c] + 1
    BY <2>1, <2>3
  <2> QED
    BY <2>2, <2>3, <2>4
<1>9. /\ t.live = heap.live /\ t.deleted = heap.deleted /\ t.dying = heap.dying /\ t.constant = heap.constant
      /\ t.ref = heap.ref /\ t.stored = heap.stored /\ t.static = heap.static /\ t.member = heap.member
      /\ t.calls = heap.calls
  BY <1>6 DEF Counts
<1>10. gc'.phase = "handle"
  BY <1>1, <1>2 DEF HandleCandidate, Types
<1>11. CollectionOwns'
  BY <1>10 DEF CollectionOwns
<1>12. ASSUME heap'.member = heap.member
       PROVE  Stored(c)' = Stored(c) /\ StaticRefs(c)' = StaticRefs(c)
  <2>1. MemberRefs(c)' = MemberRefs(c) /\ StaticRefs(c)' = StaticRefs(c)
    BY <1>1, <1>12 DEF MemberRefs, StaticRefs
  <2> QED
    BY <2>1 DEF Stored
<1>13. CASE heap' = decRef(t, c)
  <2>1. ChainOf(heap') = ChainOf(t) /\ Dropped(heap', t, c)
    BY <1>5, <1>6, <1>13, DecRefRegular
  <2>2. heap'.member = heap.member /\ heap'.constant = heap.constant
    BY <2>1, <1>9 DEF Dropped, SameBut
  <2>3. t.ref[c] = Stored(c)' + held'[c] + One(Listed(t, c)) + 1
    <3>1. One(Listed(t, c)) = 0
      BY <1>7 DEF One
    <3> QED
      BY <3>1, <2>2, <1>1, <1>8, <1>9, <1>12
  <2>4. ~Within(t.calls, "add", c) /\ ~Within(t.calls, "addStatic", c)
    BY <1>2, <1>9 DEF In
  <2>5. t.stored[c] = Stored(c)' /\ t.static[c] = Cardinality(StaticRefs(c)') /\ held'[c] \in Nat
    BY <2>2, <1>1, <1>8, <1>9, <1>12
  <2>6. /\ Good(c)' \/ Dying(c)'
        /\ \/ heap'.calls = t.calls
           \/ heap'.calls = <<Frame("release", c)>> \o t.calls /\ heap'.dying[c]
    BY <2>1, <2>3, <2>4, <2>5, <1>5, <1>6, <1>8, <1>9, DroppedAccount
  <2>7. \A x \in Objects : x # c =>
           /\ heap'.live[x] = heap.live[x] /\ heap'.dying[x] = heap.dying[x]
           /\ heap'.constant[x] = heap.constant[x] /\ heap'.deleted[x] = heap.deleted[x]
           /\ heap'.stored[x] = heap.stored[x] /\ heap'.static[x] = heap.static[x] /\ heap'.ref[x] = heap.ref[x]
           /\ heap.marked[x] => heap'.marked[x]
           /\ Listed(heap', x) <=> Listed(heap, x)
    <3>1. \A x \in Objects : x # c => heap'.dying[x] = heap.dying[x] /\ heap'.ref[x] = heap.ref[x]
      BY <2>1, <1>2, <1>9 DEF Dropped, Heaps
    <3>2. \A x \in Objects : x # c => (x \in ChainOf(heap') <=> x \in ChainOf(heap))
      BY <2>1, <1>6
    <3>3. \A x \in Objects : x # c => heap'.marked[x] = heap.marked[x]
      BY <2>1, <1>2, <1>6 DEF Dropped, SameBut, Heaps
    <3>4. /\ heap'.live = heap.live /\ heap'.deleted = heap.deleted
          /\ heap'.stored = heap.stored /\ heap'.static = heap.static
      BY <2>1, <1>9 DEF Dropped, SameBut
    <3> QED
      BY <3>1, <3>2, <3>3, <3>4, <2>2 DEF ChainOf
  <2>8. Account(c)'
    BY <2>6 DEF Account
  <2>9. \/ heap'.calls = heap.calls
        \/ heap'.calls = <<Frame("release", c)>> \o heap.calls /\ heap'.dying[c]
    BY <2>6, <1>9
  <2> QED
    BY <2>2, <2>7, <2>8, <2>9, <1>1, <1>5, <1>11, CandidateStep
<1>14. CASE heap' = addObjectToGarbageCollector(t, c)
  <2>1. Counts(heap', t) /\ heap'.marked = t.marked /\ ChainOf(heap') = ChainOf(t) \cup {c}
    BY <1>5, <1>6, <1>14, AddRegular
  <2>2. /\ heap'.live = heap.live /\ heap'.deleted = heap.deleted /\ heap'.dying = heap.dying
        /\ heap'.constant = heap.constant /\ heap'.ref = heap.ref /\ heap'.stored = heap.stored
        /\ heap'.static = heap.static /\ heap'.member = heap.member /\ heap'.calls = heap.calls
    BY <2>1, <1>9 DEF Counts
  <2>3. One(Listed(heap', c)) = 1
    BY <2>1, <1>5 DEF One, ChainOf
  <2>4. heap'.ref[c] = Stored(c)' + held'[c] + One(Listed(heap', c))
    BY <2>2, <2>3, <1>1, <1>8, <1>12
  <2>5. ~In("add", c)' /\ ~In("addStatic", c)'
    BY <2>2, <1>2 DEF In
  <2>6. heap'.stored[c] = Stored(c)' /\ heap'.static[c] = Cardinality(StaticRefs(c)')
    BY <2>2, <1>8, <1>12
  <2>7. Good(c)'
    BY <2>2, <2>4, <2>5, <2>6, <1>5, <1>8, GoodNow
  <2>8. \A x \in Objects : x # c => (heap.marked[x] => heap'.marked[x]) /\ (Listed(heap', x) <=> Listed(heap, x))
    <3>1. \A x \in Objects : x # c => heap'.marked[x] = heap.marked[x]
      BY <2>1, <1>2, <1>6 DEF Heaps
    <3>2. \A x \in Objects : x # c => (x \in ChainOf(heap') <=> x \in ChainOf(heap))
      BY <2>1, <1>6
    <3> QED
      BY <3>1, <3>2 DEF ChainOf
  <2>9. Account(c)'
    BY <2>7 DEF Account
  <2> QED
    BY <2>2, <2>8, <2>9, <1>1, <1>5, <1>11, CandidateStep
<1>15. CASE heap' # decRef(t, c) /\ heap' # addObjectToGarbageCollector(t, c)
  <2>1. heap' = handleGarbageCollection(t, c)
    BY <1>1, <1>3, <1>5
  <2>2. ~Untouched(t, c)
    BY <1>8, <1>9 DEF Untouched
  <2>3. Searched(t, c) /\ Search(t, c).verdict = "collect" /\ heap' = Delete(t, Append(Search(t, c).found, c))
    BY <2>1, <2>2, <1>15 DEF handleGarbageCollection, Decide
  <2>4. SearchesNow
    BY <2>3, <1>1, <1>3, <1>5 DEF SearchesNow, At
  <2>5. Search(t, c) \in Answers /\ Garbage(Append(Search(t, c).found, c))
    <3>1. ~misjudged /\ ~Misjudges(Search(t, c))
      BY <2>4, <1>3, <1>5 DEF HandleCandidate
    <3>2. /\ Search(t, c) \in Answers
          /\ ~Search(t, c).early => Garbage(Append(Search(t, c).found, c))
      BY <3>1, <2>3, <2>4, <1>3, <1>5 DEF SearchAnswers, SearchRight
    <3> QED
      BY <3>1, <3>2, <2>3, <1>3 DEF Misjudges
  <2>6. PICK q \in Seq(Objects) : q = Append(Search(t, c).found, c) /\ c \in Elements(q)
    <3>1. PICK f \in Seq(Objects) : f = Search(t, c).found
      BY <2>5 DEF Answers
    <3>2. /\ Append(f, c) \in Seq(Objects) /\ Append(f, c)[Len(f) + 1] = c
          /\ Len(f) + 1 \in DOMAIN Append(f, c)
      BY <1>5
    <3>3. c \in Elements(Append(f, c))
      BY <3>2 DEF Elements
    <3> QED
      BY <3>1, <3>2, <3>3
  <2>7. Abandoned(t, q)
    BY <2>5, <2>6, <1>5 DEF Garbage, Abandoned
  <2>8. heap' = Delete(t, q)
    BY <2>3, <2>6
  <2> QED
    BY <2>6, <2>7, <2>8, <1>1, <1>4, <1>11, CountCollect
<1> QED
  BY <1>13, <1>14, <1>15

LEMMA CountCollection ==
  ASSUME CountInv, Collection, SearchAnswers, SearchRight, ~misjudged'
  PROVE  CallsOwn' /\ CollectionOwns' /\ \A x \in Objects : Account(x)'
<1>1. CASE Begin
  <2>1. ~Busy /\ gc.phase = "idle" /\ UNCHANGED <<heap, held, statics>>
    BY <1>1 DEF Begin
  <2>2. CollectionOwns'
    BY <2>1 DEF CountInv, CollectionOwns
  <2> QED
    BY <2>1, <2>2, MovedAccount
<1>2. CASE SkipCandidate
  <2>1. ~Busy /\ gc.phase = "handle" /\ UNCHANGED <<heap, held, statics>> /\ gc' = [gc EXCEPT !.next = heap.next[Candidate]]
    BY <1>2 DEF SkipCandidate, At
  <2>2. gc'.phase = "handle"
    BY <2>1 DEF CountInv, ListInv, Types
  <2>3. CollectionOwns'
    BY <2>2 DEF CollectionOwns
  <2> QED
    BY <2>1, <2>3, MovedAccount
<1>3. CASE HandleAgain
  <2>1. ~Busy /\ UNCHANGED <<heap, held, statics>>
    BY <1>3 DEF HandleAgain, AtEnd
  <2>2. gc'.phase \in {"handle", "release"} /\ gc'.next = heap.first
    BY <1>3 DEF HandleAgain, AtEnd, CountInv, ListInv, Types
  <2>3. \A o \in Objects : heap.constant[o] => o \in Chain /\ Regular(heap)
    BY <2>1, Collecting
  <2>4. \A o \in Objects : heap.constant[o] => heap.first # NoObject /\ o \in Ahead(heap, heap.first)
    <3> SUFFICES ASSUME NEW o \in Objects, heap.constant[o]
                 PROVE  heap.first # NoObject /\ o \in Ahead(heap, heap.first)
      OBVIOUS
    <3>1. Linked(heap) /\ Connected(heap) /\ o \in ChainOf(heap)
      BY <2>3 DEF Regular, Chain
    <3>2. heap.first # NoObject
      BY <3>1, ObjectsAssumption DEF Linked, ChainOf
    <3> QED
      BY <3>1, <3>2 DEF Connected
  <2>5. CollectionOwns'
    BY <2>1, <2>2, <2>4 DEF CollectionOwns, Ahead, NextClosed
  <2> QED
    BY <2>1, <2>5, MovedAccount
<1>4. CASE End
  <2>1. ~Busy /\ UNCHANGED <<heap, held, statics>> /\ gc.phase = "release" /\ gc.next = NoObject
    BY <1>4 DEF End, AtEnd
  <2>2. CollectionOwns'
    BY <2>1 DEF CountInv, CollectionOwns
  <2> QED
    BY <2>1, <2>2, MovedAccount
<1> QED
  BY <1>1, <1>2, <1>3, <1>4, CountRelease, CountHandle DEF Collection

(***************************************************************************)
(* The reference counts.                                                   *)
(***************************************************************************)
LEMMA CountInit == Init => CountInv
<1> SUFFICES ASSUME Init PROVE CountInv
  OBVIOUS
<1>1. heap = EmptyHeap /\ held = [o \in Objects |-> 0] /\ statics = [v \in Statics |-> NoObject] /\ gc = Idle
  BY DEF Init
<1>2. NoObject \notin Objects
  BY ObjectsAssumption
<1>3. \A o \in Objects :
        /\ ~heap.live[o] /\ ~heap.dying[o] /\ ~heap.constant[o] /\ ~heap.deleted[o]
        /\ heap.next[o] = NoObject /\ heap.prev[o] = NoObject /\ heap.first # o
        /\ \A s \in 1 .. Slots : heap.member[o][s] = NoObject
        /\ held[o] = 0
  BY <1>1, <1>2 DEF EmptyHeap
<1>4. heap.calls = <<>> /\ \A v \in Statics : statics[v] = NoObject
  BY <1>1 DEF EmptyHeap
<1>5. \A o \in Objects : MemberRefs(o) = {} /\ StaticRefs(o) = {} /\ Filled(o) = {}
  BY <1>2, <1>3, <1>4 DEF MemberRefs, StaticRefs, Filled
<1>6. \A o \in Objects : Account(o)
  BY <1>3, <1>5 DEF Account, Dead, Plain, Listed, Unused
<1>7. \A op, o : ~In(op, o)
  BY <1>4 DEF In, Within
<1>8. CallsOwn
  BY <1>4, <1>7 DEF CallsOwn, Unique
<1>9. CollectionOwns
  BY <1>3 DEF CollectionOwns
<1> QED
  BY <1>1, <1>6, <1>8, <1>9, ListInit DEF CountInv, Init

LEMMA CountStutter == CountInv /\ UNCHANGED vars => CountInv'
<1> SUFFICES ASSUME CountInv, UNCHANGED vars PROVE CountInv'
  OBVIOUS
<1>1. heap' = heap /\ held' = held /\ statics' = statics /\ gc' = gc
  BY DEF vars
<1>2. ListInv'
  BY ListStutter DEF CountInv
<1>3. \A op, o : In(op, o)' <=> In(op, o)
  BY <1>1 DEF In
<1>4. \A o : MemberRefs(o)' = MemberRefs(o) /\ StaticRefs(o)' = StaticRefs(o) /\ Filled(o)' = Filled(o)
  BY <1>1 DEF MemberRefs, StaticRefs, Filled
<1>5. CallsOwn'
  BY <1>1, <1>3, <1>4 DEF CountInv, CallsOwn
<1>6. CollectionOwns'
  BY <1>1 DEF CountInv, CollectionOwns
<1>7. \A x \in Objects : Account(x)'
  <2> SUFFICES ASSUME NEW x \in Objects PROVE Account(x)'
    OBVIOUS
  <2>1. Account(x)
    BY DEF CountInv
  <2>2. Same(x)
    BY <1>1, <1>3, <1>4 DEF Same
  <2> QED
    BY <2>1, <2>2, <1>3, <1>4, SameAccount
<1> QED
  BY <1>2, <1>5, <1>6, <1>7 DEF CountInv

\* A misjudgement is never taken back.
LEMMA MisjudgedStays == misjudged /\ [Next]_vars => misjudged'
<1> SUFFICES ASSUME misjudged, [Next]_vars PROVE misjudged'
  OBVIOUS
<1>1. CASE Script
  BY <1>1 DEF Script, New, Load, Drop, Store, Clear, StoreStatic, ClearStatic, Running
<1>2. CASE CallStep
  BY <1>2 DEF CallStep, DestroyVariable, Destroyed, AddNewValue
<1>3. CASE Collection
  BY <1>3 DEF Collection, Begin, SkipCandidate, HandleCandidate, HandleAgain, ReleaseNext, End
<1>4. CASE UNCHANGED vars
  BY <1>4 DEF vars
<1> QED
  BY <1>1, <1>2, <1>3, <1>4 DEF Next

\* The counts are kept unless a search has misjudged.
SoundInv == misjudged \/ CountInv
LEMMA SoundInit == Init => SoundInv
  BY CountInit DEF SoundInv

LEMMA CountStep == SoundInv /\ SearchRight /\ [Next]_vars => SoundInv'
<1> SUFFICES ASSUME CountInv, ~misjudged, ~misjudged', SearchRight, [Next]_vars PROVE CountInv'
  BY MisjudgedStays DEF SoundInv
<1>0. SearchAnswers
  BY DEF SearchRight, SearchAnswers
<1>1. ListInv
  BY DEF CountInv
<1>2. CASE Script
  BY <1>1, <1>2, ListScript, CountScript DEF CountInv
<1>3. CASE CallStep
  <2>1. CallsOwn' /\ CollectionOwns' /\ \A x \in Objects : Account(x)'
    BY <1>3, CountVariable, CountDestroyed, CountAdded DEF CallStep
  <2> QED
    BY <2>1, <1>1, <1>3, ListCalls DEF CountInv
<1>4. CASE Collection
  BY <1>0, <1>1, <1>4, ListCollection, CountCollection DEF CountInv
<1>5. CASE UNCHANGED vars
  BY <1>5, CountStutter
<1> QED
  BY <1>2, <1>3, <1>4, <1>5 DEF Next

\* As long as a search is right about what it gives to the collection, the asserts
\* of ASObject::addStoredMember and removeStoredMember may rely on the counts:
\* whenever a script runs, storedmembercount is the number of the variables that
\* refer to an object, storedmembercountstatic the number of those of classes,
\* and ref_count adds the stack and the one reference of the candidate list,
\* however the releases of objects have nested and whatever was collected.
THEOREM CountsAreExact == Spec /\ []SearchRight => []CountsExact
<1>1. SoundInv => CountsExact
  <2> SUFFICES ASSUME CountInv, AtRest, NEW o \in Objects, heap.live[o]
               PROVE  /\ heap.stored[o] = Stored(o)
                      /\ heap.static[o] = Cardinality(StaticRefs(o))
                      /\ heap.ref[o] = Stored(o) + held[o] + (IF Listed(heap, o) THEN 1 ELSE 0)
    BY DEF CountsExact, SoundInv
  <2>1. Good(o) \/ Dead(o)
    BY ScriptState DEF AtRest
  <2>2. Good(o)
    BY <2>1 DEF Dead
  <2>3. /\ heap.stored[o] = Stored(o) /\ heap.static[o] = Cardinality(StaticRefs(o))
        /\ heap.ref[o] = Stored(o) + held[o] + One(Listed(heap, o))
    BY <2>2, ScriptState DEF AtRest
  <2> QED
    BY <2>3 DEF One
<1> QED
  BY <1>1, SoundInit, CountStep, PTL DEF Spec

\* As long as a search is right, an object that RefCountable::handleDestruction
\* has released (it is deleted, or waits in the free list of its class for the
\* next new) is referred to by no variable, by no class, by no stack and by no
\* list of candidates.
THEOREM NothingReleasedInUse == Spec /\ []SearchRight => []NoReleasedInUse
<1>1. SoundInv => NoReleasedInUse
  <2> SUFFICES ASSUME CountInv, NEW o \in Objects, ~heap.live[o]
               PROVE  held[o] = 0 /\ Stored(o) = 0 /\ ~Listed(heap, o)
    BY DEF NoReleasedInUse, SoundInv
  <2>1. Dead(o)
    BY DEF CountInv, Account, Good, Dying, Condemned
  <2> QED
    BY <2>1, StoredCount DEF Dead, Unused
<1> QED
  BY <1>1, SoundInit, CountStep, PTL DEF Spec

(***************************************************************************)
(* What a script can reach.                                                *)
(***************************************************************************)
\* During a collection the objects in use refer to objects in use.
LEMMA InUseClosed ==
  ASSUME CountInv, gc.phase # "idle"
  PROVE  \A x \in ReachableFrom(Roots) : x \in Objects /\ Good(x)
<1> DEFINE G == {o \in Objects : Good(o)}
<1>1. heap \in Heaps /\ held \in [Objects -> Nat] /\ \A o \in Objects : Account(o)
  BY DEF CountInv, ListInv, Types
<1>2. Roots \subseteq G
  BY <1>1 DEF Roots, Account, Dead, Dying, Unused, Condemned
<1>3. Closed(G)
  <2> SUFFICES ASSUME NEW p \in G, NEW s \in 1 .. Slots, heap.member[p][s] # NoObject
               PROVE  heap.member[p][s] \in G
    BY DEF Closed
  <2>1. PICK x \in Objects : x = heap.member[p][s]
    <3>1. heap.member \in [Objects -> [1 .. Slots -> Maybe]] /\ p \in Objects
      BY <1>1 DEF Heaps
    <3>2. heap.member[p][s] \in Maybe
      BY <3>1
    <3> QED
      BY <3>2 DEF Maybe
  <2>2. <<p, s>> \in MemberRefs(x)
    BY <2>1 DEF MemberRefs
  <2>3. ~heap.constant[p]
    BY DEF Good, Plain
  <2>4. ~In("collect", p)
    BY <2>3 DEF CountInv, CallsOwn
  <2>5. ~Condemned(x)
    BY <2>1, <2>4 DEF Condemned
  <2>6. ~Dead(x) /\ ~Dying(x)
    BY <2>2 DEF Dead, Dying, Unused
  <2> QED
    BY <2>1, <2>5, <2>6, <1>1 DEF Account
<1> QED
  BY <1>2, <1>3 DEF ReachableFrom

\* No step of a collection, or of the releases in it, touches an object in use.
LEMMA CallsKeep ==
  ASSUME CountInv, gc.phase # "idle", CallStep
  PROVE  \A x \in Objects : Good(x) => heap'.live[x] = heap.live[x] /\ heap'.member[x] = heap.member[x]
<1>1. Busy
  BY DEF CallStep, DestroyVariable, Destroyed, AddNewValue
<1>2. PICK p \in Objects, op \in Ops : p = Innermost.obj /\ op = Innermost.op
  BY <1>1, Calling
<1>3. /\ Regular(heap) /\ heap \in Heaps /\ heap.calls \in Seq(Frames) /\ heap.calls # <<>>
      /\ In(op, p) /\ Head(heap.calls) = Frame(op, p)
  BY <1>1, <1>2, Calling
<1>4. op \notin AddOps
  <2>1. PICK i \in DOMAIN heap.calls : heap.calls[i] = [op |-> op, obj |-> p]
    BY <1>3 DEF In, Within
  <2> QED
    BY <2>1 DEF CountInv, ListInv, CallsFit
<1>5. op = "release" \/ op = "collect"
  BY <1>4 DEF Ops, AddOps
<1>6. ~Good(p)
  BY <1>3, <1>5, Destroying DEF Good, Dying, Condemned, Plain
<1>7. CASE DestroyVariable
  <2>1. PICK s \in Filled(p) : heap' = removeStoredMember([heap EXCEPT !.member[p][s] = NoObject], heap.member[p][s])
    BY <1>2, <1>7 DEF DestroyVariable
  <2>2. s \in 1 .. Slots /\ heap.member[p][s] \in Objects
    <3>1. s \in 1 .. Slots /\ heap.member[p][s] # NoObject
      BY DEF Filled
    <3>2. heap.member \in [Objects -> [1 .. Slots -> Maybe]]
      BY <1>3 DEF Heaps
    <3>3. heap.member[p][s] \in Maybe
      BY <3>1, <3>2
    <3> QED
      BY <3>1, <3>3 DEF Maybe
  <2>3. PICK m \in Objects : m = heap.member[p][s]
    BY <2>2
  <2>4. PICK b : b = SetMember(heap, p, s, NoObject)
    OBVIOUS
  <2>5. NoObject \in Maybe
    BY DEF Maybe
  <2>6. /\ b \in Heaps /\ SameList(b, heap) /\ b.marked = heap.marked /\ b.calls = heap.calls
        /\ b.live = heap.live /\ b.deleted = heap.deleted /\ b.dying = heap.dying /\ b.constant = heap.constant
        /\ b.ref = heap.ref /\ b.stored = heap.stored /\ b.static = heap.static
        /\ b.member = [heap.member EXCEPT ![p] = [@ EXCEPT ![s] = NoObject]]
    <3> HIDE <2>4
    <3> QED
      BY <1>3, <2>2, <2>4, <2>5, ClearedMember
  <2>7. Regular(b) /\ Grown(b, heap) /\ ChainOf(b) = ChainOf(heap)
    BY <1>3, <2>6, SameRegular
  <2>8. heap' = removeStoredMember(b, m)
    BY <2>1, <2>3, <2>4 DEF SetMember
  <2>9. Regular(heap') /\ Grown(heap', b) /\ Unstored(heap', b, m)
    BY <2>7, <2>8, RemoveStoredRegular
  <2>10. heap'.live = heap.live /\ heap'.member = [heap.member EXCEPT ![p] = [@ EXCEPT ![s] = NoObject]]
    BY <2>6, <2>9 DEF Unstored
  <2>11. \A x \in Objects : x # p => heap'.member[x] = heap.member[x]
    BY <2>10, <1>3 DEF Heaps
  <2> QED
    BY <2>10, <2>11, <1>6
<1>8. CASE Destroyed
  <2>1. PICK b : b = Return(heap)
    OBVIOUS
  <2>2. heap' = Released(b, p) \/ heap' = Mark(b, p)
    BY <1>2, <1>8, <2>1 DEF Destroyed
  <2>3. Regular(b) /\ SameBut(b, heap)
    <3>1. /\ Regular(b) /\ Grown(b, heap) /\ SameBut(b, heap) /\ ChainOf(b) = ChainOf(heap)
          /\ b.dying = heap.dying /\ b.ref = heap.ref /\ b.stored = heap.stored /\ b.static = heap.static
          /\ b.calls = Tail(heap.calls)
      <4> HIDE <2>1
      <4> QED
        BY <2>1, <1>3, ReturnRegular
    <3> QED
      BY <3>1
  <2>4. CASE heap' = Released(b, p)
    <3>1. Regular(heap') /\ Grown(heap', b) /\ ChainOf(heap') = ChainOf(b) /\ Gone(heap', b, p)
      BY <2>3, <2>4, ReleasedRegular
    <3>2. heap'.member = heap.member /\ heap'.live = [heap.live EXCEPT ![p] = FALSE]
      BY <3>1, <2>3 DEF Gone, SameBut
    <3>3. \A x \in Objects : x # p => heap'.live[x] = heap.live[x]
      BY <3>2, <1>3 DEF Heaps
    <3> QED
      BY <3>2, <3>3, <1>6
  <2>5. CASE heap' = Mark(b, p)
    <3>1. /\ Regular(heap') /\ Grown(heap', b) /\ Counts(heap', b) /\ heap'.marked = [b.marked EXCEPT ![p] = TRUE]
          /\ ChainOf(heap') = ChainOf(b) \cup {p}
      BY <2>3, <2>5, MarkRegular
    <3> QED
      BY <3>1, <2>3 DEF Counts, SameBut
  <2> QED
    BY <2>2, <2>4, <2>5
<1>9. ~AddNewValue
  BY <1>2, <1>4 DEF AddNewValue, AddOps
<1> QED
  BY <1>7, <1>8, <1>9 DEF CallStep

LEMMA CollectionKeeps ==
  ASSUME CountInv, Collection, SearchAnswers
  PROVE  heap'.live = heap.live /\ heap'.member = heap.member
<1>1. CASE Begin \/ SkipCandidate \/ HandleAgain \/ End
  BY <1>1 DEF Begin, SkipCandidate, HandleAgain, End
<1>2. CASE ReleaseNext
  <2>1. ~Busy /\ gc.next \in Objects /\ (heap' = ReleaseOne(heap, gc.next) \/ heap' = heap)
    BY <1>2 DEF ReleaseNext, At, Candidate, CountInv, ListInv, ListLinked, Chain, ChainOf
  <2>2. Regular(heap)
    BY <2>1, Collecting
  <2>3. CASE heap' = ReleaseOne(heap, gc.next)
    <3>1. Regular(heap') /\ Freed(heap', heap, gc.next)
      BY <2>1, <2>2, <2>3, ReleaseRegular
    <3> QED
      BY <3>1 DEF Freed
  <2> QED
    BY <2>1, <2>3
<1>3. CASE HandleCandidate
  <2>1. ~Busy /\ gc.phase = "handle" /\ gc.next # NoObject /\ ~heap.deleted[Candidate]
        /\ heap' = handleGarbageCollection(Taken, Candidate)
    BY <1>3 DEF HandleCandidate, At
  <2>2. Regular(heap) /\ heap \in Heaps /\ heap.calls = <<>>
    BY <2>1, Collecting
  <2>3. PICK c \in Chain : c = Candidate
    BY <2>1 DEF CountInv, ListInv, ListLinked, Candidate
  <2>4. PICK t : t = RemoveCandidate(heap, c)
    OBVIOUS
  <2>5. c \in Objects /\ c \in ChainOf(heap) /\ t = Taken
    BY <2>3, <2>4 DEF Chain, ChainOf, Taken
  <2>6. /\ Regular(t) /\ Counts(t, heap) /\ t.marked = [heap.marked EXCEPT ![c] = FALSE]
        /\ ChainOf(t) = ChainOf(heap) \ {c}
    BY <2>2, <2>4, <2>5, RemoveRegular
  <2>7. heap' = handleGarbageCollection(t, c)
    BY <2>1, <2>3, <2>5
  <2>8. CASE heap' = t
    BY <2>6, <2>8 DEF Counts
  <2>9. CASE heap' = decRef(t, c)
    <3>1. Regular(heap') /\ Grown(heap', t) /\ ChainOf(heap') = ChainOf(t) /\ Dropped(heap', t, c)
      BY <2>5, <2>6, <2>9, DecRefRegular
    <3> QED
      BY <3>1, <2>6 DEF Dropped, SameBut, Counts
  <2>10. CASE heap' = addObjectToGarbageCollector(t, c)
    <3>1. /\ Regular(heap') /\ Grown(heap', t) /\ Counts(heap', t) /\ heap'.marked = t.marked
          /\ ChainOf(heap') = ChainOf(t) \cup {c}
      BY <2>5, <2>6, <2>10, AddRegular
    <3> QED
      BY <3>1, <2>6 DEF Counts
  <2>11. CASE Searched(t, c) /\ heap' = Delete(t, Append(Search(t, c).found, c))
    <3>1. Search(t, c) \in Answers
      BY <2>1, <2>3, <2>5, <2>11 DEF SearchAnswers, SearchesNow, At
    <3>2. PICK q \in Seq(Objects) : q = Append(Search(t, c).found, c)
      <4>1. PICK f \in Seq(Objects) : f = Search(t, c).found
        BY <3>1 DEF Answers
      <4>2. Append(f, c) \in Seq(Objects)
        BY <2>5
      <4> QED
        BY <4>1, <4>2
    <3>3. heap' = Delete(t, q)
      BY <2>11, <3>2
    <3>4. Regular(heap') /\ Grown(heap', t) /\ ChainOf(heap') = ChainOf(t) /\ Deleted(heap', t, q)
      BY <2>6, <3>3, DeleteRegular
    <3> QED
      BY <3>4, <2>6 DEF Deleted, Counts
  <2> QED
    BY <2>7, <2>8, <2>9, <2>10, <2>11 DEF handleGarbageCollection, Decide
<1> QED
  BY <1>1, <1>2, <1>3 DEF Collection

\* As long as a search is right about what it gives to the collection,
\* ASWorker::processGarbageCollection, and the releases that it causes, neither
\* release an object that a script can still reach from its stack or from a class,
\* nor reset a variable of it.
THEOREM ReachableStays == Spec /\ []SearchRight => ReachableKept
<1>1. SoundInv /\ SearchRight /\ [Next]_vars =>
        [gc.phase # "idle" /\ ~misjudged => \A o \in ReachableFrom(Roots) :
           heap'.live[o] /\ heap'.member[o] = heap.member[o]]_vars
  <2> SUFFICES ASSUME CountInv, ~misjudged, SearchRight, Next, gc.phase # "idle", NEW o \in ReachableFrom(Roots)
               PROVE  heap'.live[o] /\ heap'.member[o] = heap.member[o]
    BY DEF SoundInv
  <2>1. o \in Objects /\ Good(o)
    BY InUseClosed
  <2>2. heap.live[o]
    BY <2>1 DEF Good
  <2>3. ~Script
    BY DEF Script, New, Load, Drop, Store, Clear, StoreStatic, ClearStatic, Running
  <2>4. heap'.live[o] = heap.live[o] /\ heap'.member[o] = heap.member[o]
    BY <2>1, <2>3, CallsKeep, CollectionKeeps DEF Next, SearchRight, SearchAnswers
  <2> QED
    BY <2>2, <2>4
<1> QED
  BY <1>1, SoundInit, CountStep, PTL DEF Spec, ReachableKept

(***************************************************************************)
(* The types.                                                              *)
(***************************************************************************)
StackFits == \A o \in Objects : held[o] <= MaxHeld
HistoryFits == misjudged \in BOOLEAN

LEMMA StackRoom ==
  ASSUME held \in [Objects -> Nat], StackFits, NEW o \in Objects, Pushed(o) \/ Popped(o)
  PROVE  StackFits'
<1>1. MaxHeld \in Nat \ {0} /\ IsFiniteSet(Objects)
  BY SlotsAssumption, ObjectsAssumption
<1> DEFINE R == {r \in Objects \X (1 .. MaxHeld) : r[2] <= held[r[1]]}
<1>2. CASE Pushed(o)
  <2>1. ASSUME held[o] >= MaxHeld PROVE FALSE
    <3>1. {o} \X (1 .. MaxHeld) \subseteq R
      BY <2>1, <1>1
    <3>2. IsFiniteSet(1 .. MaxHeld) /\ Cardinality(1 .. MaxHeld) = MaxHeld
      BY <1>1, FS_Interval
    <3>3. IsFiniteSet(R)
      BY <1>1, <3>2, FS_Product, FS_Subset
    <3>4. IsFiniteSet({o}) /\ Cardinality({o}) = 1
      BY FS_Singleton
    <3>5. Cardinality({o} \X (1 .. MaxHeld)) = MaxHeld
      <4>1. Cardinality({o} \X (1 .. MaxHeld)) = Cardinality({o}) * Cardinality(1 .. MaxHeld)
        BY <3>2, <3>4, FS_Product
      <4> QED
        BY <4>1, <3>2, <3>4, <1>1
    <3>6. Cardinality({o} \X (1 .. MaxHeld)) <= Cardinality(R)
      BY <3>1, <3>3, FS_Subset
    <3>7. Cardinality(R) < MaxHeld
      BY <1>2 DEF Pushed, StackSize
    <3>8. Cardinality(R) \in Nat
      BY <3>3, FS_CardinalityType
    <3> QED
      BY <3>5, <3>6, <3>7, <3>8, <1>1
  <2>2. held[o] \in Nat /\ held[o] + 1 <= MaxHeld
    BY <2>1, <1>1
  <2> QED
    BY <2>2, <1>2 DEF Pushed, StackFits
<1>3. CASE Popped(o)
  <2>1. \A x \in Objects : held'[x] \in Nat /\ held'[x] <= held[x]
    BY <1>3 DEF Popped
  <2> QED
    BY <2>1, <1>1 DEF StackFits
<1> QED
  BY <1>2, <1>3

\* The flags, the list, the calls in progress and the stack keep their types for
\* any objects, as long as a search answers with a list of objects: the stack
\* stays within its room.
THEOREM TypesHold == Spec /\ []SearchAnswers => []TypeOK
<1>1. Init => StackFits
  <2> SUFFICES ASSUME Init PROVE StackFits
    OBVIOUS
  <2>1. \A o \in Objects : held[o] = 0
    BY DEF Init
  <2>2. 0 <= MaxHeld
    BY SlotsAssumption
  <2> QED
    BY <2>1, <2>2 DEF StackFits
<1>2. ListInv /\ StackFits /\ [Next]_vars => StackFits'
  <2> SUFFICES ASSUME ListInv, StackFits, [Next]_vars PROVE StackFits'
    OBVIOUS
  <2>1. held \in [Objects -> Nat]
    BY DEF ListInv, Types
  <2>2. CASE UNCHANGED held
    BY <2>2 DEF StackFits
  <2>3. CASE \E o \in Objects : Pushed(o) \/ Popped(o)
    BY <2>1, <2>3, StackRoom
  <2>4. CASE Script
    BY <2>2, <2>3, <2>4 DEF Script, New, Load, Drop, Store, Clear, StoreStatic, ClearStatic
  <2>5. CASE CallStep
    BY <2>2, <2>5 DEF CallStep, DestroyVariable, Destroyed, AddNewValue
  <2>6. CASE Collection
    BY <2>2, <2>6 DEF Collection, Begin, SkipCandidate, HandleCandidate, HandleAgain, ReleaseNext, End
  <2> QED
    BY <2>2, <2>4, <2>5, <2>6 DEF Next, vars
<1>3. ListInv /\ StackFits /\ HistoryFits => TypeOK
  <2> SUFFICES ASSUME ListInv, StackFits, HistoryFits PROVE TypeOK
    OBVIOUS
  <2>1. Types
    BY DEF ListInv
  <2>2. held \in [Objects -> 0 .. MaxHeld]
    BY <2>1, SlotsAssumption DEF Types, StackFits
  <2> QED
    BY <2>1, <2>2 DEF Types, TypeOK, HistoryFits, Heaps, Frames, Ops, Phases
<1>4. ListInv /\ SearchAnswers /\ [Next]_vars => ListInv'
  BY ListScript, ListCalls, ListCollection, ListStutter DEF Next
<1>5. Init => HistoryFits
  BY DEF Init, HistoryFits
<1>6. HistoryFits /\ [Next]_vars => HistoryFits'
  <2> SUFFICES ASSUME misjudged \in BOOLEAN, [Next]_vars PROVE misjudged' \in BOOLEAN
    BY DEF HistoryFits
  <2>1. CASE misjudged' = misjudged
    BY <2>1
  <2>2. CASE HandleCandidate
    BY <2>2 DEF HandleCandidate
  <2>3. CASE Script
    BY <2>1, <2>3 DEF Script, New, Load, Drop, Store, Clear, StoreStatic, ClearStatic, Running
  <2>4. CASE CallStep
    BY <2>1, <2>4 DEF CallStep, DestroyVariable, Destroyed, AddNewValue
  <2>5. CASE Collection
    BY <2>1, <2>2, <2>5 DEF Collection, Begin, SkipCandidate, HandleAgain, ReleaseNext, End
  <2> QED
    BY <2>1, <2>3, <2>4, <2>5 DEF Next, vars
<1> QED
  BY <1>1, <1>2, <1>3, <1>4, <1>5, <1>6, ListInit, PTL DEF Spec

(***************************************************************************)
(* What a search has to count.                                             *)
(***************************************************************************)
\* During a collection an object that is live and not constant has exact counts.
LEMMA CollectionCounts ==
  ASSUME CountInv, ~Busy, NEW o \in Objects, heap.live[o], ~heap.constant[o]
  PROVE  /\ heap.stored[o] = Stored(o) /\ heap.ref[o] = Stored(o) + held[o] + One(Listed(heap, o))
         /\ held[o] \in Nat /\ Stored(o) \in Nat
<1>1. /\ Types /\ \A op, x : ~In(op, x)
      /\ \A x \in Objects : Good(x) \/ Dead(x) \/ Condemned(x)
  BY Collecting
<1>2. Good(o)
  BY <1>1 DEF Dead, Condemned
<1>3. One(Adding(o)) = 0
  BY <1>1 DEF One, Adding
<1>4. heap.stored[o] = Stored(o) - One(Adding(o)) /\ heap.ref[o] = Stored(o) + held[o] + One(Listed(heap, o))
  BY <1>2 DEF Good, Refs
<1>5. heap.stored[o] = Stored(o) - 0
  BY <1>3, <1>4
<1>6. held[o] \in Nat /\ Stored(o) \in Nat
  BY <1>1, StoredCount DEF Types
<1>7. heap.stored[o] = Stored(o)
  BY <1>5, <1>6
<1> QED
  BY <1>4, <1>6, <1>7

\* References that are as many as an object has are all of them.
LEMMA AllInside ==
  ASSUME NEW q \in Seq(Objects), NEW o \in Objects, Inside(q, o) >= Stored(o)
  PROVE  /\ Inside(q, o) = Stored(o) /\ StaticRefs(o) = {}
         /\ \A p \in Objects, s \in 1 .. Slots : heap.member[p][s] = o => p \in Elements(q)
<1> DEFINE I == {r \in MemberRefs(o) : r[1] \in Elements(q)}
           M == MemberRefs(o)
           V == StaticRefs(o)
<1>1. M \in SUBSET (Objects \X (1 .. Slots)) /\ V \in SUBSET Statics /\ I \in SUBSET M
  BY RefSets
<1>2. IsFiniteSet(M) /\ Cardinality(M) \in Nat /\ Cardinality(V) \in Nat /\ (Cardinality(V) = 0 <=> V = {})
  BY <1>1, CountRefs
<1>3. Cardinality(I) <= Cardinality(M) /\ (Cardinality(M) = Cardinality(I) => M = I) /\ IsFiniteSet(I)
  BY <1>1, <1>2, FS_Subset
<1>4. Cardinality(I) \in Nat
  BY <1>3, FS_CardinalityType
<1>5. Inside(q, o) = Cardinality(I) /\ Stored(o) = Cardinality(M) + Cardinality(V)
  BY DEF Inside, Stored
<1> HIDE DEF I, M, V
<1>6. Cardinality(M) = Cardinality(I) /\ Cardinality(V) = 0
  BY <1>2, <1>3, <1>4, <1>5
<1>7. M = I /\ V = {}
  BY <1>2, <1>3, <1>6
<1>8. ASSUME NEW p \in Objects, NEW s \in 1 .. Slots, heap.member[p][s] = o
      PROVE  p \in Elements(q)
  <2>1. <<p, s>> \in M
    BY <1>8 DEF M, MemberRefs
  <2>2. <<p, s>> \in I
    BY <2>1, <1>7
  <2> QED
    BY <2>2 DEF I
<1>9. Inside(q, o) = Stored(o)
  BY <1>2, <1>5, <1>6
<1>10. StaticRefs(o) = {}
  BY <1>7 DEF V
<1> QED
  BY <1>8, <1>9, <1>10

\* A search that has counted what it gives to the collection is right.
LEMMA CountingIsRight ==
  ASSUME SoundInv, SearchCounts
  PROVE  SearchRight
<1> SUFFICES ASSUME SearchesNow, CountInv, ~misjudged, NEW answer, answer = Search(Taken, Candidate)
             PROVE  /\ answer \in Answers
                    /\ answer.verdict = "collect" /\ ~answer.early => Garbage(Append(answer.found, Candidate))
  BY DEF SearchRight, SoundInv
<1>1. /\ answer \in Answers
      /\ answer.verdict = "collect" /\ ~answer.early => AllCountedInside(Append(answer.found, Candidate))
  BY DEF SearchCounts
<1>2. ~Busy /\ gc.next # NoObject /\ OnlyMembersLeft(Taken, Candidate)
  BY DEF SearchesNow, Searched, At
<1>3. PICK c \in Chain : c = Candidate
  BY <1>2 DEF CountInv, ListInv, ListLinked, Candidate
<1>4. c \in Objects /\ c \in ChainOf(heap) /\ Regular(heap) /\ heap \in Heaps
  BY <1>2, <1>3, Collecting DEF Chain, ChainOf
<1>5. Counts(Taken, heap) /\ ChainOf(Taken) = ChainOf(heap) \ {c}
  BY <1>3, <1>4, RemoveRegular DEF Taken
<1>6. /\ \A o \in Objects : Listed(Taken, o) <=> Listed(heap, o) /\ o # c
      /\ heap.ref[c] = heap.stored[c] + 1 /\ Listed(heap, c)
  BY <1>2, <1>3, <1>4, <1>5 DEF ChainOf, Counts, OnlyMembersLeft
<1> SUFFICES ASSUME answer.verdict = "collect", ~answer.early, NEW q, q = Append(answer.found, c), AllCountedInside(q)
             PROVE  Garbage(q)
  BY <1>1, <1>3
<1>7. answer.found \in Seq(Objects) /\ q \in Seq(Objects)
  BY <1>1, <1>4 DEF Answers
<1>8. ASSUME NEW o \in Elements(q)
      PROVE  /\ heap.live[o] /\ ~heap.constant[o] /\ ~Listed(Taken, o)
             /\ held[o] = 0 /\ StaticRefs(o) = {}
             /\ \A p \in Objects, s \in 1 .. Slots : heap.member[p][s] = o => p \in Elements(q)
  <2>1. /\ o \in Objects /\ heap.live[o] /\ ~heap.constant[o]
        /\ Inside(q, o) = IF o = c THEN heap.stored[o] ELSE heap.ref[o]
    BY <1>3, <1>7 DEF AllCountedInside, Elements
  <2>2. /\ heap.stored[o] = Stored(o) /\ heap.ref[o] = Stored(o) + held[o] + One(Listed(heap, o))
        /\ held[o] \in Nat /\ Stored(o) \in Nat
    BY <1>2, <2>1, CollectionCounts
  <2>3. One(Listed(heap, o)) \in {0, 1} /\ (One(Listed(heap, o)) = 1 <=> Listed(heap, o))
    BY DEF One
  <2>4. Inside(q, o) >= Stored(o)
    <3>1. CASE o = c
      BY <3>1, <2>1, <2>2
    <3>2. CASE o # c
      BY <3>2, <2>1, <2>2, <2>3
    <3> QED
      BY <3>1, <3>2
  <2>5. /\ Inside(q, o) = Stored(o) /\ StaticRefs(o) = {}
        /\ \A p \in Objects, s \in 1 .. Slots : heap.member[p][s] = o => p \in Elements(q)
    BY <1>7, <2>1, <2>4, AllInside
  <2>6. held[o] = 0 /\ ~Listed(Taken, o)
    <3>1. CASE o = c
      <4>1. heap.ref[o] = heap.stored[o] + 1 /\ One(Listed(heap, o)) = 1
        BY <3>1, <1>6, <2>3
      <4> QED
        BY <4>1, <3>1, <1>6, <2>1, <2>2
    <3>2. CASE o # c
      <4>1. held[o] = 0 /\ One(Listed(heap, o)) = 0
        BY <3>2, <2>1, <2>2, <2>3, <2>5
      <4> QED
        BY <4>1, <1>6, <2>1, <2>3
    <3> QED
      BY <3>1, <3>2
  <2> QED
    BY <2>1, <2>5, <2>6
<1> QED
  BY <1>8 DEF Garbage, AllCountedInside

\* What handleGarbageCollection decides by, the comparison of gccounter with
\* ref_count for each object that was found, and with storedmembercount for the
\* candidate, is enough: if gccounter is the number of references from what is
\* collected, nothing else refers to that, neither a variable of another object
\* nor a class, a stack or the list of candidates.  The counts the code compares
\* with are exact at this moment, whatever was collected before; this rests on
\* the earlier searches having been right, and so on their counting.
THEOREM CountingSuffices == Spec /\ []SearchCounts => []SearchRight
<1>1. SoundInv /\ SearchCounts => SearchRight
  BY CountingIsRight
<1>2. SoundInv /\ SearchCounts /\ [Next]_vars => SoundInv'
  BY <1>1, CountStep
<1> QED
  BY <1>1, <1>2, SoundInit, PTL DEF Spec
=============================================================================
