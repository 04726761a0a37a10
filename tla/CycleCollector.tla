---------------------------- MODULE CycleCollector ----------------------------
(***************************************************************************)
(* Reference counting and the collection of cycles of script objects:      *)
(* RefCountable (src/src/smartrefs.h), ASObject::addStoredMember,          *)
(* removeStoredMember and handleGarbageCollection (src/src/asobject.cpp),  *)
(* and the list of candidates of an ASWorker                               *)
(* (src/src/scripting/flash/system/ASWorker.cpp).                          *)
(*                                                                         *)
(* All of it runs on the thread of one worker.  The release of an object   *)
(* destroys its variables, which may release other objects before it is    *)
(* done: the calls that are in progress are a stack, and each variable is  *)
(* one step.  The state of the objects is one record, the heap, which the  *)
(* functions of the code transform.  What the search inside a cycle        *)
(* answers is a parameter, CycleSearch has it.                             *)
(***************************************************************************)
EXTENDS Integers, Sequences, FiniteSets

CONSTANTS
    Objects, NoObject,
    Slots,        \* how many variables every object has
    May,          \* what each variable of an object or a class may refer to
    Statics,      \* variables of classes
    MaxHeld,      \* how many references the script stack has room for
    Search(_, _)  \* what countCylicMemberReferences finds for a heap and a candidate

ASSUME ObjectsAssumption == IsFiniteSet(Objects) /\ NoObject \notin Objects
ASSUME SlotsAssumption ==
    /\ Slots \in Nat \ {0} /\ MaxHeld \in Nat \ {0} /\ IsFiniteSet(Statics)
    /\ May \in [(Objects \X (1 .. Slots)) \cup Statics -> SUBSET Objects]

VARIABLES
    heap,     \* the objects
    held,     \* per object: references of the running script's stack and of native code
    statics,  \* the variables of classes
    gc,       \* where a collection is
    misjudged \* an early judgement has given something in use to it (history)

vars == <<heap, held, statics, gc, misjudged>>

Maybe == Objects \cup {NoObject}
Elements(q) == {q[i] : i \in DOMAIN q}

\* Fields of the heap, all per object but the last three:
\*   live     allocated and not released, ref: ref_count,
\*   stored   storedmembercount, static: storedmembercountstatic,
\*   member   the variables, marked: markedforgarbagecollection,
\*   deleted  deletedingarbagecollection, dying: inDestruction,
\*   constant isConstant, next and prev: gcNext and gcPrev;
\*   first and last of the candidate list, and calls: the calls in progress,
\*   the innermost first.
EmptyHeap ==
    [live     |-> [o \in Objects |-> FALSE],
     ref      |-> [o \in Objects |-> 0],
     stored   |-> [o \in Objects |-> 0],
     static   |-> [o \in Objects |-> 0],
     member   |-> [o \in Objects |-> [s \in 1 .. Slots |-> NoObject]],
     marked   |-> [o \in Objects |-> FALSE],
     deleted  |-> [o \in Objects |-> FALSE],
     dying    |-> [o \in Objects |-> FALSE],
     constant |-> [o \in Objects |-> FALSE],
     next     |-> [o \in Objects |-> NoObject],
     prev     |-> [o \in Objects |-> NoObject],
     first    |-> NoObject, last |-> NoObject, calls |-> <<>>]

\* A collection handles the candidates and then releases what it has found:
\* next is the candidate it comes to, collected that one was found, and due
\* those that it owes to find (history).
Idle == [phase |-> "idle", next |-> NoObject, collected |-> FALSE, due |-> {}]

Init ==
    /\ heap = EmptyHeap /\ held = [o \in Objects |-> 0]
    /\ statics = [v \in Statics |-> NoObject] /\ gc = Idle /\ misjudged = FALSE

-----------------------------------------------------------------------------
(***************************************************************************)
(* The list of candidates of the worker                                    *)
(***************************************************************************)

Listed(h, o) == h.next[o] # NoObject \/ h.prev[o] # NoObject \/ h.first = o

addObjectToGarbageCollector(h, o) ==
    IF Listed(h, o) THEN h
    ELSE IF h.first = NoObject THEN [h EXCEPT !.first = o, !.last = o]
    ELSE [h EXCEPT !.next[h.last] = o, !.prev[o] = h.last, !.last = o]

Unlink(h, o) ==
    LET n == h.next[o]
        p == h.prev[o]
        forward  == IF p # NoObject THEN [h EXCEPT !.next[p] = n]
                    ELSE IF n # NoObject THEN [h EXCEPT !.first = n, !.prev[n] = NoObject]
                    ELSE [h EXCEPT !.first = NoObject]
    IN  IF n # NoObject THEN [forward EXCEPT !.prev[n] = p]
        ELSE IF p # NoObject THEN [forward EXCEPT !.last = p, !.next[p] = NoObject]
        ELSE [forward EXCEPT !.last = NoObject]

removeObjectFromGarbageCollector(h, o) ==
    [Unlink(h, o) EXCEPT !.prev[o] = NoObject, !.next[o] = NoObject]

removefromGarbageCollection(h, o) ==
    [(IF h.marked[o] THEN removeObjectFromGarbageCollector(h, o) ELSE h)
        EXCEPT !.marked[o] = FALSE, !.deleted[o] = FALSE]

Mark(h, o) == [addObjectToGarbageCollector(h, o) EXCEPT !.marked[o] = TRUE]

-----------------------------------------------------------------------------
(***************************************************************************)
(* Reference counts                                                        *)
(***************************************************************************)

Call(h, op, o) == [h EXCEPT !.calls = <<[op |-> op, obj |-> o]>> \o @]
Return(h) == [h EXCEPT !.calls = Tail(@)]

\* RefCountable::decRef and handleDestruction, up to the call of destruct.
decRef(h, o) ==
    IF h.constant[o] \/ ~h.live[o] THEN h
    ELSE IF h.ref[o] # 1 THEN [h EXCEPT !.ref[o] = @ - 1]
    ELSE IF h.dying[o] THEN h
    ELSE Call([h EXCEPT !.dying[o] = TRUE], "release", o)

\* The end of handleDestruction.  An object that is released is deleted or
\* cached in a free list; nothing happens to it in either case.
Released(h, o) == [h EXCEPT !.live[o] = FALSE, !.dying[o] = FALSE, !.ref[o] = 0]

\* The reference of a variable that goes away may be the last but those of
\* other variables: the list of candidates then keeps it.
OnlyMembersLeft(h, o) == h.stored[o] > 0 /\ h.ref[o] = h.stored[o] + 1

removeStoredMember(h, o) ==
    IF h.constant[o] \/ ~h.live[o] \/ h.dying[o] \/ h.deleted[o] THEN h
    ELSE LET r == [h EXCEPT !.stored[o] = @ - 1]
         IN  IF OnlyMembersLeft(r, o) /\ ~r.marked[o] /\ r.static[o] = 0
             THEN Mark(r, o) ELSE decRef(r, o)

NotCounted(h, o) == h

\* A candidate that is stored again is none: the list's reference is dropped.
addStoredMember(h, o) ==
    IF h.constant[o] THEN h
    ELSE LET a == [h EXCEPT !.stored[o] = @ + 1]
         IN  IF a.marked[o] THEN decRef(removefromGarbageCollection(a, o), o) ELSE a

decRefAndGCCheck(h, o) ==
    IF OnlyMembersLeft(h, o) /\ ~h.marked[o] THEN Mark(h, o) ELSE decRef(h, o)

incRef(h, o) == IF h.constant[o] THEN h ELSE [h EXCEPT !.ref[o] = @ + 1]

-----------------------------------------------------------------------------
(***************************************************************************)
(* The calls in progress                                                   *)
(***************************************************************************)

Busy == heap.calls # <<>>
Innermost == Head(heap.calls)

\* variables_map::destroyContents erases a variable and then removes it, in the
\* order of a hash table.
Filled(o) == {s \in 1 .. Slots : heap.member[o][s] # NoObject}

DestroyVariable ==
    /\ Busy /\ Innermost.op \in {"release", "collect"}
    /\ \E s \in Filled(Innermost.obj) :
         LET o == Innermost.obj
         IN  heap' = removeStoredMember([heap EXCEPT !.member[o][s] = NoObject], heap.member[o][s])
    /\ UNCHANGED <<held, statics, gc, misjudged>>

\* The variables are gone: the object is deleted, or kept for the end of the
\* collection in the list.
Destroyed ==
    /\ Busy /\ Innermost.op \in {"release", "collect"} /\ Filled(Innermost.obj) = {}
    /\ heap' = IF Innermost.op = "release"
                 THEN Released(Return(heap), Innermost.obj)
                 ELSE Mark(Return(heap), Innermost.obj)
    /\ UNCHANGED <<held, statics, gc, misjudged>>

\* variable::setVar, when the old value has gone.
AddNewValue ==
    /\ Busy /\ Innermost.op \in {"add", "addStatic"}
    /\ LET o == Innermost.obj
           added == addStoredMember(Return(heap), o)
       IN  heap' = IF Innermost.op = "add" THEN added ELSE [added EXCEPT !.static[o] = @ + 1]
    /\ UNCHANGED <<held, statics, gc, misjudged>>

CallStep == DestroyVariable \/ Destroyed \/ AddNewValue

-----------------------------------------------------------------------------
(***************************************************************************)
(* ASObject::handleGarbageCollection                                       *)
(***************************************************************************)

\* What the search can come to, the objects it has found besides its start, and
\* whether it judged one of them too early (history).
Answers == [verdict : {"keep", "recheck", "collect"}, found : Seq(Objects), early : BOOLEAN]

Untouched(h, o) == h.constant[o] \/ ~h.live[o] \/ h.dying[o]
Searched(h, o) == ~Untouched(h, o) /\ h.static[o] = 0 /\ OnlyMembersLeft(h, o)

\* The counts of what was found are frozen, then one object after the other is
\* destructed.  deletedingarbagecollection is set before each of them, which
\* nothing sees earlier: all functions test isConstant first.
Delete(h, q) ==
    [h EXCEPT !.constant = [o \in Objects |-> @[o] \/ o \in Elements(q)],
              !.deleted  = [o \in Objects |-> @[o] \/ o \in Elements(q)],
              !.calls    = [i \in DOMAIN q |-> [op |-> "collect", obj |-> q[i]]] \o @]

Decide(answer, h, o) ==
    CASE answer.verdict = "collect" -> Delete(h, Append(answer.found, o))
      [] answer.verdict = "recheck" -> addObjectToGarbageCollector(h, o)
      [] OTHER                      -> decRef(h, o)

handleGarbageCollection(h, o) ==
    IF Untouched(h, o) THEN h
    ELSE IF Searched(h, o) THEN Decide(Search(h, o), h, o) ELSE decRef(h, o)

-----------------------------------------------------------------------------
(***************************************************************************)
(* ASWorker::processGarbageCollection, not forced                          *)
(***************************************************************************)

RemoveCandidate(h, o) == [removeObjectFromGarbageCollector(h, o) EXCEPT !.marked[o] = FALSE]

\* What was collected is released, with its counts made consistent first.
ReleaseOne(h, o) ==
    decRef([removefromGarbageCollection(h, o)
              EXCEPT !.ref[o] = 1, !.stored[o] = 0, !.static[o] = 0, !.constant[o] = FALSE], o)

MemberRefs(o) == {r \in Objects \X (1 .. Slots) : heap.member[r[1]][r[2]] = o}
StaticRefs(o) == {v \in Statics : statics[v] = o}
ChainOf(h) == {o \in Objects : Listed(h, o)}
Chain == ChainOf(heap)

\* What a set of objects refers to, directly or not, and the set itself.
Closed(T) == \A p \in T, s \in 1 .. Slots : heap.member[p][s] \in T \cup {NoObject}
ReachableFrom(S) == {o \in Objects : \A T \in SUBSET Objects : S \subseteq T /\ Closed(T) => o \in T}
Roots == {o \in Objects : held[o] > 0 \/ StaticRefs(o) # {}}

\* A candidate that nothing reaches, and the search that starts at it sees all
\* that refer to it.
SeesAll(o) ==
    LET seen == ReachableFrom({o})
    IN  \A p \in Objects \ seen : o \notin ReachableFrom({p})
DueNow == {o \in Chain \ ReachableFrom(Roots) : SeesAll(o)}

Begin ==
    /\ ~Busy /\ gc.phase = "idle" /\ heap.first # NoObject
    /\ gc' = [phase |-> "handle", next |-> heap.first, collected |-> FALSE, due |-> DueNow]
    /\ UNCHANGED <<heap, held, statics, misjudged>>

At(phase) == ~Busy /\ gc.phase = phase /\ gc.next # NoObject
AtEnd(phase) == ~Busy /\ gc.phase = phase /\ gc.next = NoObject

\* The inner loop: the successor is read before the object is handled.
Candidate == gc.next
Taken == RemoveCandidate(heap, Candidate)

SkipCandidate ==
    /\ At("handle") /\ heap.deleted[Candidate]
    /\ gc' = [gc EXCEPT !.next = heap.next[Candidate]]
    /\ UNCHANGED <<heap, held, statics, misjudged>>

\* Objects that nothing else refers to: no variable of another object, no
\* class, no stack and no list of candidates.
Garbage(q) ==
    /\ \A i, k \in DOMAIN q : q[i] = q[k] => i = k
    /\ \A o \in Elements(q) :
        /\ heap.live[o] /\ ~heap.constant[o] /\ ~Listed(Taken, o)
        /\ held[o] = 0 /\ StaticRefs(o) = {}
        /\ \A p \in Objects, s \in 1 .. Slots : heap.member[p][s] = o => p \in Elements(q)

SearchesNow == At("handle") /\ ~heap.deleted[Candidate] /\ Searched(Taken, Candidate)
Misjudges(answer) ==
    answer.verdict = "collect" /\ answer.early /\ ~Garbage(Append(answer.found, Candidate))

HandleCandidate ==
    /\ At("handle") /\ ~heap.deleted[Candidate]
    /\ heap' = handleGarbageCollection(Taken, Candidate)
    /\ misjudged' = (misjudged \/ (SearchesNow /\ Misjudges(Search(Taken, Candidate))))
    /\ gc' = [gc EXCEPT !.next = heap.next[Candidate], !.collected = @ \/ heap'.deleted[Candidate]]
    /\ UNCHANGED <<held, statics>>

\* As long as something was collected all candidates are handled once more.
HandleAgain ==
    /\ AtEnd("handle")
    /\ gc' = IF gc.collected THEN [gc EXCEPT !.next = heap.first, !.collected = FALSE]
             ELSE [gc EXCEPT !.next = heap.first, !.phase = "release"]
    /\ UNCHANGED <<heap, held, statics, misjudged>>

ReleaseNext ==
    /\ At("release")
    /\ heap' = IF heap.deleted[Candidate] THEN ReleaseOne(heap, Candidate) ELSE heap
    /\ gc' = [gc EXCEPT !.next = heap.next[Candidate]]
    /\ UNCHANGED <<held, statics, misjudged>>

End ==
    /\ AtEnd("release")
    /\ gc' = Idle
    /\ UNCHANGED <<heap, held, statics, misjudged>>

Collection == Begin \/ SkipCandidate \/ HandleCandidate \/ HandleAgain \/ ReleaseNext \/ End

-----------------------------------------------------------------------------
(***************************************************************************)
(* What a script does                                                      *)
(***************************************************************************)

\* What a script does with an object that was released is not defined: the
\* model ends there.
Defined == \A o \in Objects : heap.live[o] \/ (held[o] = 0 /\ MemberRefs(o) = {} /\ StaticRefs(o) = {})
Running == ~Busy /\ gc.phase = "idle" /\ Defined /\ UNCHANGED <<gc, misjudged>>

StackSize == Cardinality({r \in Objects \X (1 .. MaxHeld) : r[2] <= held[r[1]]})
Pushed(o) == StackSize < MaxHeld /\ held' = [held EXCEPT ![o] = @ + 1]
Popped(o) == held[o] > 0 /\ held' = [held EXCEPT ![o] = @ - 1]

New(o) ==
    /\ ~heap.live[o] /\ ~Listed(heap, o) /\ Running /\ Pushed(o)
    /\ heap' = [heap EXCEPT !.live[o] = TRUE, !.ref[o] = 1, !.stored[o] = 0, !.static[o] = 0]
    /\ UNCHANGED statics

\* A variable of an object on the stack, or of a class, is read.
Load(o) ==
    /\ \/ \E p \in Objects, s \in 1 .. Slots : held[p] > 0 /\ heap.member[p][s] = o
       \/ \E v \in Statics : statics[v] = o
    /\ Running
    /\ heap' = incRef(heap, o)
    /\ Pushed(o)
    /\ UNCHANGED statics

\* variable::setVar: the new value comes from the stack, with its reference;
\* the old one is removed before the new one is counted.
Removed(h, o) == IF o = NoObject THEN h ELSE removeStoredMember(h, o)

Store(p, s, o) ==
    /\ held[p] > 0 /\ o \in May[<<p, s>>] /\ (o = p => held[o] > 1) /\ Popped(o) /\ Running
    /\ heap' = Removed(Call([heap EXCEPT !.member[p][s] = o], "add", o), heap.member[p][s])
    /\ UNCHANGED statics

Clear(p, s) ==
    /\ held[p] > 0 /\ heap.member[p][s] # NoObject /\ Running
    /\ heap' = Removed([heap EXCEPT !.member[p][s] = NoObject], heap.member[p][s])
    /\ UNCHANGED <<held, statics>>

\* The same for a variable of a class.
RemovedStatic(h, o) ==
    IF o = NoObject THEN h ELSE removeStoredMember([h EXCEPT !.static[o] = @ - 1], o)

StoreStatic(v, o) ==
    /\ o \in May[v] /\ Popped(o) /\ Running
    /\ heap' = RemovedStatic(Call(heap, "addStatic", o), statics[v])
    /\ statics' = [statics EXCEPT ![v] = o]

ClearStatic(v) ==
    /\ statics[v] # NoObject /\ Running
    /\ heap' = RemovedStatic(heap, statics[v])
    /\ statics' = [statics EXCEPT ![v] = NoObject]
    /\ UNCHANGED held

\* A reference leaves the stack: most instructions call decRef, pop and the
\* end of a function look for a candidate.
Drop(o) ==
    /\ Popped(o) /\ Running
    /\ \/ heap' = decRef(heap, o)
       \/ heap' = decRefAndGCCheck(heap, o)
    /\ UNCHANGED statics

Script ==
    \/ \E o \in Objects : New(o) \/ Load(o) \/ Drop(o)
    \/ \E p, o \in Objects, s \in 1 .. Slots : Store(p, s, o)
    \/ \E p \in Objects, s \in 1 .. Slots : Clear(p, s)
    \/ \E v \in Statics, o \in Objects : StoreStatic(v, o)
    \/ \E v \in Statics : ClearStatic(v)

Next == Script \/ CallStep \/ Collection

Spec == Init /\ [][Next]_vars

-----------------------------------------------------------------------------
(***************************************************************************)
(* Properties                                                              *)
(***************************************************************************)

Stored(o) == Cardinality(MemberRefs(o)) + Cardinality(StaticRefs(o))
AtRest == ~Busy /\ gc.phase = "idle"

\* The types of the flags, the stack, the list and the calls.
TypeOK ==
    /\ heap.live \in [Objects -> BOOLEAN] /\ heap.marked \in [Objects -> BOOLEAN]
    /\ heap.member \in [Objects -> [1 .. Slots -> Maybe]]
    /\ held \in [Objects -> 0 .. MaxHeld] /\ statics \in [Statics -> Maybe]
    /\ heap.next \in [Objects -> Maybe] /\ heap.prev \in [Objects -> Maybe]
    /\ heap.first \in Maybe /\ heap.last \in Maybe
    /\ heap.calls \in Seq([op : {"release", "collect", "add", "addStatic"}, obj : Objects])
    /\ gc \in [phase : {"idle", "handle", "release"}, next : Maybe, collected : BOOLEAN,
               due : SUBSET Objects]
    /\ misjudged \in BOOLEAN

\* Between operations storedmembercount is the number of variables that refer
\* to the object, storedmembercountstatic of those of classes, and ref_count
\* adds the stack and the one reference the candidate list keeps: what the
\* asserts of addStoredMember and removeStoredMember rely on.
CountsExact ==
    AtRest /\ ~misjudged => \A o \in Objects : heap.live[o] =>
        /\ heap.stored[o] = Stored(o)
        /\ heap.static[o] = Cardinality(StaticRefs(o))
        /\ heap.ref[o] = Stored(o) + held[o] + (IF Listed(heap, o) THEN 1 ELSE 0)

\* What is released (destruct and delete, or the free list of its class) is
\* referred to by no variable, by no class, by no stack and by no list.
NoReleasedInUse ==
    ~misjudged => \A o \in Objects : heap.live[o] \/ (held[o] = 0 /\ Stored(o) = 0 /\ ~Listed(heap, o))

\* The list of candidates is one chain from gcStart to gcEnd, and every marked
\* object is in it: removeObjectFromGarbageCollector of an object that is not
\* would cut the list off.  A collection walks along it.
Linked(h) ==
    /\ IF ChainOf(h) = {} THEN h.first = NoObject /\ h.last = NoObject
                         ELSE h.first \in ChainOf(h) /\ h.last \in ChainOf(h)
    /\ \A o \in ChainOf(h) :
        /\ h.prev[o] = NoObject <=> h.first = o
        /\ h.next[o] = NoObject <=> h.last = o
        /\ h.next[o] # NoObject => h.prev[h.next[o]] = o
        /\ h.prev[o] # NoObject => h.next[h.prev[o]] = o
ListLinked ==
    /\ Linked(heap)
    /\ \A o \in Objects : heap.marked[o] => o \in Chain
    /\ gc.next # NoObject => gc.next \in Chain

\* What the search of a candidate gives to the collection is garbage, unless
\* the search has judged an object too early: it met the object while it was
\* still inside it, and took the answer of that moment.
SearchAnswers == SearchesNow => Search(Taken, Candidate) \in Answers
SearchRight ==
    SearchesNow /\ ~misjudged =>
        LET answer == Search(Taken, Candidate)
        IN  /\ answer \in Answers
            /\ answer.verdict = "collect" /\ ~answer.early => Garbage(Append(answer.found, Candidate))

\* What the search has to count to be right: each object it gives to the
\* collection is referred to by variables of these objects as often as its
\* ref_count says, the candidate as often as its storedmembercount says.
Inside(q, o) == Cardinality({r \in MemberRefs(o) : r[1] \in Elements(q)})
AllCountedInside(q) ==
    /\ \A i, k \in DOMAIN q : q[i] = q[k] => i = k
    /\ \A o \in Elements(q) :
        /\ heap.live[o] /\ ~heap.constant[o]
        /\ Inside(q, o) = IF o = Candidate THEN heap.stored[o] ELSE heap.ref[o]
SearchCounts ==
    SearchesNow /\ ~misjudged =>
        LET answer == Search(Taken, Candidate)
        IN  /\ answer \in Answers
            /\ answer.verdict = "collect" /\ ~answer.early => AllCountedInside(Append(answer.found, Candidate))

\* A collection neither releases an object the script can still reach nor
\* resets a variable of it, unless an early judgement has misled it.
ReachableKept ==
    [][gc.phase # "idle" /\ ~misjudged => \A o \in ReachableFrom(Roots) :
        heap'.live[o] /\ heap'.member[o] = heap.member[o]]_vars

\* What a collection should do, and does not when two cycles share an object.
ReachableAlwaysKept ==
    [][gc.phase # "idle" => \A o \in ReachableFrom(Roots) :
        heap'.live[o] /\ heap'.member[o] = heap.member[o]]_vars

\* A collection releases every candidate that nothing reaches, when the search
\* that starts at the candidate sees all that refer to it.
CycleCollected == [][End => \A o \in gc.due : ~heap.live[o]]_vars
=============================================================================
