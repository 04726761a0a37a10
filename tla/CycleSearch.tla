----------------------------- MODULE CycleSearch -----------------------------
(***************************************************************************)
(* The search for references inside a cycle, which decides what a          *)
(* collection of CycleCollector releases: countCylicMemberReferences of    *)
(* ASObject and variables_map, garbagecollectorstate, and the decision of  *)
(* handleGarbageCollection (src/src/asobject.cpp).  It reads the heap and  *)
(* changes only its own state, and is recursive as the code is: it goes    *)
(* through the graph depth first and stops in the middle, so that what it  *)
(* answers depends on the order of the variables.                          *)
(***************************************************************************)
EXTENDS CycleCollector, SequencesExt

(***************************************************************************)
(* Counting the references inside a cycle: the state of the search is      *)
(* garbagecollectorstate and the gccounter of every object.                *)
(***************************************************************************)

NewSearch(o) ==
    [start |-> o, stopped |-> FALSE, checked |-> <<>>, stack |-> <<>>,
     early |-> {},  \* the objects that were met inside themselves, not known to refer to the start (history)
     count      |-> [p \in Objects |-> 0],
     hasmember  |-> [p \in Objects |-> FALSE],
     ignore     |-> [p \in Objects |-> FALSE],
     inchecking |-> [p \in Objects |-> FALSE]]

IsChecked(g, o) == o \in ToSet(g.checked)

setChecked(g, o) ==
    IF o = g.start \/ IsChecked(g, o) THEN g ELSE [g EXCEPT !.checked = Append(@, o)]

ignoreCount(g, o) ==
    [setChecked(g, o) EXCEPT !.ignore[o] = TRUE, !.stopped = @ \/ g.hasmember[o]]

Stop(g) == [g EXCEPT !.stopped = TRUE]
Found(g, o) == [g EXCEPT !.hasmember[o] = TRUE]
CountedOnce(g, o) == [g EXCEPT !.count[o] = 1]
Counted(g, o) == [g EXCEPT !.count[o] = @ + 1]

\* The objects on the path to an object that refers to the start refer to it
\* too: the stack from its top down to the first already known to.
RECURSIVE MarkPath(_, _, _, _)
MarkPath(g, h, i, o) ==
    IF i = 0 \/ g.hasmember[g.stack[i]] \/ h.deleted[g.stack[i]] THEN g
    ELSE LET p == g.stack[i]
             m == setChecked(Found(g, p), p)
         IN  IF h.static[p] > 0 \/ h.constant[p] THEN Stop(ignoreCount(m, o))
             ELSE MarkPath(m, h, i - 1, o)

Result(g, ret) == [g |-> g, ret |-> ret]

WithPath(r, h, o) ==
    IF r.ret THEN Result(MarkPath(r.g, h, Len(r.g.stack), o), TRUE) ELSE r

MetEarly(g, o) == IF g.inchecking[o] /\ ~g.hasmember[o] THEN [g EXCEPT !.early = @ \cup {o}] ELSE g

EnterObject(g, o) == [Counted(g, o) EXCEPT !.inchecking[o] = TRUE, !.stack = Append(@, o)]

LeaveObject(g, o) ==
    Result(setChecked([g EXCEPT !.inchecking[o] = FALSE, !.stack = SubSeq(@, 1, Len(@) - 1)], o),
           g.hasmember[o])

\* variables_map::countCylicMemberReferences goes through the variables three
\* times, i counts the visits.  The first time only looks for the start, the
\* second for objects that are also in variables of classes, the third for the
\* others.
VisitStep(i) == (i - 1) \div Slots
VisitSlot(i) == ((i - 1) % Slots) + 1

Skipped(h, i, o) ==
    \/ VisitStep(i) = 1 /\ h.static[o] = 0
    \/ VisitStep(i) = 2 /\ h.static[o] > 0
    \/ h.dying[o] \/ h.deleted[o]

\* The variable o of p refers to the start, directly or not.
MemberFound(g, p, o) ==
    IF ~g.ignore[o] /\ g.ignore[p] THEN Result(Stop([g EXCEPT !.ignore[o] = TRUE]), FALSE)
    ELSE Result(g, TRUE)

MemberVisited(r, p, o, ret) ==
    IF r.ret THEN MemberFound(Found(setChecked(r.g, o), o), p, o)
    ELSE Result(r.g, ret \/ r.g.hasmember[o])

RECURSIVE CountObject(_, _, _), CountMembers(_, _, _, _)

VisitMember(r, h, p, i, o) ==
    IF o = NoObject THEN r
    ELSE IF VisitStep(i) = 0 THEN (IF o = r.g.start THEN Result(Found(r.g, p), r.ret) ELSE r)
    ELSE IF Skipped(h, i, o) THEN r
    ELSE IF h.ref[o] # h.stored[o] /\ o # r.g.start
         THEN Result(r.g, r.ret \/ r.g.hasmember[o])
    ELSE MemberVisited(CountObject(r.g, h, o), p, o, r.ret)

CountMembers(r, h, p, i) ==
    IF r.g.stopped THEN Result(r.g, FALSE)
    ELSE IF i > 3 * Slots THEN r
    ELSE CountMembers(VisitMember(r, h, p, i, h.member[p][VisitSlot(i)]), h, p, i + 1)

\* ASObject::countAllCylicMemberReferences of an object that is not ignored.
Reached(g, h, o) ==
    LET Leave(r) == LeaveObject(IF r.ret THEN Found(r.g, o) ELSE r.g, o)
    IN  IF o = g.start THEN Result(Counted(g, o), TRUE)
        ELSE IF ~g.inchecking[o] /\ (h.dying[o] \/ ~h.live[o] \/ h.deleted[o])
             THEN Result(g, g.hasmember[o])
        ELSE IF g.inchecking[o] \/ IsChecked(g, o) THEN Result(Counted(MetEarly(g, o), o), g.hasmember[o])
        ELSE Leave(CountMembers(Result(EnterObject(g, o), FALSE), h, o, 1))

CountObject(g, h, o) ==
    IF g.stopped THEN Result(g, FALSE)
    ELSE IF h.static[o] > 0 /\ g.hasmember[o] THEN Result(Stop(g), FALSE)
    ELSE IF h.constant[o] \/ h.static[o] > 0 THEN Result(ignoreCount(g, o), g.hasmember[o])
    ELSE IF g.ignore[o] THEN Result(g, g.hasmember[o])
    ELSE WithPath(Reached(g, h, o), h, o)

-----------------------------------------------------------------------------
(***************************************************************************)
(* ASObject::handleGarbageCollection                                       *)
(***************************************************************************)

KeepsIfIgnored(g, h, o) == g.hasmember[o] /\ (g.ignore[o] \/ h.constant[o])

\* A checked object that refers to the start keeps it alive when it is
\* ignored or has references the search did not see.
KeepsStart(g, h, o) ==
    g.hasmember[o] /\ (g.ignore[o] \/ h.constant[o] \/ g.count[o] # h.ref[o])

\* Such an object that is itself a candidate may only be kept by the list.
NeedsNewCheck(g, h) ==
    \E o \in ToSet(g.checked) : KeepsStart(g, h, o) /\ ~g.ignore[o] /\ h.marked[o]

OthersCounted(g, h) == \A o \in ToSet(g.checked) : ~KeepsStart(g, h, o)

AllCounted(g, h) ==
    /\ \A o \in ToSet(g.checked) : ~KeepsStart(g, h, o)
    /\ g.count[g.start] = h.stored[g.start]

Deletable(g, h) ==
    SelectSeq(g.checked, LAMBDA o : ~g.ignore[o] /\ g.hasmember[o] /\ g.count[o] = h.ref[o])

\* What the candidate o, which has left the list, and its heap come to.
FindCycle(h, o) ==
    LET g == CountMembers(Result(NewSearch(o), FALSE), h, o, 1).g
        Answer(verdict) == [verdict |-> verdict, found |-> Deletable(g, h),
                            early |-> \E p \in g.early : g.hasmember[p]]
    IN  IF g.stopped THEN Answer("keep")
        ELSE IF NeedsNewCheck(g, h) THEN Answer("recheck")
        ELSE IF AllCounted(g, h) THEN Answer("collect")
        ELSE Answer("keep")
=============================================================================
