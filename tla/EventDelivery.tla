--------------------------- MODULE EventDelivery ----------------------------
(***************************************************************************)
(* What the event queue of ABCVm promises whoever posts an event: the      *)
(* event is handled at most once, and what one thread posts with addEvent  *)
(* is begun in the order of its calls.  How the events wait, in a queue,   *)
(* among the idle events or in the buffer, is left open.                   *)
(***************************************************************************)
EXTENDS Integers, Sequences

CONSTANTS Posters, Events, Program, Method, Similar

VARIABLE fate  \* "new", "queued", "handling", "handled", or how else it ended

Init == fate = [e \in Events |-> "new"]

\* What the thread that posts e posted before it, both with addEvent.
Ahead(e) ==
    {a \in Events : \E p \in Posters : \E i, k \in DOMAIN Program[p] :
        /\ i < k /\ a = Program[p][i] /\ e = Program[p][k]
        /\ Method[a] = "add" /\ Method[e] = "add"}

Move(e, from, to) ==
    /\ fate[e] = from
    /\ fate' = [fate EXCEPT ![e] = to]

Posted(e) == \A a \in Ahead(e) : fate[a] # "new"
InTurn(e) == \A a \in Ahead(e) : fate[a] # "queued"

Accept(e) == Move(e, "new", "queued") /\ Posted(e)
Refuse(e) == Move(e, "new", "refused") /\ Posted(e)
Divert(e) == Move(e, "new", "elsewhere") /\ Posted(e)

\* An idle event takes the place of a similar one that still waits.
Replace(e, d) ==
    /\ fate[e] = "new" /\ fate[d] = "queued" /\ d \in Similar[e]
    /\ fate' = [fate EXCEPT ![e] = "queued", ![d] = "replaced"]
    /\ Posted(e)

Begin(e) == Move(e, "queued", "handling") /\ InTurn(e)
Drop(e)  == (Move(e, "queued", "dropped") \/ Move(e, "queued", "mistaken")) /\ InTurn(e)
End(e)   == Move(e, "handling", "handled")

\* The VM thread handles what it posts and waits for without queueing it.
HandleAtOnce(e) ==
    /\ Move(e, "new", "handling")
    /\ \A p \in Posters : \A i \in DOMAIN Program[p] : Program[p][i] # e

Next ==
    \/ \E e \in Events : \/ Accept(e) \/ Refuse(e) \/ Divert(e) \/ HandleAtOnce(e)
                         \/ Begin(e) \/ Drop(e) \/ End(e)
    \/ \E e, d \in Events : Replace(e, d)

Spec == Init /\ [][Next]_fate
=============================================================================
