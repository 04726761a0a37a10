---------------------------- MODULE JobLifecycle ----------------------------
(***************************************************************************)
(* What the comments of IThreadJob (src/src/interfaces/threading.h)        *)
(* promise the author of a job: execute() is entered at most once, and     *)
(* jobFence() is the last call, after execute() or instead of it.          *)
(***************************************************************************)
CONSTANT Jobs

VARIABLE status  \* "new", "waiting", "running" or "fenced" for each job

Init == status = [j \in Jobs |-> "new"]

Move(j, from, to) ==
    /\ status[j] = from
    /\ status' = [status EXCEPT ![j] = to]

Submit(j) == Move(j, "new", "waiting")
Refuse(j) == Move(j, "new", "fenced")
Start(j)  == Move(j, "waiting", "running")
Finish(j) == Move(j, "running", "fenced")

\* The pool aborts: some of the jobs that had no chance to run are fenced.
Drop(S) ==
    /\ \A j \in S : status[j] = "waiting"
    /\ status' = [j \in Jobs |-> IF j \in S THEN "fenced" ELSE status[j]]

Next ==
    \/ \E j \in Jobs : Submit(j) \/ Refuse(j) \/ Start(j) \/ Finish(j)
    \/ \E S \in SUBSET Jobs : Drop(S)

Spec == Init /\ [][Next]_status
=============================================================================
