------------------------- MODULE MCBackgroundWorkers -------------------------
(* Two background workers, in four programs.                               *)
EXTENDS BackgroundWorkers

CONSTANTS w1, w2
TwoWorkers == {w1, w2}

Both == {<<Vm, w1, "queued">>, <<Vm, w2, "queued">>}

\* The VM starts both and terminates one; the workers hear of each other.
Siblings == [starts |-> Both, ends |-> {<<Vm, w1>>}, sends |-> {}, fails |-> {},
             listens |-> TRUE, closes |-> FALSE]
\* The VM starts both, and the player ends.
Closing  == [starts |-> Both, ends |-> {}, sends |-> {}, fails |-> {},
             listens |-> FALSE, closes |-> TRUE]
\* A worker that fails, or terminates itself.
Failing  == [starts |-> {<<Vm, w1, "queued">>, <<Vm, w1, "extra">>}, ends |-> {<<w1, w1>>},
             sends |-> {<<Vm, w1>>, <<w1, w1>>}, fails |-> {w1}, listens |-> FALSE, closes |-> TRUE]
\* A worker starts another one and is terminated.
Nested   == [starts |-> {<<Vm, w1, "queued">>, <<w1, w2, "queued">>, <<w1, w2, "extra">>},
             ends |-> {<<Vm, w1>>}, sends |-> {}, fails |-> {}, listens |-> FALSE, closes |-> FALSE]

FourPrograms == {Siblings, Closing, Failing, Nested}
=============================================================================
