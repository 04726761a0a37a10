--------------------------- MODULE MCScriptTimers ---------------------------
(* One Timer, one interval and one timeout on the timer thread.            *)
EXTENDS ScriptTimers

CONSTANTS t1, i1, o1

OneTimer    == {t1}
OneInterval == {i1}
OneTimeout  == {o1}
AllJobs     == {t1, i1, o1}
Ticks       == [j \in AllJobs |-> 1]
TwoScenes   == {{t1}, {i1, o1}}
OneOrTwo    == {1, 2}
Two         == {2}
=============================================================================
