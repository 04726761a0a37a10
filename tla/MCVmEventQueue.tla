---------------------------- MODULE MCVmEventQueue ----------------------------
(***************************************************************************)
(* Small instances of VmEventQueue: the frame timer, the input thread, the *)
(* browser or an interval, and the VM itself post a few events each.       *)
(***************************************************************************)
EXTENDS VmEventQueue, TLC

CONSTANTS timer, input, other,
          tick, idle, gc, mouse, text, text2, hit, func, call, script, nested, buffered,
          buffered2, flush, flushHead, routed, routedIdle, forced, close, last, alarm

\* Each event with its class and the operation that posts it.
Catalogue ==
    (tick :> <<"tick", "add">>) @@ (idle :> <<"idle", "add">>) @@ (gc :> <<"gc", "add">>)
    @@ (mouse :> <<"plain", "addIdle">>) @@ (text :> <<"plain", "replaceIdle">>)
    @@ (text2 :> <<"plain", "replaceIdle">>)
    @@ (hit :> <<"func", "prepend">>) @@ (func :> <<"func", "add">>)
    @@ (call :> <<"call", "prepend">>) @@ (script :> <<"plain", "add">>)
    @@ (nested :> <<"func", "add">>)
    @@ (buffered :> <<"plain", "buffer">>) @@ (buffered2 :> <<"plain", "bufferHead">>)
    @@ (flush :> <<"flush", "add">>) @@ (flushHead :> <<"flushHead", "add">>)
    @@ (routed :> <<"plain", "add">>) @@ (routedIdle :> <<"plain", "addIdle">>)
    @@ (forced :> <<"plain", "force">>)
    @@ (close :> <<"shutdown", "add">>) @@ (last :> <<"shutdown", "add">>)
    @@ (alarm :> <<"shutdown", "add">>)

AllEvents == DOMAIN Catalogue
KindOf    == [e \in AllEvents |-> Catalogue[e][1]]
MethodOf  == [e \in AllEvents |-> Catalogue[e][2]]
SimilarOf == [e \in AllEvents |-> IF e = text2 THEN {text} ELSE {}]
Gc        == [i \in {idle} |-> gc]

Posts(t, i, o, v) == (timer :> t) @@ (input :> i) @@ (other :> o) @@ (VM :> v) @@ (Main :> <<last>>)

\* A frame while the input thread posts input and the browser calls in.
FrameAndInput == Posts(<<tick, script, idle>>, <<mouse, text, text2>>, <<call>>,
                       <<nested, buffered, flush>>)
\* Input, prepended, replaced and buffered events race with a script that fails
\* and with the end of the player.
InputAndClose == Posts(<<script, routedIdle>>, <<mouse, text, hit, close>>, <<routed, forced, text2>>,
                       <<buffered, buffered2, flushHead>>)
\* A script that may fail, a waiting thread and the end of the player.
FailAndClose  == Posts(<<script, idle>>, <<close>>, <<func>>, <<>>)

AllPosters  == {timer, input, other}
InputThread == {input}
RoutedOnly  == {routed, routedIdle}
NoneOf      == {}
NoOptions   == {}

\* What the handlers of some events may throw.
Failing(f) == [e \in AllEvents |-> IF e \in DOMAIN f THEN f[e] ELSE {}]
NoFailures   == Failing(<<>>)
LimitsErrors == Failing((script :> {"limit", "error"}) @@ (call :> {"limit"})
                        @@ (nested :> {"limit", "error"}))
ScriptFails  == Failing(script :> Exceptions)
AllFailures  == Failing((script :> {"internal", "error", "object"}) @@ (func :> {"limit"}))
=============================================================================
