--------------------------- MODULE MCCycleCollector ---------------------------
(***************************************************************************)
(* Small instances of CycleCollector: five objects whose variables are     *)
(* typed, as those of a program are, and three that may refer to each      *)
(* other in every way.                                                     *)
(***************************************************************************)
EXTENDS CycleSearch, TLC

CONSTANTS o1, o2, o3, o4, o5, v1

ThreeObjects == {o1, o2, o3}
FiveObjects == {o1, o2, o3, o4, o5}
OneStatic == {v1}

AnyMember == [r \in (Objects \X (1 .. Slots)) \cup Statics |-> Objects]
Symmetry == Permutations(Objects)

\* Two cycles share o2, which refers first to the one without o1:
\* o1 -> o2 -> o4 -> o1 and o2 -> o3 -> o2, with o3 also a variable of o5.  o1
\* may refer to itself, and a class may refer to it.
SharedCycles ==
    [r \in (Objects \X (1 .. Slots)) \cup Statics |->
        CASE r = <<o1, 1>> -> {o2} [] r = <<o1, 2>> -> {o1}
          [] r = <<o2, 1>> -> {o3} [] r = <<o2, 2>> -> {o4}
          [] r = <<o3, 1>> -> {o2}
          [] r = <<o4, 1>> -> {o1}
          [] r = <<o5, 1>> -> {o3}
          [] r = v1 -> {o1}
          [] OTHER -> {}]
=============================================================================
