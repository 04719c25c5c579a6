------------------------------ MODULE MCGenGC ------------------------------
(***************************************************************************)
(* GenGC for TLC: the whole mutator (Spec), and a mutator that only builds *)
(* and drops one list, whose first cell may be defined as a global         *)
(* (ListSpec), which fills the old space with few states.                  *)
(***************************************************************************)
EXTENDS GenGC

BuildList == AskAlloc(1, [s \in Slots |-> 1])
DefineGlobal ==
    /\ allocs = 1
    /\ \E g \in 1..NGlobals :
          mem[<<"perm", g>>].slots[1] = Nil /\ Store(<<"perm", g>>, 1, root[1])
ListNext ==
    \/ Collector \/ Allocator \/ Stopped
    \/ BuildList \/ DefineGlobal \/ Drop(1) \/ CallMinor
ListSpec == Init /\ [][ListNext]_vars /\ Fairness
=============================================================================
