--------------------------- MODULE MCCoreControl ---------------------------
(***************************************************************************)
(* Small instances of CoreControl: one core with two tasks and one with a  *)
(* single task, commands on either core or on both in either order.        *)
(***************************************************************************)
EXTENDS CoreControl, TLC

CONSTANTS c1, c2

MCCores == {c1, c2}
MCTasks == (c1 :> 2) @@ (c2 :> 1)
MCLists == {<<c1>>, <<c2>>, <<c1, c2>>, <<c2, c1>>}
DupLists == MCLists \cup {<<c1, c1>>}
MCArgs == {-1, 0, 1}

\* One core with three tasks: every order of starts and stops.
OneCore == {c1}
ThreeTasks == c1 :> 3
OneList == {<<c1>>}
\* fm on every task of c1, or on its first task only.
FMAll  == {<<c1, 0>>, <<c1, 1>>}
FMSome == {<<c1, 0>>}

=============================================================================
