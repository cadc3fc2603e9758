---------------------------- MODULE MCWorkerLoop ----------------------------
(***************************************************************************)
(* An instance of WorkerLoop.                                              *)
(***************************************************************************)
EXTENDS WorkerLoop

\* Three tasks; task 0, which has no part in the optimized ring from task 1
\* to task 2, may be stopped alone.
OneStopped == {<<1, 2>>, <<0, 1, 2>>}
OneCall == [t \in Tasks |-> 1]
=============================================================================
