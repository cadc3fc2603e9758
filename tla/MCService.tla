------------------------------ MODULE MCService ------------------------------
(***************************************************************************)
(* Instances of the components that have to go on serving: the loop of a   *)
(* worker, the control plane in the master, a connection of the L4         *)
(* generator.  They share no state; each behaviour runs one of them, the   *)
(* part chosen at the start, while the others stay in one initial state.   *)
(***************************************************************************)
EXTENDS WorkerLoop, CtrlPlane, L4Stream

VARIABLE part  \* the component this behaviour is about

\* Four tasks, two pairs with an optimized ring; the second pair is started
\* and stopped as a whole.  A task then always has the position it has in
\* the configuration.
PairByPair == {<<0, 1>>, <<0, 1, 2, 3>>}

\* Tasks 1 and 2 pass packets on up to twice in one call; task 2 feeds an optimized
\* ring.
SomeTwice == [t \in Tasks |-> IF t \in {1, 2} THEN 2 ELSE 1]

Action(p, b, n) == [peer |-> p, beg |-> b, len |-> n]

\* A TCP connection in which both ends send, closed by the client, over a
\* network that loses segments, and a UDP one over a network that reorders
\* them too.
TcpAndUdp ==
  {[proto |-> "tcp", orderly |-> TRUE,
    actions |-> <<Action("client", 0, 3), Action("server", 0, 1), Action("client", 0, 0)>>],
   [proto |-> "udp", orderly |-> FALSE,
    actions |-> <<Action("client", 0, 1), Action("server", 0, 1), Action("server", 1, 1)>>]}

Init ==
  /\ part \in {"loop", "ctrl", "l4"}
  /\ LoopInit /\ (part # "loop" => Len(tasks) = 2)
  /\ CtrlInit /\ (part # "ctrl" => ~ vdev)
  /\ L4Init /\ (part # "l4" => stream.proto = "udp")

Next ==
  /\ UNCHANGED part
  /\ \/ part = "loop" /\ LoopNext /\ UNCHANGED <<cp_vars, l4_vars>>
     \/ part = "ctrl" /\ CtrlNext /\ UNCHANGED <<loop_vars, l4_vars>>
     \/ part = "l4" /\ L4Next /\ UNCHANGED <<loop_vars, cp_vars>>

\* The fairness of each component, for the behaviours that run it.
LoopServed ==
  /\ WF_loop_vars(part = "loop" /\ Step)
  /\ WF_loop_vars(part = "loop" /\ BetweenPasses)
CtrlServed ==
  /\ WF_cp_vars(part = "ctrl" /\ handle_message)
  /\ WF_cp_vars(part = "ctrl" /\ handle_arp_event)
  /\ \A t \in L3Tasks : WF_cp_vars(part = "ctrl" /\ TaskCtrl(t))
  /\ \A ip \in Neighbours :
       /\ SF_cp_vars(part = "ctrl" /\ \E t \in L3Tasks : ReceiveAnswer(t, ip))
       /\ \A t \in L3Tasks : /\ SF_cp_vars(part = "ctrl" /\ Ask(t, ip))
                             /\ WF_cp_vars(part = "ctrl" /\ RetransmitTime(t, ip))
L4Served ==
  \A p \in Peers : /\ WF_l4_vars(part = "l4" /\ Receive(p))
                   /\ WF_l4_vars(part = "l4" /\ Timeout(p))

Spec == Init /\ [][Next]_<<part, loop_vars, cp_vars, l4_vars>> /\ LoopServed /\ CtrlServed /\ L4Served

-----------------------------------------------------------------------------
\* The liveness properties of the components, each for its behaviours.
TasksServed == part = "loop" => EveryTaskServed
AddressesResolved == part = "ctrl" => Resolves
StreamsEnd == part = "l4" => Ends
=============================================================================
