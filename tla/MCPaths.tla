------------------------------ MODULE MCPaths ------------------------------
(***************************************************************************)
(* Instances of what lies between a task and its ports: the functions that *)
(* messages install in front of its receive and transmit functions, and    *)
(* the buffers its packets wait in.  They share no state; each behaviour   *)
(* runs one of them, chosen at the start, while the other stays in one     *)
(* initial state.                                                          *)
(*                                                                         *)
(* Room for two stacked receive functions stands for the sixteen of the    *)
(* code: two functions of a kind or of different kinds fit, and a third    *)
(* one, of either kind, is refused.  One task receives and transmits, one  *)
(* does neither.                                                           *)
(*                                                                         *)
(* Bursts of four packets, so that receive areas start at even and odd     *)
(* indices, and indices that wrap after two rounds of the ring.  One packet*)
(* at a time is marked: whichever it is, it must come out in its place.    *)
(* A task with one output receives from a port or from a ring, one with two*)
(* from a port, where areas are aligned.                                   *)
(***************************************************************************)
EXTENDS Hooks, TxBuffer

VARIABLE part  \* the component this behaviour is about

Counting(d, f) == {Start(d, f), Stop(d, f)}
\* BW is handled as DISTR is.
AllCommands == {"DUMP", "DUMP_TX", "TRACE", "RX_DISTR_RESET"}
                 \cup Counting("RX", "DISTR") \cup Counting("TX", "DISTR")

PathsInit ==
  /\ part \in {"hooks", "buffer"}
  /\ HookInit /\ (IF part = "hooks" THEN rx = <<"rx">> <=> tx = "tx" ELSE rx = <<"rx">> /\ tx = "tx")
  /\ Init /\ (IF part # "buffer" THEN tx_pkt = "tx_pkt_hw" /\ align = 1 ELSE tx_pkt = "tx_pkt_hw" => align = 2)

PathsNext ==
  /\ UNCHANGED part
  /\ \/ part = "hooks" /\ HookNext /\ UNCHANGED vars
     \/ part = "buffer" /\ Next /\ UNCHANGED hook_vars

\* The fairness of each component, for the behaviours that run it.
HooksServed ==
  /\ WF_hook_vars(part = "hooks" /\ lconf_do_flags)
  /\ WF_hook_vars(part = "hooks" /\ \E k \in BurstSizes : call_rx_pkt(k))
BuffersServed ==
  /\ WF_vars(part = "buffer" /\ tx_steps)
  /\ SF_vars(part = "buffer" /\ lconf_flush_all_queues)

PathsSpec == PathsInit /\ [][PathsNext]_<<part, hook_vars, vars>> /\ HooksServed /\ BuffersServed
=============================================================================
