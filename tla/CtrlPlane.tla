----------------------------- MODULE CtrlPlane -----------------------------
(***************************************************************************)
(* The control plane in the master (handle_master.c): tasks ask it through *)
(* one ring for MAC addresses and hand it the control packets they         *)
(* receive; it keeps, for every address asked for, the tasks that wait,    *)
(* and answers through one ring per task.  Without a TAP device the tasks  *)
(* send its ARP or NDP requests; with one ("vdev") the kernel resolves     *)
(* IPv4 addresses and reports by netlink.                                  *)
(*                                                                         *)
(* Rings drop messages when full and the network loses packets, MaxLosses  *)
(* times in all: the bound stands for losses that end.  L3Table has the    *)
(* tables of a task; here a task knows whether it has a valid MAC address  *)
(* and whether it may ask again.                                           *)
(***************************************************************************)
EXTENDS Integers, Sequences, FiniteSets

CONSTANTS
  L3Tasks,      \* tasks in L3 mode, each with a ring from the master
  Neighbours,   \* addresses they send to
  VDevs,        \* which values "vdev" may have
  MaxRequests,  \* PROX_MAX_ARP_REQUESTS
  CtrlRing,     \* places of the ring to the master
  TaskRing,     \* places of each ring to a task
  MaxEvents,    \* bound: netlink events not read yet
  MaxLosses     \* bound: messages and packets lost

ASSUME CtrlPlaneAssumption ==
  /\ VDevs \subseteq BOOLEAN
  /\ {MaxRequests, CtrlRing, TaskRing} \subseteq Nat \ {0}
  /\ MaxLosses \in Nat

VARIABLES
  vdev,        \* dpdk_mapping # NO_VDEV_PORT
  known,       \* [task, address] with a MAC address that has not timed out
  may_ask,     \* [task, address] whose retransmission time has come
  ctrl_rx,     \* the ring to the master
  ctrl_tx,     \* the rings to the tasks
  external,    \* keys of external_ip_hash
  has_mac,     \* those with a non-null MAC address in external_ip_table
  rings,       \* external_ip_table[].rings[0 .. nb_requests - 1]
  on_wire,     \* addresses with a request on the network
  kernel,      \* addresses in the kernel's table
  resolving,   \* those the kernel resolves
  events,      \* netlink messages [ip, mac]: the address was learnt or lost
  losses

cp_vars == <<vdev, known, may_ask, ctrl_rx, ctrl_tx, external, has_mac, rings,
             on_wire, kernel, resolving, events, losses>>
task_side == <<known, may_ask>>
ip_table == <<external, has_mac, rings>>
kernel_side == <<kernel, resolving, events>>

CtrlInit ==
  /\ vdev \in VDevs
  /\ known = {} /\ may_ask = L3Tasks \X Neighbours
  /\ ctrl_rx = <<>> /\ ctrl_tx = [t \in L3Tasks |-> <<>>]
  /\ external = {} /\ has_mac = {} /\ rings = [ip \in Neighbours |-> {}]
  /\ on_wire = {} /\ kernel = {} /\ resolving = {} /\ events = <<>>
  /\ losses = 0

Lose(n) == losses + n <= MaxLosses /\ losses' = losses + n

\* tx_put_dispatch_ring and the functions that use the ring to the master.
ToMaster(m) ==
  IF Len(ctrl_rx) < CtrlRing
  THEN ctrl_rx' = Append(ctrl_rx, m) /\ UNCHANGED losses
  ELSE Lose(1) /\ UNCHANGED ctrl_rx

\* tx_ring, tx_ring_ip, tx_ring_ip6, tx_ring_route: m goes to each of the tasks.
Tell(tasks, m) ==
  LET full == {t \in tasks : Len(ctrl_tx[t]) = TaskRing} IN
  /\ ctrl_tx' = [t \in L3Tasks |-> IF t \in tasks \ full THEN Append(ctrl_tx[t], m) ELSE ctrl_tx[t]]
  /\ Lose(Cardinality(full))

ToTask(cmd, ip, mac) == [cmd |-> cmd, ip |-> ip, mac |-> mac]

-----------------------------------------------------------------------------
(***************************************************************************)
(* The tasks.                                                              *)
(***************************************************************************)

\* A packet for ip makes the task ask when the retransmission time has come,
\* whether the ring has room or not.
Ask(t, ip) ==
  /\ <<t, ip>> \in may_ask
  /\ may_ask' = may_ask \ {<<t, ip>>}
  /\ ToMaster([cmd |-> "REQ_MAC", ip |-> ip, from |-> t])
  /\ UNCHANGED <<vdev, known, ctrl_tx, ip_table, on_wire, kernel_side>>

\* handle_ctrl_plane_pkts: a null MAC address allows to ask again.
TaskCtrl(t) ==
  /\ ctrl_tx[t] # <<>>
  /\ ctrl_tx' = [ctrl_tx EXCEPT ![t] = Tail(@)]
  /\ LET m == Head(ctrl_tx[t]) IN
     \/ /\ m.cmd = "MAC_INFO" /\ m.mac
        /\ known' = known \cup {<<t, m.ip>>} /\ may_ask' = may_ask \ {<<t, m.ip>>}
        /\ UNCHANGED on_wire
     \/ /\ m.cmd = "MAC_INFO" /\ ~ m.mac
        /\ may_ask' = may_ask \cup {<<t, m.ip>>}
        /\ UNCHANGED <<known, on_wire>>
     \/ /\ m.cmd = "SEND_REQUEST" /\ on_wire' = on_wire \cup {m.ip}
        /\ UNCHANGED task_side
     \/ m.cmd = "SEND_PACKET" /\ UNCHANGED <<task_side, on_wire>>
  /\ UNCHANGED <<vdev, ctrl_rx, ip_table, kernel_side, losses>>

\* handle_l3, handle_ndp: an answer, or a request of a neighbour, goes to the
\* master, from whichever task receives it.
ReceiveAnswer(t, ip) ==
  /\ ip \in on_wire
  /\ on_wire' = on_wire \ {ip}
  /\ ToMaster([cmd |-> "ARP_REPLY", ip |-> ip, from |-> t])
  /\ UNCHANGED <<vdev, task_side, ctrl_tx, ip_table, kernel_side>>
ReceiveRequest(t, ip) ==
  /\ ToMaster([cmd |-> "ARP_REQUEST", ip |-> ip, from |-> t])
  /\ UNCHANGED <<vdev, task_side, ctrl_tx, ip_table, on_wire, kernel_side>>

RetransmitTime(t, ip) ==
  /\ may_ask' = may_ask \cup {<<t, ip>>}
  /\ UNCHANGED <<vdev, known, ctrl_rx, ctrl_tx, ip_table, on_wire, kernel_side, losses>>
ReachableTime(t, ip) ==
  /\ known' = known \ {<<t, ip>>}
  /\ UNCHANGED <<vdev, may_ask, ctrl_rx, ctrl_tx, ip_table, on_wire, kernel_side, losses>>

-----------------------------------------------------------------------------
(***************************************************************************)
(* The master: handle_ctrl_plane_f.                                        *)
(***************************************************************************)

CanRecord(ip) == Cardinality(rings[ip]) < MaxRequests

\* Mutant: a task that asks while another one waits is not recorded.
record_first(t, ip) == [rings EXCEPT ![ip] = IF @ = {} THEN {t} ELSE @]

\* record_request: a task is recorded once, however often it asks.
record_request(t, ip) == [rings EXCEPT ![ip] = IF CanRecord(ip) THEN @ \cup {t} ELSE @]

\* handle_unknown_ip, handle_unknown_ip6: a request is sent for every task.
handle_unknown_ip(t, ip) ==
  /\ external' = external \cup {ip}
  /\ rings' = record_request(t, ip)
  /\ IF CanRecord(ip) THEN Tell({t}, ToTask("SEND_REQUEST", ip, FALSE))
                      ELSE UNCHANGED <<ctrl_tx, losses>>
  /\ UNCHANGED <<has_mac, on_wire, kernel_side>>

\* IP4_REQ_MAC_TO_MASTER with a TAP device: a packet to the kernel, which
\* resolves the address unless it has it.
ask_kernel(t, ip) ==
  /\ IF ip \in has_mac
     THEN Tell({t}, ToTask("MAC_INFO", ip, TRUE)) /\ UNCHANGED <<external, rings, resolving>>
     ELSE /\ resolving' = resolving \cup ({ip} \ kernel)
          /\ external' = external \cup {ip} /\ rings' = record_request(t, ip)
          /\ UNCHANGED <<ctrl_tx, losses>>
  /\ UNCHANGED <<has_mac, on_wire, kernel, events>>

\* Mutant: only one of the waiting tasks gets the answer.
OneOf(tasks) == {CHOOSE t \in tasks : TRUE}
AllOf(tasks) == tasks

\* handle_arp_reply, handle_na: all the tasks that wait are told.
handle_arp_reply(ip) ==
  /\ IF rings[ip] # {}
     THEN Tell(AllOf(rings[ip]), ToTask("MAC_INFO", ip, TRUE)) /\ rings' = [rings EXCEPT ![ip] = {}]
     ELSE UNCHANGED <<ctrl_tx, rings, losses>>
  /\ UNCHANGED <<external, has_mac, on_wire, kernel_side>>

\* handle_arp_request, handle_icmp, handle_rs, handle_ns: answered through the
\* ring of the port; or dropped, when the address is not one of PROX's.
handle_arp_request(t) ==
  /\ Tell({t}, ToTask("SEND_PACKET", "", FALSE)) \/ UNCHANGED <<ctrl_tx, losses>>
  /\ UNCHANGED <<ip_table, on_wire, kernel_side>>

\* rte_eth_tx_burst to the TAP device: the kernel learns the sender.
to_kernel(ip) ==
  /\ IF ip \notin kernel /\ Len(events) < MaxEvents
     THEN /\ kernel' = kernel \cup {ip} /\ resolving' = resolving \ {ip}
          /\ events' = Append(events, [ip |-> ip, mac |-> TRUE])
     ELSE UNCHANGED kernel_side
  /\ UNCHANGED <<ctrl_tx, ip_table, on_wire, losses>>

handle_message ==
  /\ ctrl_rx # <<>>
  /\ ctrl_rx' = Tail(ctrl_rx)
  /\ LET m == Head(ctrl_rx) IN
     \/ m.cmd = "REQ_MAC" /\ ~ vdev /\ handle_unknown_ip(m.from, m.ip)
     \/ m.cmd = "REQ_MAC" /\ vdev /\ ask_kernel(m.from, m.ip)
     \/ m.cmd = "ARP_REPLY" /\ ~ vdev /\ handle_arp_reply(m.ip)
     \/ m.cmd = "ARP_REQUEST" /\ ~ vdev /\ handle_arp_request(m.from)
     \/ m.cmd \in {"ARP_REPLY", "ARP_REQUEST"} /\ vdev /\ to_kernel(m.ip)
  /\ UNCHANGED <<vdev, task_side>>

\* handle_arp_event.  For an address in the hash that nobody waits for, the
\* event is ignored; without an mbuf the tasks that wait are not told.
handle_arp_event ==
  /\ events # <<>> /\ events' = Tail(events)
  /\ LET e == Head(events) IN
     \/ /\ e.ip \notin external
        /\ external' = IF e.mac THEN external \cup {e.ip} ELSE external
        /\ has_mac' = IF e.mac THEN has_mac \cup {e.ip} ELSE has_mac
        /\ UNCHANGED <<rings, ctrl_tx, losses>>
     \/ /\ e.ip \in external /\ rings[e.ip] = {}
        /\ UNCHANGED <<ip_table, ctrl_tx, losses>>
     \/ /\ e.ip \in external /\ rings[e.ip] # {}
        /\ has_mac' = IF e.mac THEN has_mac \cup {e.ip} ELSE has_mac \ {e.ip}
        /\ \/ /\ Tell(AllOf(rings[e.ip]), ToTask("MAC_INFO", e.ip, e.mac))
              /\ rings' = [rings EXCEPT ![e.ip] = {}]
           \/ Lose(1) /\ UNCHANGED <<ctrl_tx, rings>>
        /\ UNCHANGED external
  /\ UNCHANGED <<vdev, task_side, ctrl_rx, on_wire, kernel, resolving>>

\* handle_route_event: the route goes to the task of the port; L3Table has
\* what the task does with it.
handle_route_event(t) ==
  /\ vdev
  /\ Tell({t}, ToTask("SEND_PACKET", "", FALSE))
  /\ UNCHANGED <<vdev, task_side, ctrl_rx, ip_table, on_wire, kernel_side>>

-----------------------------------------------------------------------------
(***************************************************************************)
(* The kernel and the network.                                             *)
(***************************************************************************)

\* The kernel has resolved the address or has given up, or it drops it.
Notify(ip, mac) ==
  /\ Len(events) < MaxEvents /\ events' = Append(events, [ip |-> ip, mac |-> mac])
  /\ UNCHANGED <<vdev, task_side, ctrl_rx, ctrl_tx, ip_table, on_wire, losses>>
KernelEnds(ip) ==
  /\ ip \in resolving /\ resolving' = resolving \ {ip}
  /\ \/ kernel' = kernel \cup {ip} /\ Notify(ip, TRUE)
     \/ UNCHANGED kernel /\ Notify(ip, FALSE)
KernelForgets(ip) ==
  /\ ip \in kernel /\ kernel' = kernel \ {ip} /\ Notify(ip, FALSE)
  /\ UNCHANGED resolving
LostOnWire(ip) ==
  /\ ip \in on_wire /\ on_wire' = on_wire \ {ip} /\ Lose(1)
  /\ UNCHANGED <<vdev, task_side, ctrl_rx, ctrl_tx, ip_table, kernel_side>>

CtrlNext ==
  \/ \E t \in L3Tasks, ip \in Neighbours :
       \/ Ask(t, ip) \/ ReceiveAnswer(t, ip) \/ ReceiveRequest(t, ip)
       \/ RetransmitTime(t, ip) \/ ReachableTime(t, ip)
  \/ \E t \in L3Tasks : TaskCtrl(t) \/ handle_route_event(t)
  \/ handle_message \/ handle_arp_event
  \/ \E ip \in Neighbours : KernelEnds(ip) \/ KernelForgets(ip) \/ LostOnWire(ip)

CtrlSpec == CtrlInit /\ [][CtrlNext]_cp_vars

\* The loops of the tasks and of the master go on, tasks go on sending, time
\* passes and neighbours answer.
CtrlFairness ==
  /\ WF_cp_vars(handle_message) /\ WF_cp_vars(handle_arp_event)
  /\ \A t \in L3Tasks : WF_cp_vars(TaskCtrl(t))
  /\ \A ip \in Neighbours :
       /\ SF_cp_vars(\E t \in L3Tasks : ReceiveAnswer(t, ip))
       /\ \A t \in L3Tasks : SF_cp_vars(Ask(t, ip)) /\ WF_cp_vars(RetransmitTime(t, ip))

-----------------------------------------------------------------------------
(***************************************************************************)
(* Properties.                                                             *)
(***************************************************************************)

\* A task that goes on sending to an address gets to know its MAC address,
\* again after each time-out: full rings, lost packets, several tasks waiting
\* for one address and repeated requests do not keep the answer from it,
\* provided that losses end and that fewer tasks than MaxRequests ask.
Resolves == ~ vdev => \A t \in L3Tasks, ip \in Neighbours : []<>(<<t, ip>> \in known)

\* "If present in our hash with a non-null MAC, then present in kernel"
\* (handle_message), once the events are read.
HashMatchesKernel == events = <<>> => has_mac \subseteq kernel

=============================================================================
