------------------------------- MODULE Ports -------------------------------
(***************************************************************************)
(* The ports while the program starts and ends (main.c, prox_port_cfg.c):  *)
(* the queues of ports are numbered task by task, the options of every     *)
(* port are worked out from what its tasks need and its device can do, the *)
(* ports are started, and at the end they are closed and the pools of mbufs*)
(* freed.  A port may be backed by rings of another process, which have a  *)
(* single queue.                                                           *)
(***************************************************************************)
EXTENDS Integers, FiniteSets, SequencesExt, FiniteSetsExt, Functions

CONSTANTS
  PoTasks,    \* tasks, 1 .. n, in the order of the cores
  PoPorts,    \* ports, 0 .. n
  PoMaxQueues,\* PROX_MAX_PORTS, the most places a task has for its queues
  PoByte      \* numbers of a uint8_t

ASSUME PoAssumption ==
  /\ PoTasks = 1 .. Cardinality(PoTasks) /\ PoPorts = 0 .. Cardinality(PoPorts) - 1
  /\ IsFiniteSet(PoTasks) /\ IsFiniteSet(PoPorts) /\ {PoMaxQueues, PoByte} \subseteq Nat \ {0}

VARIABLES
  po_cfg,   \* rx, tx: ports of each task; shares: tasks that use reference counts;
            \* all, ringed, jumbo, max, disabled, desc, lsc: of each port;
            \* per_socket: one pool for all
  po_phase, \* the task or the port that is next, or how it ended
  po_q,     \* rx, tx: the port and the queue of each place of each task
  po_port,  \* rx, tx: number of queues; pool: of each queue; offloads that are requested
  po_freed  \* the pools that were freed, in order
po_vars == <<po_cfg, po_phase, po_q, po_port, po_freed>>

NoPool == 0
Dummy == -1
SharedPool == 99
PoolOf(t) == IF po_cfg.per_socket THEN SharedPool ELSE t

PoInit(configurations) ==
  /\ po_cfg \in configurations
  /\ po_phase = <<"queues", 1>>
  /\ po_q = [rx |-> [t \in PoTasks |-> <<>>], tx |-> [t \in PoTasks |-> <<>>]]
  /\ po_port = [p \in PoPorts |-> [rx |-> 0, tx |-> 0, pool |-> <<>>, wants |-> {}, desc |-> 0, lsc |-> FALSE, rss |-> FALSE]]
  /\ po_freed = <<>>

----------------------------------------------------------------------------
(* Numbering the queues.                                                     *)
Uses(list, p) == Cardinality({i \in DOMAIN list : list[i] = p})
Twice(list) == {p \in Range(list) : Uses(list, p) > 1}
\* "all_rx_queues": a task that names each of its ports once takes all queues.  They are
\* counted in bytes, and the count that is compared with the places leaves out the ports
\* of which a single queue is read.
Takes(p) == IF p \in po_cfg.all THEN po_cfg.max[p].rx % PoByte ELSE 1
WholeCount(list) == MapThenSumSet(Takes, Range(list) \cap po_cfg.all) % PoByte
Widens(list) == Twice(list) = {} /\ WholeCount(list) # 0
Widened(list) ==
  IF ~Widens(list) THEN list
  ELSE FlattenSeq([k \in 1 .. Cardinality(PoPorts) |->
                     IF k - 1 \in Range(list) THEN [j \in 1 .. Takes(k - 1) |-> k - 1] ELSE <<>>])

\* The tasks from t on have their places; receiving, a ring-backed port starts again.
AddRx(ports, p, t) ==
  LET n == IF p \in po_cfg.ringed THEN 0 ELSE ports[p].rx
  IN [ports EXCEPT ![p].rx = n + 1, ![p].pool = SubSeq(@, 1, n) \o <<PoolOf(t)>>]
AddTx(ports, p) == [ports EXCEPT ![p].tx = IF p \in po_cfg.ringed THEN 1 ELSE @ + 1]

Numbering(list, ports, Add(_, _), count(_)) ==
  FoldLeft(LAMBDA acc, p : LET after == Add(acc.ports, p)
                           IN [ports |-> after, places |-> Append(acc.places, <<p, count(after[p]) - 1>>)],
           [ports |-> ports, places |-> <<>>], list)

\* What the task wants of the ports it transmits to: packets in several segments when
\* one of its pools is too small for the frames, and that packets are freed at once
\* when none is shared.
Wants(t) ==
  (IF \E p \in Range(po_cfg.rx[t]) : p \in po_cfg.jumbo THEN {"segments"} ELSE {})
    \cup (IF t \in po_cfg.shares THEN {} ELSE {"fast free"})

Refuses(t) ==
  \/ Twice(po_cfg.rx[t]) \cap po_cfg.all # {}
  \/ Widens(po_cfg.rx[t]) /\ WholeCount(po_cfg.rx[t]) > PoMaxQueues

\* The search for ports to be read whole looks at every place of the task, and the number
\* in a place that is not used lies far behind the counters: what is found there may do
\* nothing, or send the writes astray.
Strays(t) == Twice(po_cfg.rx[t]) = {} /\ Len(po_cfg.rx[t]) < PoMaxQueues

Ends(how, t) == po_phase' = <<how, t>> /\ UNCHANGED <<po_q, po_port>>

configure_if_queues(t) ==
  LET list == Widened(po_cfg.rx[t])
      AddRxOf(ports, p) == AddRx(ports, p, t)
      received == Numbering(list, po_port, AddRxOf, LAMBDA port : port.rx)
      sent == Numbering(po_cfg.tx[t], received.ports, AddTx, LAMBDA port : port.tx)
  IN /\ po_phase = <<"queues", t>>
     /\ \/ Strays(t) /\ Ends("astray", t)
        \/ Refuses(t) /\ Ends("refused", t)
        \/ ~Refuses(t) /\ Len(list) > PoMaxQueues /\ Ends("overrun", t)
        \/ /\ ~Refuses(t) /\ Len(list) <= PoMaxQueues
           /\ po_phase' = IF t + 1 \in PoTasks THEN <<"queues", t + 1>> ELSE <<"ports", 0>>
           /\ po_q' = [po_q EXCEPT !.rx[t] = received.places, !.tx[t] = sent.places]
           /\ po_port' = [p \in PoPorts |->
                            IF p \in Range(po_cfg.tx[t]) THEN [sent.ports[p] EXCEPT !.wants = @ \cup Wants(t)]
                            ELSE sent.ports[p]]
     /\ UNCHANGED <<po_cfg, po_freed>>

----------------------------------------------------------------------------
(* Starting the ports.                                                       *)
active(p) == \E t \in PoTasks : p \in Range(po_cfg.rx[t]) \cup Range(po_cfg.tx[t])
NextPort(p) == IF p + 1 \in PoPorts THEN <<"ports", p + 1>> ELSE <<"started", 0>>

\* Descriptors: at least the minimum of the device, then at most its maximum.
Clamped(n, least, most) ==
  LET raised == IF n < least THEN least ELSE n IN IF raised > most THEN most ELSE raised

\* What the configuration disables, or the device cannot do, is not asked for.
CONFIGURE_TX_OFFLOAD(p, wants) == (wants \ po_cfg.disabled[p]) \cap po_cfg.max[p].can

init_port(p) ==
  LET port == po_port[p]
      ready == [port EXCEPT !.pool = IF port.rx = 0 THEN <<Dummy>> ELSE @,
                            !.rx = IF @ = 0 THEN 1 ELSE @, !.tx = IF @ = 0 THEN 1 ELSE @,
                            !.rss = port.rx > 1 /\ po_cfg.max[p].kind # "virtio",
                            !.wants = CONFIGURE_TX_OFFLOAD(p, @),
                            !.desc = Clamped(po_cfg.desc, po_cfg.max[p].least, po_cfg.max[p].most),
                            !.lsc = IF po_cfg.lsc = "default" THEN po_cfg.max[p].kind # "virtio"
                                    ELSE po_cfg.lsc = "yes"]
  IN /\ po_phase = <<"ports", p>>
     /\ IF ~active(p) THEN po_phase' = NextPort(p) /\ UNCHANGED po_port
        ELSE IF ready.rx > po_cfg.max[p].rx \/ ready.tx > po_cfg.max[p].tx
        THEN po_phase' = <<"refused", p>> /\ UNCHANGED po_port
        ELSE po_phase' = NextPort(p) /\ po_port' = [po_port EXCEPT ![p] = ready]
     /\ UNCHANGED <<po_cfg, po_q, po_freed>>

\* Ports are closed and every task frees its pool.
close_ports_atexit ==
  /\ po_phase[1] \in {"started", "refused"}
  /\ po_phase' = <<"closed", 0>>
  /\ po_freed' = LET receiving == SelectSeq([t \in PoTasks |-> t], LAMBDA t : po_cfg.rx[t] # <<>>)
                 IN [i \in DOMAIN receiving |-> PoolOf(receiving[i])]
  /\ UNCHANGED <<po_cfg, po_q, po_port>>

PoNext ==
  \/ \E t \in PoTasks : configure_if_queues(t)
  \/ \E p \in PoPorts : init_port(p)
  \/ close_ports_atexit

----------------------------------------------------------------------------
Places(list) == {<<t, i>> \in PoTasks \X (1 .. PoMaxQueues) : i \in DOMAIN list[t]}
PlacesOf(list, p, q) == {x \in Places(list) : list[x[1]][x[2]] = <<p, q>>}
Started == po_phase[1] = "started"

\* Every queue of a started port has its pool and its place in one task: queues are
\* numbered without gaps, and no two tasks use one, except those of rings
\* (main.c:282-404, prox_port_cfg.c:602-890).
QueuesExclusive ==
  Started => \A p \in {x \in PoPorts : active(x)} :
    /\ Len(po_port[p].pool) = po_port[p].rx
    /\ \A q \in 0 .. po_port[p].rx - 1 :
         IF po_port[p].pool[q + 1] = Dummy THEN PlacesOf(po_q.rx, p, q) = {}
         ELSE IF p \in po_cfg.ringed THEN PlacesOf(po_q.rx, p, q) # {}
         ELSE /\ Cardinality(PlacesOf(po_q.rx, p, q)) = 1
              /\ \A x \in PlacesOf(po_q.rx, p, q) : po_port[p].pool[q + 1] = PoolOf(x[1])
    /\ p \notin po_cfg.ringed => \A q \in 0 .. po_port[p].tx - 1 : Cardinality(PlacesOf(po_q.tx, p, q)) <= 1
    /\ \A x \in Places(po_q.rx) : po_q.rx[x[1]][x[2]][1] = p => po_q.rx[x[1]][x[2]][2] < po_port[p].rx
    /\ \A x \in Places(po_q.tx) : po_q.tx[x[1]][x[2]][1] = p => po_q.tx[x[1]][x[2]][2] < po_port[p].tx

\* A port that is said to be read as a whole has one reader and is read whole, unless
\* the queues of the task's ports come to nothing in a byte.
WholePorts ==
  Started => \A p \in po_cfg.all \ po_cfg.ringed :
    \A t \in PoTasks : p \in Range(po_cfg.rx[t]) =>
      \/ po_cfg.max[p].rx % PoByte = 0 \/ WholeCount(po_cfg.rx[t]) = 0
      \/ /\ po_port[p].rx = po_cfg.max[p].rx
         /\ \A u \in PoTasks \ {t} : p \notin Range(po_cfg.rx[u])

\* A task is given more queues than it has places only where it reads a port whole, and
\* another one as well whose queues were not counted or made the count wrap
\* (main.c:345-362).
PlacesOverrun ==
  po_phase[1] = "overrun" =>
    LET list == po_cfg.rx[po_phase[2]]
        whole == Range(list) \cap po_cfg.all
    IN  /\ whole # {}
        /\ Range(list) \ whole # {} \/ MapThenSumSet(LAMBDA p : po_cfg.max[p].rx, whole) >= PoByte

\* Packets that several owners share are freed at once only where another task, which
\* does not share any, transmits to the same port (main.c:434-440).
FreedAtOnce ==
  Started => \A t \in po_cfg.shares : \A p \in Range(po_cfg.tx[t]) :
    "fast free" \in po_port[p].wants => \E u \in PoTasks \ po_cfg.shares : p \in Range(po_cfg.tx[u])

\* Frames that do not fit are sent in segments by ports that can do so, unless the
\* configuration disables it (prox_port_cfg.c:134-151).
SegmentsAllowed ==
  Started => \A t \in PoTasks : \A p \in Range(po_cfg.tx[t]) :
    Range(po_cfg.rx[t]) \cap po_cfg.jumbo # {} /\ "segments" \in po_cfg.max[p].can \ po_cfg.disabled[p] =>
      "segments" \in po_port[p].wants

\* A pool is freed twice only where all tasks share one (prox_port_cfg.c:930-937).
FreedOnce == ~po_cfg.per_socket => IsInjective(po_freed)

\* Ports: queues, pools and options are what tasks and devices need.
PortsSound == QueuesExclusive /\ WholePorts /\ PlacesOverrun /\ FreedAtOnce /\ SegmentsAllowed /\ FreedOnce
=============================================================================
