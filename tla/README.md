# PROX in TLA+

PROX (Packet pROcessing eXecution engine) is a DPDK application: worker
threads, one per core, poll tasks that receive, handle and transmit bursts of
packets; a master thread reads commands and resolves addresses for the
workers. This directory holds TLA+ modules for the parts of it in which order,
sharing and boundaries matter, TLC configurations that check them, and proofs
for the TLA+ proof system. `src/src` below is the C program.

Contents: 1 the system, 2 how the project is organised and what comes next,
3 the modules and the code they model, 4 runs, 5 bounds, 6 fairness, 7 proofs,
8 disagreements and defects, 9 what is not modelled.

## 1. The system

### Threads and what they share

    console, socket --> master (run.c, commands.c, handle_master.c)
                               |  lconf->msg      (one slot per core)
                               |  control rings   (L3 tasks <-> master)
                               |  settings, counters, measurements (no lock)
                               v
    worker (thread_generic.c): timers, then each task in turn:
        rx_pkt --> handle_bulk --> tx_pkt        --> ports, rings, next task

The master is one thread: it reads the configuration, sets everything up, and
then runs commands one at a time and waits inside them. A worker does not wait
for the master: it looks at its message slot about once a second
(`TERM_TIMEOUT`), and only a full ring without drop can hold it up.
`struct lcore_cfg` is written by both: the slot and the flags by both, the run
list by whichever of them handles the message. Settings of tasks (sizes, rates,
delays, routes) are written by the master while the task runs.

### Components

State, operations, what is hard, and what makes the component correct.
`PROJECT.json` gives the files and the status of each; its list of hazards says,
at the line where it bites, what can go wrong and which property would notice.

**Core control** (`lconf.c`, `commands.c`). Per core, the message slot, the run
list, flags, and the EAL's state of the lcore. Hard: the master decides on values
that a message still in the slot will change; a message may be handled by either
thread; a launch may be refused; the waits may time out. Correct when the run
list is exactly the set of started tasks in order, one thread handles a message,
none is lost or applied twice, and every command returns.

**Worker thread** (`thread_generic.c`, `rx_pkt_self`, `tx_pkt_self`). A sorted
array of timers, one entry of which is held outside while the others shift;
local copies of the run list with `next[]` and `zero_rx[]`, some by position and
some by id; working sets that neighbouring tasks share when the ring between
them is optimised away, in which each call of `tx_pkt` counts from the start.
Correct when no timer is late or lost, every task is polled and nothing handed over is
overwritten or left behind.

**Debugging and counting** (`lconf.c`, `task_base.h`, `rx_pkt.c`, `tx_pkt.c`).
A stack of receive functions that remove themselves, one saved transmit function
shared by six features, flags read by the master. Correct when what was switched
on can be switched off, and packets still leave.

**Reception and transmission** (`rx_pkt.c`, `tx_pkt.c`). Per output a ring with
16-bit indices, in the first of which packets are also received; variants with
and without buffering and drop; a drain timer. Correct when each output is a
first-in first-out queue that does not wait without end.

**L3 resolution in workers** (`packet_utils.c`) and **control plane in the
master** (`handle_master.c`). A gateway, a small table that turns into a hash,
routes and next hops with two time-outs per entry; in the master a table of
addresses with the tasks that asked; bounded rings that drop; a network, and with
a TAP device the kernel, that answer. Correct when a packet leaves only with an
address its next hop had, and resolution succeeds in the end.

**L4 generator** (`handle_genl4.c`, `genl4_*.c`, `heap.c`, `token_time.h`).
Streams of TCP and UDP, connections that move between a hash, a heap of timers
and a pool, a token bucket, packets kept when the bucket refuses. Correct when both
sides deliver the data in order and end, and no connection is in two places.

**Generator, latency, impairment** (`handle_gen.c`, `handle_lat.c`, `eld.h`,
`handle_impair.c`). Templates, counts and rates that commands change while they
are used; packet ids that wrap; queues of delayed packets that are resized.

**Packet modes** (`handle_*.c`, `expire_cpe.c`): rewriting of headers, routing,
load balancing, ACL, policing, QoS, NAT and CGNAT, BNG. Tables that must stay
inverse of each other, entries that expire while in use, bursts looked up before
they are added, packets held before a device.

**Configuration** (`cfgfile.c`, `parse_utils.c`, `prox_args.c`, `prox_cfg.c`).
The file is read once per kind of section, going back for sections with several
numbers; lines write fields of the last task named and act on what earlier lines
left. **Set-up** (`main.c`, `task_init.c`, `prox_port_cfg.c`) turns tasks into
rings, hand-overs, queues, pools and functions, with checks in between.

**Main loop, console, commands, statistics** (`run.c`, `input*.c`,
`cmd_parser.c`, `commands.c`, `stats*.c`). Clients, heartbeat, duration, signals;
commands for lists of cores and tasks; counters read while they change.

**Display and logging, Lua tables, other threads, rapid scripts**: see 9.

## 2. Organisation

One module per component; `MC*` modules instantiate them. Components that share
no state are put in one instance behind a variable `part` chosen at the start:
the others stay in one initial state, so the state space is the sum, not the
product, of theirs. Components that interact are one module (`CoreControl`:
master, slots and workers; `CtrlPlane`: tasks, rings, master, network, kernel;
`L4Stream`: two peers and a network; `GenLat`: generator, network, latency task;
`Bng`: balancers and two workers; `SetUp`: checks, rings and the tasks that run on
them). Abstract specifications: `TaskControl`, implemented by `CoreControl`;
`TxQueues`, implemented by `TxBuffer`.

A run's property is the conjunction of named parts that are about one component;
the parts are stated, each with the code it is about, in the component's module.

What would come next, in this order: the burst split of `tx_pkt_l3` together with
`L3Table`; a change by `start_l3` inside the processing of one packet; the key-value
store of fm; the try functions of `tx_pkt.c`; port statistics; the search of the
rapid scripts. Proofs: those named at the end of 7. Modules
that are to be proved about use recursive functions, never RECURSIVE operators.

## 3. Modules

`PROJECT.json` ("map") gives the lines of every definition. Names follow the code.

| module | models |
| --- | --- |
| `TaskControl` | the promise of core control: a set of running tasks and at most one request per core |
| `CoreControl` | `start_cores`, `stop_cores`, posting of commands, `lconf_do_flags`, `msg_start`, `msg_stop`, `tsc_term`, the reload in `thread_generic`. `wpc`, `wtasks`: where the worker is, and its copy of the run list; `pc`, `op`, `todo`, `posted`: where the master is in its command |
| `TscTasks` | `tsc_tasks`, `next_tsc`: the timers and their rescheduling |
| `WorkerLoop` | the pass over the tasks; `nb_rx` of the shared working sets. `Calls`: how often a task may call `tx_pkt` in one `handle_bulk`, as sequences of sizes |
| `Hooks` | dump, trace, distr and bw: stack, saved function, flags, the commands' checks |
| `TxQueues`, `TxBuffer` | the promise of buffering; `rx_pkt_*`, `buf_pkt_*`, `tx_pkt_hw*`, the flush |
| `TokenTime` | the token bucket in arithmetic of a given width |
| `L3Table` | `write_dst_mac`, `write_ip6_dst_mac`, `handle_ctrl_plane_pkts` for one task |
| `CtrlPlane` | `handle_message`, the table of requests, the rings both ways, netlink events, losses |
| `L4Stream` | `stream_tcp_proc` and `stream_udp_proc` at both ends of a connection |
| `L4Handlers` | server and client handlers cut off by the bucket, the queue `fqueue.h` |
| `L4Bundles` | the pool of connections, their tuples in the hash, their timers |
| `Heap` | the pairing heap with its links |
| `Gen`, `GenLat` | templates, counts, stamps; packet ids from generator to `eld.h` |
| `Impair` | queues of delayed packets and the change of settings in steps, from what `init_task` leaves: the handler and the queue of the configuration, `delay_us` and `random_delay_us` unwritten. `im_asked`: the delays configured or last commanded |
| `PacketModes` | the modes that rewrite one packet, as operators from packet to packet; chains of them. Fields that the code writes at a fixed offset are written there, whatever the frame has in that place (`EchoReply`, `NshAt`) |
| `Holding` | aggregator, esp, qos, dump, mirror: packets kept between calls |
| `Bursts` | acl, classify, police, qos classes, arp: decisions in a burst |
| `Cgnat`, `Bng` | their tables, ports and expiry; each table of CGNAT may refuse a key (`CgRefusing`) |
| `ConfigFile` | `cfg_parse` and the variables: sections, going back, errors |
| `Texts` | the parsers of `parse_utils.c` over texts cut into what they look at, and the topology of the machine |
| `CoreConfig` | `get_core_cfg`, `get_defaults_cfg`, the checks of `prox_read_config_file`, the core mask, ports resolved late |
| `PortConfig` | `[eal options]`, `[global]`, `[cache set]`, `[port]` with its mask of disabled offloads, the arguments for DPDK, `init_rte_dev` |
| `SetUp` | counting and making of rings, optimised rings, the deadlock check, `init_task_struct`, then tasks that run and wait on the rings |
| `Ports` | queues, counted in bytes as in `configure_if_rx_queues`, pools, offloads, start, end |
| `Stats` | two samples of counters, totals, hand-over of latency measurements, interrupts, log, reset |
| `Console` | inputs, clients, lines, `read` and `accept` that fail, `run`, heartbeat, links, quit, SIGTERM |
| `Commands` | which tasks a command tells, bypass and reconnect, multicast addresses, cache classes |
| `*_proofs`, `NumberLemmas` | proofs, one module for the components of a kind, and lemmas about numbers |

Grain of steps. In `CoreControl`, `CtrlPlane`, `Impair`, `Gen` and `Stats` a step
is the code between two accesses to state another thread may change: in
`start_cores` the condition `n_tasks_run` is read in one step, the slot is waited
for and written in another, the launch is a third; the master's write of a flag
and of the settings it announces are different steps; every counter is read by a
step of its own. `lconf_do_flags` is one step: it runs while the slot is taken,
nobody else writes the run list then, and the worker of the core reads its copy
only. In single-threaded parts a step is an iteration of a loop, a call, a line
of the configuration or a command.

Operators whose comment starts with "Mutant:" are faulty variants of the
definition that follows them. They are used nowhere; each one shows, when it is
put in place of the real definition, that a property depends on it.

## 4. Runs

| run | module | what it shows |
| --- | --- | --- |
| `core_timeouts` | `MCCoreControl` | Two cores, all orders of start, stop and other commands, waits that may be given up, lists that name a core twice, lcores that stay FINISHED. The run list is sorted and exact (`RunListConsistent`), a worker polls what it should (`WorkerSettled`), one thread handles a message (`SingleHandler`), what was consumed is done and a running fm task has its engine (`CommandsEffective`), and the whole implements `TaskControl`. |
| `core_live` | `MCCoreControl` | With waits that last: every command returns (`CommandReturns`), every message is consumed (`MsgConsumed`), someone is always there to read the slot and the running flag is true between commands (`SlotWatched`). |
| `core_lost`, `core_fm` | `MCCoreControl` | Violations, see 8. |
| `worker` | `MCWorker` | Timers sorted, complete and run in order (`TimersSound`, `RunInOrder`); tokens exact (`TokenSafe`); right MAC addresses, requests paced, resolved addresses kept through the move to the hash (`AddressesSound`, `ResolvedStays`); heap (`HeapSound`), handlers (`ServerSound`), connections (`BundlesSound`), generator (`GenSound`), ids and losses (`IdsSound`). |
| `service` | `MCService` | What must go on: nothing handed over is stranded, or lost but by the call that handed it over (`HandoverSound`), and every task is served (`TasksServed`); every address is resolved (`AddressesResolved`); both ends of a stream agree (`InStep`) and end (`StreamsEnd`). |
| `worker_loop_partial` | `MCWorkerLoop` | Violation, see 8. |
| `paths` | `MCPaths` | Stack and flags agree (`RxCountersMatchFlags`), dumps end (`DumpEnds`), only counting started over an installed function loses the transmit function (`OnlyCountingLosesTransmit`); bursts never wrap or meet what waits (`RingSafe`), outputs are first-in first-out (`ImplementsTxQueues`), what waits leaves unless bursts keep being sent (`DrainedOrBusy`). |
| `hooks_stop` | `Hooks` | Violation, see 8. |
| `modes` | `MCModes` | Headers put on come off and describe what follows (`PacketModesSound`); delayed packets leave in order and on time, a change given alone applies (`ImpairSound`); held packets leave once (`HoldingSound`); classes kept through a chain (`BurstsSound`); tables inverse and ports accounted whichever table refuses a key, answers reach their flow, three cases of 8 apart, flows keep their address (`CgnatSound`, `FlowsStable`); what was learned upstream leads back downstream and stale entries go (`BngSound`). |
| `impair_delay` | `MCModes` | Violation, see 8. |
| `master` | `MCMaster` | `StartSound`: rings and hand-overs are as configured, a core waits for itself only through a list the check does not look at, queues are exclusive, a port read whole has one reader, places are overrun for known reasons only, pools freed once. `MasterSound`: no negative loss, totals equal to what was counted, no latency measurement read while written, maxima and logs complete; the tasks told are the tasks named, bypass and reconnect lead every packet to one task, multicast addresses and cache masks in step. `ConsoleSound`: whole commands only, inputs and descriptors match also where `read` and `accept` fail, silence and quit stop the cores, links shown. `ConfigRead`: every line read once per number of its section, errors at their place, values as written, and fields, masks and counts that follow from the lines. |

A part that says "unless" names the configurations or orders in which the code
does something else; those are listed in 8.

## 5. Bounds

* `CoreControl`: two cores with two and one tasks; one core with three tasks for
  the violations. Two tasks are the fewest for which a core is partly running,
  three the fewest for an insertion in the middle; the theorems cover every
  number for the safety properties. The number of commands is not bounded.
* `TscTasks`: `MaxTsc` ends the exploration at 20 cycles, ten periods of the
  shortest timer; `MinTsc` bounds how far `-2` results move a deadline back.
* `WorkerLoop`: four tasks, of which two pairs are joined; bursts of two; two calls of
  `tx_pkt` in one `handle_bulk` of one task whose output is an optimised ring
  and of one whose output is none (`SomeTwice`).
* `Hooks`: two stacked functions for sixteen (the third is refused); counts and
  bursts of one and two, so that a dump ends within, at the end of, and after a
  burst.
* `TxBuffer`: `MAX_PKT_BURST` is 4 for 64 and `IndexRange` 16 for 65536: even and
  odd starts exist, the ring wraps twice before the index does, and both divide
  as in the code. At most one packet in the task carries a mark, which may be any.
* `TokenTime`: 8-bit arithmetic, a period of 5 cycles, rates on both sides of one
  byte per cycle; the theorem covers every width.
* `L3Table`, `CtrlPlane`: three addresses with a linear table of two, so that the
  move to the hash happens; two next hops, and a third while only two of the
  addresses are used (`ThirdHopOfLocal`), since with two no address is both the hop of
  a route and asked for on a direct one. Two tasks with rings of one message, one lost packet
  and one kernel event, at any moment each.
* `L4Stream`: segments of one unit, a window of one and an action of three segments,
  so that the window closes and opens; a network of two, all orders and losses; a UDP
  and TCP streams of both directions, whose actions follow each other as
  `handle_genl4.c` reads them (`PlayedInOrder`). Sequence numbers are plain integers:
  a stream of 2^32 bytes is outside the model. `L4Bundles`: two bundles, two configurations
  and three positions of the hash. `Heap`: five elements, the fewest for the
  removal of an inner element with children and siblings.
* `Gen`, `GenLat`: bursts of two, counts and ids that wrap at 4 and at 3 places;
  `MaxIndex` ends the exploration before the id itself, a 32-bit word, wraps.
* `Impair`: six packets and one command of either kind in the middle; the
  configuration gives one of the two delays or none. `Holding`,
  `Bursts`, `Cgnat`, `Bng`: bursts of two or three, tables that fill up (two ports,
  two addresses, two buckets with one extension) or refuse at any time.
* `SetUp`: three tasks on two cores with up to three links of two protocols and
  rings of one place: chains, cycles over both cores and a core that feeds itself
  all occur. `Ports`: two tasks and two devices, one of which runs out of queues, with
  three places in a task and a byte that wraps at 5.
* `Stats`: counters wrap at 3, three updates and one reset. `Console`: two clients,
  buffers of three characters, so that lines are cut, a clock of three ticks.
* `Commands`: commands for every pair of an existing or missing core and task; one
  command per way in which they are checked.
* `ConfigFile`: files of up to four items. `CoreConfig`, `PortConfig`: files of up
  to three lines out of a theme, which holds the lines that act on the same
  fields; three lines are enough for a line, a second one and one between or
  behind them. `Texts`: two texts one after the other, on machines whose topology
  can and cannot be read.

`CHECK_DEADLOCK FALSE` stands where the program may end (set-up refused, all read,
stream closed, program left) or where a bound on time or packets ends a behaviour.

## 6. Fairness

* `CoreControl`: weak fairness of the master inside a command (a thread that the
  operating system runs; its waits are loops) and of each worker (it polls for
  ever). None for commands being given.
* `WorkerLoop`, `Hooks`: the worker polls for ever; for `DumpEnds` also that
  packets keep arriving, as the property's comment says.
* `TxBuffer`: weak fairness of the steps of a call; strong fairness of the drain
  timer, which is looked at between two passes, when the task is between two
  calls. Nothing makes packets arrive.
* `CtrlPlane`: the master and the tasks poll their rings (weak); a neighbour that
  is asked again and again answers in the end, a task that is often free to ask
  asks, and its retransmission time comes (losses end: `MaxLosses`).
* `L4Stream`: both peers receive what has arrived, and their timers expire.

## 7. Proofs

For every set of cores, numbers of tasks, lists and arguments of commands, with
and without time-outs and with either behaviour of the EAL
(`CoreControlAssumption`), `CoreControl_proofs` proves `TypeCorrect`,
`RunListSorted`, `StoppedMeansEmpty`, `NoStalePolling`, their conjunction
`WorkerSettles`, `OneHandler`, `CommandsTakeEffect`, `TaskControlImplemented` and
`SlotsStayWatched`. None of the properties is inductive alone. The invariant
`IInv` adds:

* `StartPending`: a worker that polls with no task has been launched for a START
  that is still in its slot. Without it a launched worker could meet an empty
  slot and an empty run list, and `WorkerPollsRunList` fails at `start_launch`.
* `LaunchPending`, `StartValid`: that START was just posted, and names a task of
  the core, so handling it makes the run list non-empty.
* `SelfPosted`: what the master handles itself is never a START or STOP, so it
  cannot change the run list behind a worker's back.

The lemmas `InsertTaskProperties` and `RemoveTaskProperties` say that they keep a
strictly sorted list sorted and add or remove exactly one element; the proof that
a step preserves `IInv` has one step per action.

Three theorems build on it:

* `CommandsTakeEffect` (property `CommandsEffective`) by `EInv`: a core in `posted`
  has the message of this very command in its slot or has done what it says
  (`PostedOrDone`; the list may name a core twice, the second message is the
  same), and `lconf_do_flags` leaves exactly the tasks of `RunningAfter`. Its half about
  fm assumes `UniformFM`: on one core every task has `start_first`/`stop_last` or none
  has. The code does not enforce it; `core_fm` shows what happens without.
* `TaskControlImplemented`: posting is a request, handling it serves it
  (`HandlerServes`, again from `RunningAfter`), all else stutters.
* `SlotsStayWatched` (property `SlotWatched`) by `WInv`, for `Timeouts = FALSE` and lists
  that name no core twice (`NoDuplicates`). A core is `Settled`, `Starting` or `Stopping`
  according to whether the command waits for it; `Visits` keeps the cores still
  to be visited apart from those waited for. Both assumptions are needed: with
  either dropped, a start or stop decides on an `n_tasks_run` read before another
  message was handled, and its own message can stay in the slot. `core_lost` shows
  it for a wait given up; with `stop 1,1`, whose list `parse_list_set` accepts, the
  second STOP is posted behind the first, to a thread that is about to return.

`Worker_proofs` proves `EarliestTimerFirst`, `AllTimersKept` (together
`TimersStaySound`) and `TimersRunInOrder` for all periods and step lengths, from
lemmas on `Place` and `Reschedule`: the new array is a permutation of the old one
with one deadline changed, and is ordered.

It proves `HandoversSound` and `NoPacketLeftBehind` for any number of tasks, optimised rings, bursts and calls
of `tx_pkt` in one `handle_bulk`, under conditions that the code relies on and does
not enforce: `InPlace` (every running task has its configured position) and `FedRuns`
(no task that feeds an optimised ring runs without the task it feeds). A task that calls
`tx_pkt` twice still writes over its own packets; `NoPacketOverwritten` adds
`FeedersSendOnce` (no task that feeds a ring does) and excludes that too. The
invariant `WaitsForNext` says that packets wait only for the task that the pass
serves next. `worker_loop_partial` shows what happens without `InPlace`, and `service`
has a task for which `FeedersSendOnce` is false. The modes whose second call loses packets
are genl4 (`handle_genl4.c:190` and 212), esp (`handle_esp.c:661`, 687, 709) and mirror
with a multiplier (`handle_mirror.c:95`); the first calls of impair only discard
(`handle_impair.c:277`, 393), so that what its last call passes on is all there is.

`Paths_proofs` proves `TypeCorrect` and `BuffersSafe` for every even burst
size, every index range that the ring divides, any number of outputs and any
packets. `RingSafe` speaks of the state between two calls; `IInv` carries it
through a call: what waits for an output and what the call has still to buffer
fit in the ring together (`RoomLeft`), and an output the second loop has passed
has less than a burst left. That the receive area is free follows from
`WholeBursts`: what waits starts at a half of the ring and is shorter than a half,
so its end, or the next even place, or 0, begins an area it does not reach.

`TxQueuesImplemented` (property `ImplementsTxQueues`) maps the ring between `cons`
and `prod` to a queue and the rest of the burst to the packets the task holds.
Every handler is then one step of `TxQueues`, a pass over packets with drop
included. A packet is put into the ring it was received into while the rest of
the burst still lies there; that it overwrites none of them is `BurstAhead`: the
burst starts behind the end of what waits, counted with or without the wrap. The
lemma `DistanceMasked` and those on `Around` turn differences of wrapping indices
into lengths.

`TransmitKept` (property `OnlyCountingLosesTransmit`), for every set of messages
and bursts, needs one fact, `Unhooked`: while the configured function is in the
slot, none is kept aside. Without it a function that removes itself could put
back an older one.

`CountersFollowFlags` (property `RxCountersMatchFlags`), for every set of commands, any
stack size and bursts, assumes that each command waits for the last (`Patient`). The
master looks at a flag when a command is given and the worker changes it later; with
one command at a time what was allowed still is (`HookInv`). `hooks_stop` shows what
happens without. `AddKeeps` and `DelKeeps` say what the two functions of `task_base.h`
do to the stack, and `ReceiveKeeps` that the functions on it, called innermost first,
remove nothing but `rx_pkt_dump`.

`Generator_proofs`: `ConnectionsKept` (property `BundlesSound`), for every pool, mix of
configurations and size of the hash. `L4BInv` says that an entry of the hash and
the connection it names know each other (`KeysNameEntries`), that a connection in
use has one key (`OneKey`), from which the counted form of `FoundByTuple` follows,
and that it plays a stream of its configuration (`StreamOfCfg`), without which
"the last stream has ended" could be missed and the connection kept for ever.

It also proves `ServerKept` (property `ServerSound`), for every burst, size of the queue
and number of packets. In `ServerInv` the packets that were stored form one line, those
sent, then the window, then the queue (`InLine`): a call of `handle_gen_queued` moves the
borders between the three, and only `fqueue_put` makes the line longer. The packet that was
cut off is the first of the window and already processed. The packets of the task's
own that were not used are the last slots of `new_mbufs` (`OwnedLast`), so refilling the
first ones overwrites none. That either part finds the flag it left follows from
`ResumedByOwner`: a part that returns 0 leaves nothing kept for the other to mistake
for its own. What is wrong is then wrong only by a stop (see 8, `PacketsOwned`).

`GeneratorKept` (property `GenSound`), for every set of sizes, count and bulk, needs that sizes
that wait for the worker have been checked (`WaitingChecked`), and that the count still
covers a bulk that was calculated, and the budget one that was taken (`BulkCounted`). That stamps
increase after a transmission that was refused in part is arithmetic on sums of sizes:
`SumSteps`, `SumBounds` and `SumEqual` say how the recursive `SumOf` adds. They are
proved without an induction rule, from the least number for which they would fail
(`LeastNatural`).

`Modes_proofs`: `TablesAgree` (property `CgnatSound`) and `FlowsStay` (property
`FlowsStable`), for every number of addresses and ports, every set of static flows
without the overlaps that the configuration refuses (`CgAssumption`), and bursts
in which a flow occurs any number of times. `CgInv` replaces the count of each
port by `PortsListed`: it is in the list of its address once, or a key of the table
of answers; a flow whose key that table refused is `cg_stranded` and has none. `BurstLeft`
carries what the packets of a burst have in common: the addresses found are still
there, and a flow that is there now although the lookup did not find it was sent by an
earlier packet or is stranded. Hence the packets whose answers do not return are the
second one of a new flow in a burst (`Repeated`), those of a stranded flow, and
the first of a new flow from an address with a static port (`Astray`).

`L3Table_proofs`: `AddressesRight` (property `AddressesSound`) and `AddressesStay`
(property `ResolvedStays`), for any number of addresses, any sizes of the linear
table and of the next hops, and any value of the error code that the code takes
for an index (`StartedAt`). `L3Inv` says which tables are in use (`TablesUsed`), that an
address has one entry in the linear table and one position in the hash
(`EntriesDistinct`), that a MAC address that has not timed out is that of the address
its entry is used for (`FreshRight`), and that an address with a request out has an
entry whose retransmission time runs (`WaitsQuiet`). The last is what makes
`RequestsPaced` true, and looking for it showed where it is not: an address that
is a route's next hop and is also on a direct route has two entries and is asked
for through both. It takes a third next hop, which `worker` therefore has; the
property excludes the case by name. `AddressesStay` follows
because the move to the hash copies every entry to the position of its address
(`EntriesKept`) and an answer changes the entry of its own address only.

`Worker_proofs` also proves `BucketInvariant` and from it `TokenBucketSafe` for every
period, rates and width for which the products of the code fit
(`TokenTimeAssumption`): the subtractions never wrap, what is credited is the
elapsed share rounded down once, what was handed out never exceeds it, and a
caller that waits as long as it was told finds its bytes. The invariant relates
`tsc_last_bytes` to the last period boundary; without it the credit after a
rounded share could exceed the period's.

`Generator_proofs` also proves `IdsCounted` (property `IdsSound`), for any size of the
table of places, burst, bound on losses and order of arrival within a turn of the
table. `IdsInv` says what a place holds: the latest id received there (`Latest`), of a
packet less than a turn older than the last (`EntriesInv`). Then each arrival moves the
sum of what is missing before the latest packets by what `early_loss_detect_add`
returns (`CountedLost`), and emptying the table at a stop adds the rest
(`ReportedLost`). That duplicates are not counted too often needs `DupsInv`: a packet is
under way as often as it was sent or duplicated, less what was received.

`Modes_proofs` also proves four more. `LearnedStays` (property `BngSound`), for any map
of lines, number of workers, buckets, extensions and time-out: `BngInv` says that an entry
is what was last learned for its key, in the bucket and with the worker of that key
(`EntriesKnown`), that a key occurs once in its bucket (`WellLinked`), and, for the
expiry, how stale an entry may be when the period function comes to its bucket
(`FreshAtVisit`). `ImpairmentSound` (property `ImpairSound`), for any burst, number of
slots, delays and commands at any moment: `ImpairInv` relates the ring to the packets in
the order of arrival (`RingHolds`), a slot to the times that fall into it (`InSlots`,
`NoneLeftBehind`), and a command to the fields it has still to write (`TodoInv`); unless
a call met a command half-way (`im_raced`), handler and buffers fit (`QuietInv`), be it
for settings that a command wrote or for those `init_task` takes from the configuration
and never writes (`AskedInv`, `NeverWritten`).
`BurstsDecided` (property `BurstsSound`), for any burst, chain of tasks, colour of each
packet and offsets of the three phases of the policer. `HeldOnce` (property `HoldingSound`), for any number of
packets, burst, length of the rings, crypto operations, destinations and multiples:
`HoldInv` counts every packet over all that can hold it, and extends the count to packets
that have not arrived (`Accounted`), so that none is held before it came; the references
to a mirrored packet are those still to send and those that the tasks behind it hold
(`AllReferenced`), and what a mode does not have is unused (`OtherModesIdle`). A ring is
reasoned about as the sequence behind `pkt_pos` (`Contents`): `buffer_packet` appends to
it, and one or two calls of `tx_pkt_try` take its first packets, with and without the wrap
(`RingShortened`, `SendRingKeeps`). The theorem ends, as the model does, where an
aggregator sent a full ring at once and its `uint8_t` says that it sent nothing.

`L4_proofs`: `HeapOrdered` (property `HeapSound`), for any references and priorities.
The heap is a forest whose links agree (`LinkedAt`) and in which every set of elements
has one whose predecessor is outside (`Grounded`): without it a ring of elements apart
from the top would satisfy the links. Inside `heap_merge_tops` the elements are a line of
roots (`Line`); both passes shorten it by one at each step, so they end, and that they
end after as many steps as there are references makes the recursive functions equal to
what the loops return.

`StreamsAgree` (property `InStep`), for any list of actions, segment size, window and
number of retries. The assumption `PlayedInOrder` says what `handle_genl4.c` makes of a
configuration: an action starts where the peer's last one ended, and only the last is
empty. `L4Inv` is about the streams that are orderly, as the property is. For each peer it
says where the context stands in its action (`CtxOK`); for both that what one believes
acknowledged the other has received, that this has been sent, and that the segments under
way lie between (`Pair`). While a connection opens less is known, because a SYN may be
sent again while the other side already answers: `Early` and `Fresh` are the two phases
in which old segments can still arrive, and say which cannot. `RunOK` keeps how far each
peer got apart from its context, which is gone when the stream is counted as finished.
Most of the proof is the list of handlers, one lemma for each state of TCP.

`CoreControl_proofs` also proves `ConsoleStaysSound` (property `ConsoleSound`), for any
places, clients, buffer and time-out. `CoInv` adds that no input is listed twice and
none is open without being listed (`InputsMatch`, `CoOwned`), from which it follows that
a descriptor has one owner, and what is known while the heartbeat is overdue
(`CoSilent`) or PROX is leaving (`CoQuiet`). A client whose `accept` failed is listed
without a descriptor (`NoFd`), and any read may fail.

`NumberLemmas` has the facts about least elements, remainders and indices that
wrap; the theorem modules share it.

Recursive functions and folds over sequences are reasoned about step by step: a lemma
says that a step exists and what it keeps, and the invariant names what the steps
so far have done. Where a whole run of steps is needed (`SumOf`, the passes over the
heap, the drain of a slot, the emptying of the table of places), it is the least
number of steps for which the claim fails (`LeastNatural`) that leads to a
contradiction; no induction theorem with an operator as parameter is used.

Model-checked only: everything temporal under fairness (`CommandReturns`,
`MsgConsumed`, `TasksServed`, `AddressesResolved`, `StreamsEnd`, `DumpEnds`,
`DrainedOrBusy`), since liveness under fairness and `ENABLED` are out of reach of the
prover. Without a theorem are further `PacketModesSound`, `StartSound`, `ConfigRead`
(the results of parsers, set-up and chains of rewritings, where the model is the fold
over the input and an invariant would have to restate it) and, not attempted,
`MasterSound`.

## 8. Disagreements and defects

Shown by runs that expect a violation:

* `MsgConsumed` (`core_lost`). `lconf.h` says of the slot "Set by master core (if
  not set), unset by worker after consumption". When a wait is given up, a later
  start decides on an outdated `n_tasks_run`, posts to a core whose thread then
  returns, and the message stays.
* `EngineReady` (`core_fm`). fm asserts that its DPI thread exists when a task
  starts. `start_first` is called for the first task of the core only, whatever
  its mode.
* `NothingOverwritten` (`worker_loop_partial`). "Do not skip a task receiving
  packets from an optimized ring": the test looks at the task whose id is the
  position in the run list.
* `StopMeansStopped` (`hooks_stop`). Two starts given while the worker is busy
  install a counter twice; the stop removes one.
* `DelaySet` (`impair_delay`). The flag that announces new settings is set before
  they are written.

Excluded by name in properties that otherwise hold, so that the runs reach them:

* `OnlyCountingLosesTransmit`: counting started over an installed function
  overwrites the only copy of the configured transmit function.
* `PacketsOwned`: `stop_task_gen_server` frees what waits in a loop that does not move
  the window on, so a stop while packets wait frees the same ones for ever.
* `WaitsForOthers`: the check for rings that a core fills for itself reads
  `core_task_set[0]` only, as many places as there are rings of all protocols.
* `SetUpCrashesKnown`: rings in a circle with a transmitting port let
  `chain_flag_state` recurse for ever; a chain of optimised rings into a task with
  rings and a port has no working set.
* `EndsKnown`: a `[lua]` section that ends the file dereferences a null pointer; so
  does a line of `[variables]` without "=". Only the first `[lua]` section is read.
* `SameTwice`: after a failed reading of the topology the half-read table is used.
* `VarsReplaced`: a text that ends in `${` is accepted. `IntsWithin`: the end of a
  range is left out. `CoresListed`: cores that do not exist become -1.
* `RingsCounted`: a second `tx cores` line replaces its list and adds to the count.
  `PrefixKept`: a gateway named behind the address makes the prefix 32.
  `NobodyForgotten`: of two masters the file is accepted with, the last one counts; the
  set-up then refuses the other ("Failed to enable lcore").
  `SubModeKept`, `CrashesKnown`: the mode must come before and only once.
  `OverrunsKnown`: arrays for `random`, ranges and dpi arguments are not checked.
* `TakenInTime`: "If all the following conditions are met, the ring can be optimized
  away" (`main.c:596`): none of them looks at how often the feeding task calls `tx_pkt`,
  and each call of `tx_pkt_self` writes over what the same `handle_bulk` has passed on.
* `QuietChangeApplies`: the start takes handler and queue from the configuration but
  leaves `delay_us` and `random_delay_us` 0; `proba delay` raises the flag, and the
  task then chooses its handler from them: the configured delay is gone.
* `AnswersReach`: the second packet of a new flow in a burst leaves with the port that was
  given back, not with the flow's, in spite of "Race condition properly handled: port
  alrerady added" (`Repeated`); a flow that the table of answers refused keeps its
  entry in the other one, with a port that is free again ("TODO: remove from
  private_ip_port_hash"); and the first packet of a new flow from an address
  of which a port is mapped by configuration is sent from address 0
  (`private_ip_info` of such an address is never filled; both in `Astray`).
* `LinesReadOnce`, `EndsKnown`: a header such as `[core -]`, whose characters are valid but
  which is no list, panics (`cfgfile.c:209`); after one that runs backwards (`[core 2-1]`)
  the lines go to the first number of the section before. `RangesAsWritten`: a range is
  cut at its first dash, so that "-3-5" begins at 0.
* `WholePorts`, `PlacesOverrun`: the queues of the ports that are read whole are counted in
  a byte and without those of the task's other ports, so that a task may be given
  more places than it has; the search also reads places that name no port
  (`main.c:338`), after which nothing is known (phase "astray").
* `FatalCommandsKnown`, `RightTasksTold`: `local ip` for a task that does not exist, after
  the tasks before it were told (`gateway ip` tells those that are in l3 mode); bypass next to an
  optimised ring. `ReconnectUndoes`: tasks bypassed one inside the other must be
  put back in the opposite order. `MasksShown`: `set cache class` leaves the
  statistics with the old class.
* `SegmentsAllowed`, `FreedAtOnce`, `FreedOnce`: an offload asked for by one task
  holds for all of a port, unless the last mask of disabled ones has it; a pool shared by a socket is freed once per task.
* `TwinsPaired`, `OffloadsAsked`, `PrefixKnown`: a virtual device's number may have
  a section of its own; jumbo frames and receive side scaling are never switched
  off again; an address without prefix counts as one with none.

Met in reading, outside what a property states: `arp add`, `rule add` and
`route add` refuse every argument (the test of the rest of the line is the wrong
way round, `cmd_parser.c:936`); `parse_ip6` refuses "::1" and accepts addresses that are
too short; `tx_pkt_l3` and `tx_pkt_ndp` pass the outputs of the whole burst with a
later part of it (`tx_pkt.c:135`); packets kept by `tx_pkt_ndp` are never sent;
`record_request` at its limit blocks an address for ever; `task_set_gateway_ip`
clears a flag in another word than the one tested; events of the kernel are
ignored while no request waits; the descriptor of a client that closed its
connection stays open (`input_conn.c:133`). Modelled as it is and part of what the
properties allow: an echo request behind tags or labels is answered with the reply's
fields written into the time to live, protocol and addresses of the wrong header
(`handle_swap.c:111`, `EchoReply`); a client whose `accept` failed keeps its place, is
put into `FD_SET` with -1, which is undefined (it counts as ready or not), and each read
that fails counts as a sign of life (`input_conn.c:139`): it stays until the heartbeat
runs out or the program ends.

## 9. Not modelled

* The drivers, hash tables, LPM, meters, schedulers and crypto devices of DPDK, used
  as what they promise or as any outcome; checksums and payloads.
* Display, log and curses (`display*.c`, `log.c`, `input_curses.c`, `clock.c`,
  `cdf.c`): formatting and output. The paths of `stats_parser.c` and statistics of
  ports, rings, pools and flows: they name or copy what others count.
* Tables in Lua (`prox_lua*.c`): a conversion of data, once, in one thread.
* `thread_nop` (the loop without timers) and `thread_pipeline`, which `main.c:91-119`
  does not let be used.
* IPv6 variants of the BNG modes, GRE alone, `lb_5tuple`, NAT without ports: the same
  as what is modelled, or a lookup in a table that never changes.
* Rapid scripts: remote control from another machine.
* `-z`, with which the program stops after the set-up, without its checks. The flag for
  segments is set in `task_init`, which tasks of a mode share (`main.c:383`); `Ports`
  keeps it for each task. The shares of packets that impair drops and duplicates are
  free. A second `encapnsh` behind the first is not chained.
* `SetUp` makes rings for single readers only and leaves out those made shared for
  the bypass; `Hooks` has one task per core, although the commands that count apply
  to all tasks of a core.
* The split of a burst in `tx_pkt_l3`, `start_l3` within the processing of a packet,
  the key-value store of fm: see 2.
