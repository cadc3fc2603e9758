------------------------------- MODULE Stats -------------------------------
(***************************************************************************)
(* Statistics (stats*.c, handle_irq.c, the measurements of handle_lat.c).  *)
(* Workers count; the master reads the counters one after the other while  *)
(* they change, keeps the last two samples and adds their differences up.  *)
(* A counter is read by a single access; an update takes many.  A latency  *)
(* measurement has two halves: the worker fills one, the master takes the  *)
(* other.                                                                  *)
(***************************************************************************)
EXTENDS Integers, FiniteSets, SequencesExt, FiniteSetsExt, Functions

CONSTANTS
  StWrap,       \* number of values of a counter of a worker
  StMaxPackets, \* bound: packets that are received
  StMaxUpdates, \* bound: updates
  StMaxResets,  \* bound: resets of the statistics
  StIrqs,       \* lengths of interruptions
  StLogEntries, \* entries of the log of statistics
  StLogRecords, \* records in the buffer of the log
  StMaxRmid     \* the last identifier that the hardware has for a core

ASSUME StAssumption ==
  /\ {StWrap, StMaxPackets, StMaxUpdates, StLogEntries, StLogRecords, StMaxRmid} \subseteq Nat \ {0}
  /\ StMaxResets \in Nat /\ StIrqs \subseteq Nat \ {0} /\ IsFiniteSet(StIrqs) /\ StLogEntries <= StLogRecords

VARIABLES
  st_cfg,   \* tasks of every core, statistics that somebody consumes, start of the average
  st_work,  \* what workers counted: rx and tx of tasks, packets of a latency task, interruptions
  st_left,  \* what the master still does in this update
  st_mem,   \* samples, totals and what the rest of the program is shown
  st_lat,   \* the two halves of a measurement, and the master's copy
  st_n      \* updates, resets and ghosts: packets at the reset, what was cleared
st_vars == <<st_cfg, st_work, st_left, st_mem, st_lat, st_n>>

----------------------------------------------------------------------------
(* Tasks: [mode, in, out], in and out when it reads and writes rings.        *)
TaskIds == {<<c, t>> \in (1 .. 9) \X (1 .. 9) : c \in DOMAIN st_cfg.cores /\ t \in DOMAIN st_cfg.cores[c]}
TaskAt(x) == st_cfg.cores[x[1]][x[2]]
Earlier(a, b) == a[1] < b[1] \/ (a[1] = b[1] /\ a[2] < b[2])
Ordered(S) == SetToSortSeq(S, Earlier)

\* Tasks between ports come first, then those that send to ports, those that receive
\* from ports, and those that work inside.
stats_task_init ==
  LET kind(in, out) == Ordered({x \in TaskIds : TaskAt(x).in = in /\ TaskAt(x).out = out})
  IN kind(FALSE, FALSE) \o kind(TRUE, FALSE) \o kind(FALSE, TRUE) \o kind(TRUE, TRUE)
HostRx == {x \in TaskIds : ~TaskAt(x).in}
HostTx == {x \in TaskIds : ~TaskAt(x).out}
OfMode(m) == Ordered({x \in TaskIds : TaskAt(x).mode = m})

\* The entries of the log: the cores whose first task is a plain L4 generator, and the
\* place where each entry looks for connections.
stats_cons_log_init ==
  LET logged == {x \in TaskIds : TaskAt(<<x[1], 1>>).mode = "genl4"}
      entries == Ordered(logged)
  IN SubSeq(entries, 1, IF Len(entries) < StLogEntries THEN Len(entries) ELSE StLogEntries)
stats_l4gen_init == Ordered({x \in TaskIds : TaskAt(x).mode \in {"genl4", "genl4 server"}})

\* Identifiers for the cores, from the last downwards.
stats_lcore_init == [c \in DOMAIN st_cfg.cores |-> (StMaxRmid - (c - 1)) % 1000]

StInit(configurations) ==
  /\ st_cfg \in configurations
  /\ st_work = [rx |-> [x \in TaskIds |-> 0], tx |-> [x \in TaskIds |-> 0], irq |-> 0, lat |-> 0]
  /\ st_left = <<>>
  /\ st_mem = [last |-> 0,
               rx |-> [x \in TaskIds |-> <<0, 0>>], tx |-> [x \in TaskIds |-> <<0, 0>>],
               tot_rx |-> [x \in TaskIds |-> 0], tot_tx |-> [x \in TaskIds |-> 0],
               host |-> [rx |-> 0, tx |-> 0, tsc |-> 0],
               beg |-> [rx |-> 0, tx |-> 0, tsc |-> st_cfg.avg_start], started |-> FALSE,
               irq |-> 0, max_irq |-> 0, buf |-> 0, written |-> 0]
  /\ st_lat = [use |-> 0, using |-> 0, lt |-> <<0, 0>>, burst |-> FALSE, remote |-> 0, copy |-> 0, tot |-> 0]
  /\ st_n = [updates |-> 0, resets |-> 0, tsc |-> 0, inside |-> 0, gone |-> 0, worst |-> 0, cleared |-> FALSE]

----------------------------------------------------------------------------
(* Workers.                                                                  *)
Total(count, S) == FoldFunctionOnSet(+, 0, count, S)
InRings == Total(st_work.tx, TaskIds \ HostTx) - Total(st_work.rx, TaskIds \ HostRx)
Inside == Total(st_work.rx, HostRx) - Total(st_work.tx, HostTx)

\* Bound: fewer than StWrap packets are counted between two reads of a counter.
LastRead(field, x) ==
  st_mem[field][x][IF <<field, x>> \in Range(st_left) THEN 2 - st_mem.last ELSE st_mem.last + 1]
MayCount(field, x) == (st_work[field][x] + 1 - LastRead(field, x)) % StWrap # 0

\* A packet is received and counted; the previous one has left the task.
Receive(x) ==
  /\ MayCount("rx", x)
  /\ "tasks" \in st_cfg.flags
  /\ st_work.rx[x] = st_work.tx[x]
  /\ IF x \in HostRx THEN Total(st_work.rx, HostRx) < StMaxPackets ELSE InRings > 0
  /\ st_work' = [st_work EXCEPT !.rx[x] = @ + 1]
  /\ UNCHANGED <<st_cfg, st_left, st_mem, st_lat, st_n>>
Transmit(x) ==
  /\ st_work.rx[x] > st_work.tx[x] /\ MayCount("tx", x)
  /\ st_work' = [st_work EXCEPT !.tx[x] = @ + 1]
  /\ UNCHANGED <<st_cfg, st_left, st_mem, st_lat, st_n>>

\* An interruption was noticed; the ghost remembers the longest that is not reported.
update_irq_stats(length) ==
  /\ "irq" \in st_cfg.flags /\ length > st_work.irq
  /\ st_work' = [st_work EXCEPT !.irq = length]
  /\ st_n' = [st_n EXCEPT !.worst = IF length > @ THEN length ELSE @]
  /\ UNCHANGED <<st_cfg, st_left, st_mem, st_lat>>

\* A burst of packets with latencies begins: the worker changes to the half it should use.
task_lat_update_lat_test ==
  /\ "latency" \in st_cfg.flags /\ ~st_lat.burst
  /\ st_lat' = [st_lat EXCEPT !.using = st_lat.use, !.burst = TRUE]
  /\ UNCHANGED <<st_cfg, st_work, st_left, st_mem, st_n>>
handle_lat_bulk ==
  /\ st_lat.burst
  /\ \/ /\ st_work.lat < StMaxPackets
        /\ st_work' = [st_work EXCEPT !.lat = @ + 1]
        /\ st_lat' = [st_lat EXCEPT !.lt[st_lat.using + 1] = @ + 1]
     \/ st_lat' = [st_lat EXCEPT !.burst = FALSE] /\ UNCHANGED st_work
  /\ UNCHANGED <<st_cfg, st_left, st_mem, st_n>>

----------------------------------------------------------------------------
(* The master.  TX is read before RX.                                        *)
\* Mutant: RX is read before TX.
stats_task_update_rx_first ==
  FlattenSeq([i \in DOMAIN stats_task_init |-> <<<<"rx", stats_task_init[i]>>, <<"tx", stats_task_init[i]>>>>])
stats_task_update ==
  FlattenSeq([i \in DOMAIN stats_task_init |-> <<<<"tx", stats_task_init[i]>>, <<"rx", stats_task_init[i]>>>>])
Steps ==
  (IF "tasks" \in st_cfg.flags THEN stats_task_update ELSE <<>>)
    \o (IF "latency" \in st_cfg.flags THEN <<<<"fetch">>, <<"combine">>, <<"swap">>>> ELSE <<>>)
    \o (IF "irq" \in st_cfg.flags THEN <<<<"irq">>>> ELSE <<>>)
    \o (IF "tasks" \in st_cfg.flags THEN <<<<"totals">>>> ELSE <<>>)
    \o (IF "irq" \in st_cfg.flags THEN <<<<"irq max">>, <<"irq clear">>>> ELSE <<>>)
    \o <<<<"notify">>>>

stats_update ==
  /\ st_left = <<>> /\ st_n.updates < StMaxUpdates
  /\ st_left' = Steps
  /\ st_mem' = [st_mem EXCEPT !.last = 1 - @]
  /\ st_n' = [st_n EXCEPT !.updates = @ + 1, !.tsc = @ + 1]
  /\ UNCHANGED <<st_cfg, st_work, st_lat>>

NextStep(step) == st_left # <<>> /\ Head(st_left)[1] = step
Done(n) == st_left' = SubSeq(st_left, n + 1, Len(st_left))
Latest(sample) == sample[st_mem.last + 1]
Previous(sample) == sample[2 - st_mem.last]

sample_read(field) ==
  LET x == Head(st_left)[2]
  IN /\ NextStep(field) /\ Done(1)
     /\ st_mem' = [st_mem EXCEPT ![field][x][st_mem.last + 1] = st_work[field][x] % StWrap]
     /\ UNCHANGED <<st_cfg, st_work, st_lat, st_n>>

\* What was counted between two samples: counters go round.
Difference(sample) == (Latest(sample) - Previous(sample)) % StWrap
stats_task_post_proc(totals, samples) == [x \in TaskIds |-> totals[x] + Difference(samples[x])]

\* The sums over the ports of the host; the first that is late enough starts the average.
stats_global_post_proc ==
  LET tot_rx == stats_task_post_proc(st_mem.tot_rx, st_mem.rx)
      tot_tx == stats_task_post_proc(st_mem.tot_tx, st_mem.tx)
      host == [rx |-> Total(tot_rx, HostRx), tx |-> Total(tot_tx, HostTx), tsc |-> st_n.tsc]
      starts == host.tsc > st_mem.beg.tsc /\ ~st_mem.started
  IN /\ NextStep("totals") /\ Done(1)
     /\ st_mem' = [st_mem EXCEPT !.tot_rx = tot_rx, !.tot_tx = tot_tx, !.host = host,
                                 !.started = @ \/ starts, !.beg = IF starts THEN host ELSE @]
     /\ UNCHANGED <<st_cfg, st_work, st_lat, st_n>>

\* The half that the worker does not use, if it has changed since the last time.
task_lat_get_latency_meassurement(lat) == lat.use = lat.using
stats_latency_fetch_entry ==
  /\ NextStep("fetch")
  /\ IF task_lat_get_latency_meassurement(st_lat)
     THEN LET remote == 2 - st_lat.using
          IN st_lat' = [st_lat EXCEPT !.remote = remote, !.copy = @ + st_lat.lt[remote]] /\ Done(1)
     ELSE UNCHANGED st_lat /\ Done(3)
  /\ UNCHANGED <<st_cfg, st_work, st_mem, st_n>>
lat_test_combine ==
  /\ NextStep("combine") /\ Done(1)
  /\ st_lat' = [st_lat EXCEPT !.lt[st_lat.remote] = 0, !.tot = @ + st_lat.copy, !.copy = 0]
  /\ UNCHANGED <<st_cfg, st_work, st_mem, st_n>>
task_lat_use_other_latency_meassurement ==
  /\ NextStep("swap") /\ Done(1)
  /\ st_lat' = [st_lat EXCEPT !.use = 1 - st_lat.using]
  /\ UNCHANGED <<st_cfg, st_work, st_mem, st_n>>

\* The longest interruption: sampled, added to the maximum, and cleared at the worker.
stats_irq_update ==
  /\ NextStep("irq") /\ Done(1)
  /\ st_mem' = [st_mem EXCEPT !.irq = st_work.irq]
  /\ UNCHANGED <<st_cfg, st_work, st_lat, st_n>>
stats_irq_post_proc ==
  /\ \/ /\ NextStep("irq max") /\ st_mem' = [st_mem EXCEPT !.max_irq = IF @ < st_mem.irq THEN st_mem.irq ELSE @]
        /\ UNCHANGED <<st_work, st_n>>
     \/ /\ NextStep("irq clear") /\ st_work' = [st_work EXCEPT !.irq = 0]
        /\ st_n' = [st_n EXCEPT !.cleared = @ \/ st_work.irq > st_mem.irq]
        /\ UNCHANGED st_mem
  /\ Done(1) /\ UNCHANGED <<st_cfg, st_lat>>

\* The log takes a record of every entry; a full buffer is written first.
stats_cons_log_notify ==
  LET n == Len(stats_cons_log_init)
      full == st_mem.buf + n > StLogRecords
  IN /\ NextStep("notify") /\ Done(1)
     /\ st_mem' = [st_mem EXCEPT !.buf = (IF full THEN 0 ELSE @) + n,
                                 !.written = IF full THEN @ + st_mem.buf ELSE @]
     /\ UNCHANGED <<st_cfg, st_work, st_lat, st_n>>

stats_reset ==
  /\ st_left = <<>> /\ st_n.resets < StMaxResets
  /\ st_mem' = [st_mem EXCEPT !.tot_rx = [x \in TaskIds |-> 0], !.tot_tx = [x \in TaskIds |-> 0], !.max_irq = 0,
                              !.host = [rx |-> 0, tx |-> 0, tsc |-> st_mem.host.tsc], !.started = FALSE,
                              !.beg = [rx |-> 0, tx |-> 0, tsc |-> st_n.tsc]]
  /\ st_lat' = [st_lat EXCEPT !.tot = 0]
  /\ st_n' = [st_n EXCEPT !.resets = @ + 1, !.gone = st_lat.tot + @, !.worst = st_work.irq,
                          !.inside = @ + st_mem.host.rx - st_mem.host.tx]
  /\ UNCHANGED <<st_cfg, st_work, st_left>>

StNext ==
  \/ \E x \in TaskIds : Receive(x) \/ Transmit(x)
  \/ \E length \in StIrqs : update_irq_stats(length)
  \/ task_lat_update_lat_test \/ handle_lat_bulk
  \/ stats_update \/ \E field \in {"tx", "rx"} : sample_read(field)
  \/ stats_global_post_proc
  \/ stats_latency_fetch_entry \/ lat_test_combine \/ task_lat_use_other_latency_meassurement
  \/ stats_irq_update \/ stats_irq_post_proc \/ stats_cons_log_notify \/ stats_reset

----------------------------------------------------------------------------
AtRest == st_left = <<>>

\* Nothing is shown to be sent that was not received: TX is read before RX, and tasks
\* in the order of the packets (stats_task.c:158-160); after a reset, packets that were
\* inside are sent.
NoNegativeLoss == st_mem.host.tx <= st_mem.host.rx + st_n.inside

\* Totals are what was counted when the counters were read, although the counters go
\* round (stats_task.c:121-139).
TotalsTrue ==
  st_n.resets = 0 /\ AtRest => \A x \in TaskIds :
    /\ st_work.rx[x] - st_mem.tot_rx[x] = (st_work.rx[x] - Latest(st_mem.rx[x])) % StWrap
    /\ st_work.tx[x] - st_mem.tot_tx[x] = (st_work.tx[x] - Latest(st_mem.tx[x])) % StWrap

\* The average is taken over a time in which the totals grow (stats_global.c:94-111).
AverageGrows ==
  st_mem.started => /\ st_mem.beg.rx <= st_mem.host.rx /\ st_mem.beg.tx <= st_mem.host.tx
                    /\ st_mem.beg.tsc <= st_mem.host.tsc

\* Every packet with a latency is in exactly one half, or in the total (handle_lat.c:155-174).
MeasurementsKept == st_lat.lt[1] + st_lat.lt[2] + st_lat.tot + st_n.gone = st_work.lat

\* The longest interruption is reported, unless it came between the sample and the
\* clearing of the maximum, which the worker does not know of (stats_irq.c:64-81).
MaximumKept ==
  AtRest /\ ~st_n.cleared => st_n.worst <= st_mem.max_irq \/ st_n.worst <= st_work.irq

\* The log has every record once, and reads the connections of the task it names, as
\* long as all L4 generators are plain ones on cores of their own (stats_cons_log.c).
LogComplete ==
  LET log == stats_cons_log_init
  IN /\ AtRest => st_mem.buf + st_mem.written = st_n.updates * Len(log) /\ st_mem.buf <= StLogRecords
     /\ (\A x \in TaskIds : TaskAt(x).mode \in {"genl4", "genl4 server"} <=> TaskAt(<<x[1], 1>>).mode = "genl4")
        /\ (\A x \in TaskIds : TaskAt(x).mode # "genl4 server")
          => \A i \in DOMAIN log : stats_l4gen_init[i] = log[i]

\* Every core has an identifier of its own, as long as the hardware has enough.
CoresTold ==
  Len(st_cfg.cores) <= StMaxRmid => IsInjective(stats_lcore_init) /\ 0 \notin Range(stats_lcore_init)

\* Statistics: what is shown agrees with what was counted.
CountersSound ==
  /\ NoNegativeLoss /\ TotalsTrue /\ AverageGrows /\ MeasurementsKept
  /\ MaximumKept /\ LogComplete /\ CoresTold
=============================================================================
