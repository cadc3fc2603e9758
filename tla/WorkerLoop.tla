----------------------------- MODULE WorkerLoop -----------------------------
(***************************************************************************)
(* One pass after the other of thread_generic over the tasks of a core,    *)
(* and the packets that tasks of the core hand to each other without a     *)
(* ring: a ring from task t - 1 to task t of one core may be "optimized    *)
(* away" (init_ring_between_tasks), in which case the sender leaves its    *)
(* packets in a working set that both tasks share (tx_pkt_self,            *)
(* tx_pkt_never_discard_self) and the receiver finds them there            *)
(* (rx_pkt_self).                                                          *)
(*                                                                         *)
(* The loop keeps its arrays tasks[], next[] and zero_rx[] per position in *)
(* the run list.  CoreControl models where the run list comes from; here a *)
(* message installs any of the lists RunLists.                             *)
(***************************************************************************)
EXTENDS Integers, Sequences

CONSTANTS
  n_tasks_all,  \* tasks of the core
  OptRing,      \* tasks whose ring was optimized away: tx_opt_ring_task # NULL
  ZeroRx,       \* tasks with TASK_FEATURE_ZERO_RX
  RunLists,     \* run lists a START or STOP may leave
  Burst,        \* packets of one receive call at most
  Calls         \* calls of tx_pkt in one handle_bulk of a task at most: one
                \* for most modes; the L4 generator, the mirror with a
                \* multiplier and ESP make several

Tasks == 0 .. (n_tasks_all - 1)

ASSUME WorkerLoopAssumption ==
  /\ n_tasks_all \in Nat \ {0}
  /\ OptRing \subseteq Tasks \ {0}
  /\ ZeroRx \subseteq Tasks
  /\ \A r \in RunLists : r \in Seq(Tasks)
  /\ Burst \in Nat \ {0}
  /\ Calls \in [Tasks -> Nat]

Positions == 1 .. n_tasks_all

VARIABLES
  tasks,    \* the local copy of the run list
  next,     \* next[]: the task at this position asked for a pause
  zero_rx,  \* zero_rx[]: the positions whose entry is set
  pos,      \* the position the pass has reached
  nb_rx,    \* ws_mbuf->idx[0].nb_rx of each optimized ring
  handled   \* the last call of handle_bulk, or of nothing: its task, the
            \* packets it got, and which packets it wrote over: those of an
            \* earlier call, or its own

loop_vars == <<tasks, next, zero_rx, pos, nb_rx, handled>>

NoBulk == [task |-> -1, n |-> 0, lost |-> {}]

\* The thread has just been launched and handles its first START.
Fresh(run) ==
  /\ tasks' = run
  /\ next' = [p \in Positions |-> 0]
  /\ zero_rx' = {p \in 1 .. Len(run) : run[p] \in ZeroRx}

LoopInit ==
  /\ tasks \in RunLists
  /\ next = [p \in Positions |-> 0]
  /\ zero_rx = {p \in 1 .. Len(tasks) : tasks[p] \in ZeroRx}
  /\ pos = 1
  /\ nb_rx = [t \in OptRing |-> 0]
  /\ handled = NoBulk

\* The packets task t receives: those left for it, or some from outside.
Received(t) == IF t \in OptRing THEN {nb_rx[t]} ELSE 0 .. Burst

AfterRx(t) == IF t \in OptRing THEN [nb_rx EXCEPT ![t] = 0] ELSE nb_rx

\* Packets task t can pass on in one call of tx_pkt, having received n.
Passable(t, n) == IF t \in ZeroRx THEN 0 .. Burst ELSE 0 .. n

\* tx_pkt of task t, once with sent[1] packets, then with sent[2], and so on.
\* Each call counts from the start of the working set: what the next task has
\* not taken yet is written over, be it from before or from the call just made.
tx_pkt_self(t, n, sent) ==
  LET k == Len(sent) IN
  IF k > 0 /\ t + 1 \in OptRing
  THEN /\ nb_rx' = [AfterRx(t) EXCEPT ![t + 1] = sent[k]]
       /\ handled' = [task |-> t, n |-> n,
            lost |-> {whose \in {"earlier", "own"} :
                        IF whose = "earlier" THEN nb_rx[t + 1] # 0
                        ELSE \E i \in 1 .. (k - 1) : sent[i] # 0}]
  ELSE /\ nb_rx' = AfterRx(t)
       /\ handled' = [task |-> t, n |-> n, lost |-> {}]

\* handle_bulk of task t with n packets: it keeps or drops some, passes the
\* rest on, and may ask to be passed over next time.
handle_bulk(p, t, n) ==
  /\ \E busy \in {0, 1} : next' = [next EXCEPT ![p] = busy]
  /\ \E k \in 0 .. Calls[t] : \E sent \in [1 .. k -> Passable(t, n)] :
       tx_pkt_self(t, n, sent)

\* Mutant: the receiver of an optimized ring is passed over like any task.
PassedAny(p) == next[p] # 0

\* targ = &lconf->targs[task_id] is indexed with the position.
Passed(p) == next[p] # 0 /\ (p - 1) \notin OptRing

\* Mutant: the request for a pause is never cleared.
pass_over_again(p) == UNCHANGED next
pass_over(p) == next' = [next EXCEPT ![p] = 0]

Step ==
  /\ pos <= Len(tasks)
  /\ LET t == tasks[pos] IN
     IF Passed(pos)
     THEN pass_over(pos) /\ handled' = NoBulk /\ UNCHANGED nb_rx
     ELSE \E n \in Received(t) :
            IF n > 0 \/ pos \in zero_rx
            THEN handle_bulk(pos, t, n)
            ELSE nb_rx' = AfterRx(t) /\ handled' = NoBulk /\ UNCHANGED next
  /\ pos' = pos + 1
  /\ UNCHANGED <<tasks, zero_rx>>

\* The pass is over; another one starts.
Wrap ==
  /\ pos > Len(tasks)
  /\ pos' = 1 /\ handled' = NoBulk
  /\ UNCHANGED <<tasks, next, zero_rx, nb_rx>>

\* tsc_term returned -2 and tasks are left to run: the entries of zero_rx[]
\* are set and never cleared, those of next[] stay.
LoopReload(run) ==
  /\ pos > Len(tasks) /\ run # <<>>
  /\ tasks' = run
  /\ zero_rx' = zero_rx \cup {p \in 1 .. Len(run) : run[p] \in ZeroRx}
  /\ pos' = 1 /\ handled' = NoBulk
  /\ UNCHANGED <<next, nb_rx>>

\* No task is left: the thread returns; it comes back with the next START.
LoopRelaunch(run) ==
  /\ pos > Len(tasks)
  /\ Fresh(run)
  /\ pos' = 1 /\ handled' = NoBulk
  /\ UNCHANGED nb_rx

BetweenPasses == Wrap \/ \E run \in RunLists : LoopReload(run) \/ LoopRelaunch(run)

LoopNext == Step \/ BetweenPasses

LoopSpec == LoopInit /\ [][LoopNext]_loop_vars
LoopFairSpec == LoopSpec /\ WF_loop_vars(Step) /\ WF_loop_vars(BetweenPasses)

-----------------------------------------------------------------------------
(***************************************************************************)
(* Properties.                                                             *)
(***************************************************************************)

\* Types of all variables: the arrays have one entry per configured task, and
\* no more packets are left in a working set than a burst holds.
LoopTypeOK ==
  /\ tasks \in Seq(Tasks) /\ Len(tasks) <= n_tasks_all
  /\ next \in [Positions -> {0, 1}]
  /\ zero_rx \subseteq Positions
  /\ pos \in 1 .. (n_tasks_all + 1)
  /\ nb_rx \in [OptRing -> 0 .. Burst]
  /\ handled \in [task : Tasks \cup {-1}, n : 0 .. Burst, lost : SUBSET {"earlier", "own"}]

\* "Do not skip a task receiving packets from an optimized ring as the
\* transmitting task expects such a receiving task to always run and consume
\* the transmitted packets" (thread_generic): no packet left for a running
\* task is written over.
NothingOverwritten == handled.lost = {}

\* A task that calls tx_pkt again in the same handle_bulk writes over its own
\* packets. That apart, what was left for a task is there when it takes it.
TakenInTime == "earlier" \notin handled.lost

\* Packets wait in a shared working set only during the pass that put them
\* there: a STOP, which comes between two passes, leaves none behind.
HandedOverInOnePass ==
  pos > Len(tasks) => \A t \in OptRing : nb_rx[t] = 0

\* Both: an optimized ring keeps no packets, and loses none between two calls of
\* handle_bulk.
HandoverSound == TakenInTime /\ HandedOverInOnePass

\* A task that is busy is passed over at most every second time: every
\* position of the run list is served again and again.
Served(p) == pos = p /\ ~ Passed(p)
EveryTaskServed == \A p \in Positions : []<>(p <= Len(tasks) => Served(p))

-----------------------------------------------------------------------------
(***************************************************************************)
(* What the loop silently relies on, and the inductive invariant from      *)
(* which, under the first two conditions on what is started and stopped,   *)
(* HandoverSound is proved in Worker_proofs; under the third one, on the   *)
(* modes, nothing is written over at all.                                  *)
(***************************************************************************)

\* Every running task is at the position it has in the configuration.
InPlace == \A run \in RunLists : \A p \in 1 .. Len(run) : run[p] = p - 1

\* A task whose output is an optimized ring runs with the task it feeds.
FedRuns == \A run \in RunLists : \A t \in OptRing : Len(run) # t

\* A task whose output is an optimized ring calls tx_pkt at most once.
FeedersSendOnce == \A t \in OptRing : Calls[t - 1] <= 1

\* Packets wait only for the task that is served next.
WaitsForNext ==
  \A t \in OptRing : nb_rx[t] # 0 => pos = t + 1 /\ pos <= Len(tasks)

Positioned ==
  /\ tasks \in RunLists
  /\ pos \in 1 .. (Len(tasks) + 1)
  /\ nb_rx \in [OptRing -> Nat]

LoopIInv ==
  /\ Positioned /\ WaitsForNext /\ TakenInTime
  /\ FeedersSendOnce => NothingOverwritten

=============================================================================
