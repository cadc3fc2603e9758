------------------------------- MODULE SetUp -------------------------------
(***************************************************************************)
(* From a configuration to running tasks (prox_args.c, main.c,             *)
(* task_init.c): the outputs of tasks are checked, tasks are linked to     *)
(* those before them, rings are made or optimised away, and each task gets *)
(* its functions; module Ports is about the queues.  Any step may refuse   *)
(* the configuration.  One that is accepted then runs: a task that may not *)
(* drop packets waits in the middle of its transmission until its receiver *)
(* has made room.                                                          *)
(***************************************************************************)
EXTENDS Integers, FiniteSets, SequencesExt, Functions

CONSTANTS
  SuTasks,     \* worker tasks, pairs of a core and a number
  SuProtocols, \* number of lists of destinations of a task
  SuMaxLinks,  \* bound: links between tasks in a configuration
  SuMaxRings,  \* rings a task may read from
  SuRingSize   \* bound: packets in a ring

ASSUME SuAssumption ==
  /\ IsFiniteSet(SuTasks) /\ SuTasks \subseteq (0 .. 9) \X (0 .. 9)
  /\ SuProtocols \in 1 .. 3 /\ {SuMaxLinks, SuMaxRings, SuRingSize} \subseteq Nat \ {0}

VARIABLES
  su_cfg,   \* what was read from the file
  su_phase, \* the step of set-up that is next, or how it ended
  su_made,  \* rings, and what every task reads from and writes to
  su_task,  \* what init_task_struct decided for every task
  su_run    \* the running program: rings, packets in hand, tasks that wait
su_vars == <<su_cfg, su_phase, su_made, su_task, su_run>>

CoreOf(t) == t[1]
SuCores == {CoreOf(t) : t \in SuTasks}
Before(a, b) == a[1] < b[1] \/ (a[1] = b[1] /\ a[2] < b[2])
TaskSeq == SetToSortSeq(SuTasks, Before)
None == 0
NoTask == <<>>

Link(from, proto, to) == [from |-> from, proto |-> proto, to |-> to]
AllLinks == {Link(f, p, t) : f \in SuTasks, p \in 0 .. SuProtocols - 1, t \in SuTasks}
LinkBefore(a, b) ==
  \/ Before(a.from, b.from)
  \/ a.from = b.from /\ (a.proto < b.proto \/ (a.proto = b.proto /\ Before(a.to, b.to)))

\* The links in the order in which the program visits them.
Links == SetToSortSeq(su_cfg.links, LinkBefore)
LinksFrom(t) == SelectSeq(Links, LAMBDA l : l.from = t)
LinksTo(t) == SelectSeq(Links, LAMBDA l : l.to = t)

nb_txrings(t) == Len(LinksFrom(t))
tot_rxrings(t) == Len(LinksTo(t))
prev_tasks(t) == [i \in 1 .. tot_rxrings(t) |-> LinksTo(t)[i].from]

----------------------------------------------------------------------------
(* A configuration: destinations, tasks that read a ring, transmit to a port,*)
(* may drop or have a feature, and whether rings may have several writers.   *)
SuInitFrom(configurations) ==
  /\ su_cfg \in configurations
  /\ su_phase = "read"
  /\ su_made = [rings |-> <<>>, reads |-> [t \in SuTasks |-> <<>>], writes |-> [t \in SuTasks |-> <<>>],
                optimised |-> {}]
  /\ su_task = [ws |-> [t \in SuTasks |-> NoTask], tx |-> [t \in SuTasks |-> "none"]]
  /\ su_run = [ring |-> <<>>, hand |-> [t \in SuTasks |-> 0], at |-> [c \in SuCores |-> NoTask], waits |-> [c \in SuCores |-> None]]

SuBecome(phase) == su_phase' = phase

\* Every destination must expect a ring and have room for one more.
Expected(t) == t \in su_cfg.ring /\ tot_rxrings(t) <= SuMaxRings
calc_tot_rxrings ==
  /\ su_phase = "read"
  /\ SuBecome(IF \A l \in su_cfg.links : Expected(l.to) THEN "queues" ELSE "refused: not expected")
  /\ UNCHANGED <<su_cfg, su_made, su_task, su_run>>

\* Whether some task on the way to t has the feature, or lacks it.  The search
\* follows the links backwards and does not remember where it was.
Searched(t, want) ==
  LET search[d \in 0 .. Cardinality(SuTasks) + 1, u \in SuTasks] ==
        IF (u \in su_cfg.feature) = want THEN "yes"
        ELSE IF d = 0 THEN "never ends"
        ELSE LET results == [i \in DOMAIN prev_tasks(u) |-> search[d - 1, prev_tasks(u)[i]]]
                 told == SelectSeq(results, LAMBDA r : r # "no")
             IN IF told = <<>> THEN "no" ELSE Head(told)
  IN search[Cardinality(SuTasks) + 1, t]

\* The searches that decide about the offloads of the ports.
queues_configured ==
  /\ su_phase = "queues"
  /\ SuBecome(IF \E t \in su_cfg.port, want \in BOOLEAN : Searched(t, want) = "never ends"
            THEN "overflows the stack" ELSE "rings")
  /\ UNCHANGED <<su_cfg, su_made, su_task, su_run>>

----------------------------------------------------------------------------
(* Rings.                                                                    *)
Optimised(l) ==
  /\ CoreOf(l.from) = CoreOf(l.to) /\ l.from[2] = l.to[2] - 1 /\ l.proto = 0
  /\ nb_txrings(l.from) = 1 /\ tot_rxrings(l.to) = 1

Shared(l) == su_cfg.mp /\ tot_rxrings(l.to) > 1

\* What exists after one more link: a ring shared by its writers is made for the first.
init_ring_between_tasks(made, l) ==
  IF Optimised(l) THEN [made EXCEPT !.optimised = @ \cup {l}]
  ELSE LET existing == IF Shared(l) /\ made.reads[l.to] # <<>> THEN made.reads[l.to][1] ELSE None
           r == IF existing = None THEN Len(made.rings) + 1 ELSE existing
       IN [made EXCEPT !.rings = IF existing = None THEN Append(@, [sp |-> ~Shared(l)]) ELSE @,
                       !.reads[l.to] = IF existing = None THEN Append(@, r) ELSE @,
                       !.writes[l.from] = Append(@, r)]

init_rings ==
  /\ su_phase = "rings"
  /\ su_made' = FoldLeft(init_ring_between_tasks, su_made, Links)
  /\ SuBecome("checks")
  /\ UNCHANGED <<su_cfg, su_task, su_run>>

\* A task that expects a ring must have one.
check_missing_rx ==
  /\ su_phase = "checks"
  /\ SuBecome(IF \E t \in su_cfg.ring : su_made.reads[t] = <<>> /\ ~\E l \in su_made.optimised : l.to = t
            THEN "refused: nobody transmits" ELSE "tasks")
  /\ UNCHANGED <<su_cfg, su_made, su_task, su_run>>

----------------------------------------------------------------------------
(* The functions and the working sets of the tasks.                          *)
tx_opt_ring(t) == \E l \in su_made.optimised : l.from = t
tx_opt_ring_task(t) == {l.from : l \in {k \in su_made.optimised : k.to = t}}

\* Mutant: no configuration is called a potential deadlock.
no_drop_refused_never(t) == FALSE

\* The first destinations, with as many places read as the task has outputs of any list.
LooksAt(t) ==
  LET first == SelectSeq(LinksFrom(t), LAMBDA l : l.proto = 0)
  IN [j \in 1 .. nb_txrings(t) |-> IF j <= Len(first) THEN CoreOf(first[j].to) ELSE 0]
no_drop_refused(t) ==
  /\ nb_txrings(t) # 0 /\ ~tx_opt_ring(t) /\ t \notin su_cfg.drop
  /\ \E j \in DOMAIN LooksAt(t) : LooksAt(t)[j] = CoreOf(t)

\* The tasks whose optimised rings end, one after the other, in t.
FeedsInto(t) ==
  LET feeders[d \in 0 .. Cardinality(SuTasks)] ==
        IF d = 0 THEN {t} ELSE feeders[d - 1] \cup UNION {tx_opt_ring_task(u) : u \in feeders[d - 1]}
  IN feeders[Cardinality(SuTasks)] \ {t}
HasBoth(t) == nb_txrings(t) # 0 /\ t \in su_cfg.port

\* A task that does not hand over has a working set and gives it to those before it.
ws_mbuf(t) ==
  IF ~tx_opt_ring(t) THEN t
  ELSE LET ends == {u \in SuTasks : ~tx_opt_ring(u) /\ ~HasBoth(u) /\ t \in FeedsInto(u)}
       IN IF ends = {} THEN NoTask ELSE CHOOSE u \in ends : TRUE

tx_pkt(t) ==
  IF nb_txrings(t) = 0 /\ t \notin su_cfg.port THEN "drop_all"
  ELSE IF tx_opt_ring(t) THEN "self"
  ELSE IF nb_txrings(t) = 0 THEN "hw1"
  ELSE IF nb_txrings(t) = 1 \/ t \in su_cfg.port THEN "sw1" ELSE "sw"

init_task_struct ==
  /\ su_phase = "tasks"
  /\ IF \E t \in SuTasks : no_drop_refused(t)
     THEN SuBecome("refused: potential deadlock") /\ UNCHANGED <<su_task, su_run>>
     ELSE /\ SuBecome("running")
          /\ su_task' = [ws |-> [t \in SuTasks |-> ws_mbuf(t)], tx |-> [t \in SuTasks |-> tx_pkt(t)]]
          /\ su_run' = [su_run EXCEPT !.ring = [r \in 1 .. Len(su_made.rings) |-> 0],
                                      !.at = [c \in SuCores |-> CHOOSE t \in SuTasks : CoreOf(t) = c /\ t[2] = 0]]
  /\ UNCHANGED <<su_cfg, su_made>>

----------------------------------------------------------------------------
(* Running.                                                                  *)
NextTask(t) == IF <<t[1], t[2] + 1>> \in SuTasks THEN <<t[1], t[2] + 1>> ELSE <<t[1], 0>>

\* The rings the transmit function of t may write to.
Targets(t) == IF su_task.tx[t] = "sw1" THEN {su_made.writes[t][1]} ELSE Range(su_made.writes[t])

\* A task takes a packet, from a ring, a port or the task before it, or finds none.
SuReceive(t, r) ==
  IF \E l \in su_made.optimised : l.to = t THEN r.hand[t] = 1
  ELSE t \notin su_cfg.ring \/ \E i \in Range(su_made.reads[t]) : r.ring[i] > 0
Emptied(t, r) ==
  IF t \in su_cfg.ring /\ Range(su_made.reads[t]) # {}
  THEN {[r EXCEPT !.ring[i] = @ - 1] : i \in {j \in Range(su_made.reads[t]) : r.ring[j] > 0}}
  ELSE {[r EXCEPT !.hand[t] = 0]}

Transmitted(t, r) ==
  LET c == CoreOf(t) goes_on == [r EXCEPT !.at[c] = NextTask(t)]
  IN CASE su_task.tx[t] = "self" -> {[goes_on EXCEPT !.hand[NextTask(t)] = 1]}
       [] su_task.tx[t] \in {"drop_all", "hw1"} -> {goes_on}
       [] OTHER -> {IF r.ring[i] < SuRingSize THEN [goes_on EXCEPT !.ring[i] = @ + 1]
                    ELSE IF t \in su_cfg.drop THEN goes_on ELSE [r EXCEPT !.waits[c] = i] : i \in Targets(t)}

task_step(c) ==
  LET t == su_run.at[c]
  IN /\ su_phase = "running" /\ su_run.waits[c] = None
     /\ IF su_task.tx[t] = "self" /\ su_task.ws[t] = NoTask /\ SuReceive(t, su_run)
        THEN SuBecome("crashes") /\ UNCHANGED su_run
        ELSE /\ UNCHANGED su_phase
             /\ su_run' \in IF SuReceive(t, su_run)
                            THEN UNION {Transmitted(t, r) : r \in Emptied(t, su_run)}
                            ELSE {[su_run EXCEPT !.at[c] = NextTask(t)]}
     /\ UNCHANGED <<su_cfg, su_made, su_task>>

\* A task in a transmission that may not drop tries again and again.
retry(c) ==
  LET i == su_run.waits[c]
  IN /\ su_phase = "running" /\ i # None /\ su_run.ring[i] < SuRingSize
     /\ su_run' = [su_run EXCEPT !.ring[i] = @ + 1, !.waits[c] = None, !.at[c] = NextTask(@)]
     /\ UNCHANGED <<su_cfg, su_phase, su_made, su_task>>

SuNext ==
  \/ calc_tot_rxrings \/ queues_configured \/ init_rings \/ check_missing_rx \/ init_task_struct
  \/ \E c \in SuCores : task_step(c) \/ retry(c)

----------------------------------------------------------------------------
ReaderOf(i) == CHOOSE t \in SuTasks : i \in Range(su_made.reads[t])
OtherList(t) == \E l \in su_cfg.links : l.from = t /\ l.proto # 0

\* The rings are those of the configuration (main.c:573-692): each link that was not
\* optimised away has its place, in order, in the outputs of its task and leads to its
\* destination; a ring without protection against several writers has one.
RingsAsConfigured ==
  su_phase \in {"checks", "tasks", "running"} =>
    /\ \A t \in SuTasks :
         LET kept == SelectSeq(LinksFrom(t), LAMBDA l : l \notin su_made.optimised)
         IN /\ Len(su_made.writes[t]) = Len(kept)
            /\ \A i \in DOMAIN kept : su_made.writes[t][i] \in Range(su_made.reads[kept[i].to])
    /\ \A i \in DOMAIN su_made.rings :
         /\ Cardinality({t \in SuTasks : i \in Range(su_made.reads[t])}) = 1
         /\ su_made.rings[i].sp =>
              Cardinality({<<t, j>> \in SuTasks \X (1 .. SuMaxLinks) :
                             j \in DOMAIN su_made.writes[t] /\ su_made.writes[t][j] = i}) = 1

\* A core waits for itself only over a list of destinations that
\* init_rx_tx_rings_ports does not look at (task_init.c:215-226).
WaitsForOthers ==
  \A c \in SuCores :
    su_phase = "running" /\ su_run.waits[c] # None /\ CoreOf(ReaderOf(su_run.waits[c])) = c
      => OtherList(su_run.at[c])

\* A configuration is called a potential deadlock only for a link that stays on its
\* core, or on core 0, where the places that are read beyond the list point.
RefusedForCause ==
  su_phase = "refused: potential deadlock" =>
    \E l \in su_cfg.links : l.from \notin su_cfg.drop /\ (CoreOf(l.to) = CoreOf(l.from) \/ (l.proto # 0 /\ CoreOf(l.from) = 0))

\* Set-up runs out of stack only where rings lead in a circle, and a hand-over has
\* nowhere to go only where the last task of a chain has rings and a port.
SetUpCrashesKnown ==
  /\ su_phase = "overflows the stack" =>
       \E circle \in SUBSET SuTasks \ {{}} : \A t \in circle : \E u \in Range(prev_tasks(t)) : u \in circle
  /\ su_phase = "crashes" => \E l \in su_made.optimised : HasBoth(l.to)

\* Set-up: rings, hand-overs and waits are as configured, and what goes wrong is known.
SetUpSound == RingsAsConfigured /\ WaitsForOthers /\ RefusedForCause /\ SetUpCrashesKnown
=============================================================================
