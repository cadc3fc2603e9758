------------------------------ MODULE TscTasks ------------------------------
(***************************************************************************)
(* The timers of a worker thread: the array tsc_tasks[] of thread_generic, *)
(* its initial sort, and the rescheduling of the timer that has just run.  *)
(*                                                                         *)
(* The array is kept in the order of the deadlines and next_tsc caches its *)
(* first entry.  The unused entries at its end, whose deadline is the      *)
(* largest 64-bit number, stop every scan; they are not represented.       *)
(***************************************************************************)
EXTENDS Integers, Sequences

CONSTANTS
  Optional,  \* which of the timers "period" and "ctrl" the tasks asked for
  Period,    \* cycles between two runs of each timer
  Steps,     \* cycles one iteration of the loop may take
  MinTsc,    \* bound: messages move no deadline before this time
  MaxTsc     \* bound: the loop is not followed beyond this time

Timers == {"term", "drain"} \cup Optional

ASSUME TscTasksAssumption ==
  /\ Optional \subseteq {"period", "ctrl"}
  /\ Period \in [Timers -> Nat \ {0}]
  /\ Steps \subseteq Nat
  /\ MinTsc \in Int /\ MaxTsc \in Int

VARIABLES
  cur_tsc,    \* the time read by this iteration
  tsc_tasks,  \* the timers, [tsc, tsc_task]
  next_tsc    \* copy of the first one

vars == <<cur_tsc, tsc_tasks, next_tsc>>

Entries == [tsc : Int, tsc_task : Timers]

Ordered(s) == \A i, j \in 1 .. Len(s) : i < j => s[i].tsc <= s[j].tsc
Complete(s) ==
  /\ \A t \in Timers : \E i \in 1 .. Len(s) : s[i].tsc_task = t
  /\ \A i, j \in 1 .. Len(s) : s[i].tsc_task = s[j].tsc_task => i = j

\* On entry the loop sorts the timers: the first message is looked for at
\* once, the others wait for a period.
FirstTsc == [t \in Timers |-> IF t = "term" THEN 0 ELSE Period[t]]

\* Mutant: the initial sort is left out.
Unsorted ==
  {order \in UNION {[1 .. n -> Timers] : n \in 2 .. 4} :
     /\ \A t \in Timers : \E i \in DOMAIN order : order[i] = t
     /\ \A i, j \in DOMAIN order : i < j => order[i] # order[j]}

Sorted ==
  {order \in UNION {[1 .. n -> Timers] : n \in 2 .. 4} :
     /\ \A t \in Timers : \E i \in DOMAIN order : order[i] = t
     /\ \A i, j \in DOMAIN order :
          i < j => order[i] # order[j] /\ FirstTsc[order[i]] <= FirstTsc[order[j]]}

Launch(now) ==
  {[i \in DOMAIN order |-> [tsc |-> now + FirstTsc[order[i]], tsc_task |-> order[i]]] :
     order \in Sorted}

Init ==
  /\ cur_tsc = 0
  /\ tsc_tasks \in Launch(0)
  /\ next_tsc = tsc_tasks[1]

\* Mutant: the scan ends after the first comparison.
PlaceSecond(s, new) == IF s[2].tsc <= new THEN 2 ELSE 1

\* The place of the first timer once its deadline is new: the scan passes
\* every timer that is not due later.
Place(s, new) ==
  CHOOSE p \in 1 .. Len(s) :
    /\ \A i \in 2 .. p : s[i].tsc <= new
    /\ p < Len(s) => new < s[p + 1].tsc

Reschedule(s, hand, new) ==
  LET p == Place(s, new) IN
  [i \in 1 .. Len(s) |-> IF i < p THEN s[i + 1]
                         ELSE IF i = p THEN [hand EXCEPT !.tsc = new]
                         ELSE s[i]]

\* One iteration: time has passed, and the first timer runs if it is due.
\* tsc_term returns -2 when it has handled a START or a STOP.
Results(t) ==
  IF t = "term" THEN {Period[t], -2} ELSE {Period[t]}

Run(diff) ==
  LET new == tsc_tasks[1].tsc + diff IN
  /\ new >= MinTsc
  /\ tsc_tasks' = Reschedule(tsc_tasks, next_tsc, new)
  /\ next_tsc' = tsc_tasks'[1]

Iterate(step) ==
  /\ cur_tsc + step <= MaxTsc
  /\ cur_tsc' = cur_tsc + step
  /\ IF cur_tsc' >= next_tsc.tsc
     THEN \E diff \in Results(tsc_tasks[1].tsc_task) : Run(diff)
     ELSE UNCHANGED <<tsc_tasks, next_tsc>>

\* The message stopped the last task: the thread returns, and enters the
\* loop again at a later launch.
Relaunch(step) ==
  /\ tsc_tasks[1].tsc_task = "term" /\ cur_tsc >= next_tsc.tsc
  /\ cur_tsc + step <= MaxTsc
  /\ cur_tsc' = cur_tsc + step
  /\ tsc_tasks' \in Launch(cur_tsc')
  /\ next_tsc' = tsc_tasks'[1]

Next == \E step \in Steps : Iterate(step) \/ Relaunch(step)

Spec == Init /\ [][Next]_vars

-----------------------------------------------------------------------------
(***************************************************************************)
(* Properties.                                                             *)
(***************************************************************************)

\* Types of all variables.
TypeOK ==
  /\ cur_tsc \in Int
  /\ tsc_tasks \in Seq(Entries) /\ tsc_tasks # <<>>
  /\ next_tsc \in Entries

\* The timers stay in the order of their deadlines and the cached entry is
\* the earliest one: the loop, which looks at next_tsc only, never overlooks
\* a timer that is due.
EarliestFirst == Ordered(tsc_tasks) /\ next_tsc = tsc_tasks[1]

\* Moving entries about loses no timer and duplicates none.
NoTimerLost == Complete(tsc_tasks)

\* Both: the array of timers is what the loop takes it for.
TimersSound == EarliestFirst /\ NoTimerLost

\* A deadline moves only when its timer has run, and then the timer was due
\* and no other one was due before it.  (A relaunch starts all anew.)
Deadline(t) ==
  tsc_tasks[CHOOSE i \in 1 .. Len(tsc_tasks) : tsc_tasks[i].tsc_task = t].tsc
RunInOrder ==
  [][~ (\E step \in Steps : Relaunch(step)) =>
       \A t \in Timers : Deadline(t)' # Deadline(t) =>
         /\ Deadline(t) <= cur_tsc'
         /\ \A u \in Timers : Deadline(t) <= Deadline(u)]_vars

IInv == TypeOK /\ EarliestFirst /\ NoTimerLost

=============================================================================
