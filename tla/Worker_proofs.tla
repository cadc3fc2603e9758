--------------------------- MODULE Worker_proofs ---------------------------
(***************************************************************************)
(* Proofs about what a worker thread runs: its timers, for every choice of *)
(* periods and of loop times; the pass over its tasks, for any number of   *)
(* them; and the token bucket, for every rate, period and bucket size.     *)
(***************************************************************************)
EXTENDS TscTasks, WorkerLoop, TokenTime, NumberLemmas, TLAPS

-----------------------------------------------------------------------------
(***************************************************************************)
(* The timers.                                                             *)
(***************************************************************************)

-----------------------------------------------------------------------------
(***************************************************************************)
(* Rescheduling.                                                           *)
(***************************************************************************)

\* The scan always finds a place.
LEMMA PlaceExists ==
  ASSUME NEW s \in Seq(Entries), s # <<>>, NEW new \in Int
  PROVE  /\ Place(s, new) \in 1 .. Len(s)
         /\ \A i \in 2 .. Place(s, new) : s[i].tsc <= new
         /\ Place(s, new) < Len(s) => new < s[Place(s, new) + 1].tsc
<1> DEFINE Stops == {p \in 1 .. Len(s) : p < Len(s) => new < s[p + 1].tsc}
<1>1. Stops \in SUBSET Nat /\ Len(s) \in Stops
  OBVIOUS
<1>2. PICK p \in Stops : \A q \in Stops : p <= q
  BY <1>1, LeastNatural
<1>3. ASSUME NEW i \in 2 .. p PROVE s[i].tsc <= new
  <2>1. p \in 1 .. Len(s)
    BY <1>2
  <2>2. i - 1 \in 1 .. Len(s) /\ i - 1 < p /\ i - 1 < Len(s) /\ (i - 1) + 1 = i
    BY <2>1
  <2>3. i - 1 \notin Stops
    BY <1>2, <2>1, <2>2
  <2>4. ~ (new < s[i].tsc)
    BY <2>2, <2>3
  <2>5. s[i] \in Entries
    BY <2>1
  <2>6. s[i].tsc \in Int
    BY <2>5 DEF Entries
  <2> QED BY <2>4, <2>6
<1>4. \E p1 \in 1 .. Len(s) : /\ \A i \in 2 .. p1 : s[i].tsc <= new
                              /\ p1 < Len(s) => new < s[p1 + 1].tsc
  BY <1>2, <1>3
<1> QED BY <1>4 DEF Place

\* Where the entries of the rescheduled array come from.
LEMMA RescheduleEntries ==
  ASSUME NEW s \in Seq(Entries), s # <<>>, NEW new \in Int
  PROVE  LET r == Reschedule(s, s[1], new)
             p == Place(s, new)
         IN  /\ r \in Seq(Entries) /\ Len(r) = Len(s)
             /\ \A i \in 1 .. Len(s) : i < p => r[i] = s[i + 1]
             /\ r[p].tsc = new /\ r[p].tsc_task = s[1].tsc_task
             /\ \A i \in 1 .. Len(s) : i > p => r[i] = s[i]
<1> DEFINE p == Place(s, new)
           r == Reschedule(s, s[1], new)
<1>1. p \in 1 .. Len(s)
  BY PlaceExists
<1> HIDE DEF p
<1>2. r = [i \in 1 .. Len(s) |-> IF i < p THEN s[i + 1]
                                 ELSE IF i = p THEN [s[1] EXCEPT !.tsc = new]
                                 ELSE s[i]]
  BY DEF Reschedule, p
<1> HIDE DEF r
<1>3. s[1] \in Entries /\ Len(s) \in Nat
  OBVIOUS
<1>4. /\ [s[1] EXCEPT !.tsc = new] \in Entries
      /\ [s[1] EXCEPT !.tsc = new].tsc = new
      /\ [s[1] EXCEPT !.tsc = new].tsc_task = s[1].tsc_task
  BY <1>3 DEF Entries
<1>5. \A i \in 1 .. Len(s) : i < p => r[i] = s[i + 1]
  BY <1>1, <1>2
<1>6. \A i \in 1 .. Len(s) : i > p => r[i] = s[i]
  BY <1>1, <1>2
<1>7. r[p] = [s[1] EXCEPT !.tsc = new]
  BY <1>1, <1>2
<1>8. \A i \in 1 .. Len(s) : r[i] \in Entries
  <2> TAKE i \in 1 .. Len(s)
  <2>1. CASE i < p
    <3>1. i + 1 \in 1 .. Len(s)
      BY <2>1, <1>1
    <3> QED BY <3>1, <2>1, <1>5
  <2>2. CASE i = p
    BY <2>2, <1>7, <1>4
  <2>3. CASE i > p
    BY <2>3, <1>6
  <2> QED BY <2>1, <2>2, <2>3, <1>1
<1>9. r \in [1 .. Len(s) -> Entries]
  BY <1>2, <1>8
<1>10. r \in Seq(Entries) /\ Len(r) = Len(s)
  BY <1>9, <1>3
<1> QED BY <1>4, <1>5, <1>6, <1>7, <1>10 DEF p, r

\* The order of the deadlines is kept.
LEMMA RescheduleOrdered ==
  ASSUME NEW s \in Seq(Entries), s # <<>>, NEW new \in Int, Ordered(s)
  PROVE  Ordered(Reschedule(s, s[1], new))
<1> DEFINE p == Place(s, new)
           r == Reschedule(s, s[1], new)
<1>1. /\ p \in 1 .. Len(s)
      /\ \A i \in 2 .. p : s[i].tsc <= new
      /\ p < Len(s) => new < s[p + 1].tsc
  BY PlaceExists
<1>2. /\ Len(r) = Len(s)
      /\ \A i \in 1 .. Len(s) : i < p => r[i] = s[i + 1]
      /\ r[p].tsc = new
      /\ \A i \in 1 .. Len(s) : i > p => r[i] = s[i]
  BY RescheduleEntries
<1> HIDE DEF p, r
<1>3. \A i \in 1 .. Len(s) : s[i].tsc \in Int
  <2> TAKE i \in 1 .. Len(s)
  <2>1. s[i] \in Entries
    OBVIOUS
  <2> QED BY <2>1 DEF Entries
<1>4. \A i, j \in 1 .. Len(s) : i < j => s[i].tsc <= s[j].tsc
  BY DEF Ordered
<1>5. \A i \in 1 .. Len(s) : i > p => new < s[i].tsc
  <2> TAKE i \in 1 .. Len(s)
  <2> HAVE i > p
  <2>1. p + 1 \in 1 .. Len(s) /\ new < s[p + 1].tsc /\ s[p + 1].tsc \in Int
    BY <1>1, <1>3
  <2>2. s[p + 1].tsc <= s[i].tsc
    BY <2>1, <1>1, <1>3, <1>4
  <2> QED BY <2>1, <2>2, <1>3
<1>6. SUFFICES ASSUME NEW i \in 1 .. Len(s), NEW j \in 1 .. Len(s), i < j
               PROVE  r[i].tsc <= r[j].tsc
  BY <1>2 DEF Ordered, r
<1>7. CASE j < p
  <2>1. i + 1 \in 1 .. Len(s) /\ j + 1 \in 1 .. Len(s) /\ i + 1 < j + 1 /\ i < p
    BY <1>1, <1>6, <1>7
  <2>2. r[i] = s[i + 1] /\ r[j] = s[j + 1]
    BY <1>2, <1>7, <2>1
  <2> QED BY <2>1, <2>2, <1>4
<1>8. CASE j = p
  <2>1. i + 1 \in 2 .. p /\ i < p
    BY <1>1, <1>6, <1>8
  <2>2. r[i] = s[i + 1]
    BY <1>2, <2>1
  <2> QED BY <2>1, <2>2, <1>1, <1>2, <1>8
<1>9. CASE j > p
  <2>1. r[j] = s[j]
    BY <1>2, <1>9
  <2>2. CASE i < p
    <3>1. i + 1 \in 1 .. Len(s) /\ i + 1 < j /\ r[i] = s[i + 1]
      BY <1>1, <1>2, <1>9, <2>2
    <3> QED BY <3>1, <2>1, <1>4
  <2>3. CASE i = p
    <3>1. new < s[j].tsc /\ s[j].tsc \in Int
      BY <1>3, <1>5, <1>9
    <3> QED BY <3>1, <2>1, <2>3, <1>2
  <2>4. CASE i > p
    BY <2>1, <2>4, <1>2, <1>4, <1>6
  <2> QED BY <2>2, <2>3, <2>4, <1>1
<1> QED BY <1>7, <1>8, <1>9, <1>1

\* Every timer is there once, as before.
LEMMA RescheduleComplete ==
  ASSUME NEW s \in Seq(Entries), s # <<>>, NEW new \in Int, Complete(s)
  PROVE  Complete(Reschedule(s, s[1], new))
<1> DEFINE p == Place(s, new)
           r == Reschedule(s, s[1], new)
           from(i) == IF i < p THEN i + 1 ELSE IF i = p THEN 1 ELSE i
<1>1. p \in 1 .. Len(s) /\ Len(s) \in Nat
  BY PlaceExists
<1>2. Len(r) = Len(s)
  BY RescheduleEntries
<1>3. \A i \in 1 .. Len(s) : r[i].tsc_task = s[from(i)].tsc_task
  <2> TAKE i \in 1 .. Len(s)
  <2>1. CASE i < p
    BY <2>1, RescheduleEntries
  <2>2. CASE i = p
    BY <2>2, RescheduleEntries
  <2>3. CASE i > p
    BY <2>3, <1>1, RescheduleEntries
  <2> QED BY <2>1, <2>2, <2>3, <1>1
<1> HIDE DEF p, r
<1>4. \A i \in 1 .. Len(s) : from(i) \in 1 .. Len(s)
  BY <1>1
<1>5. \A i, j \in 1 .. Len(s) : from(i) = from(j) => i = j
  BY <1>1
<1>6. \A k \in 1 .. Len(s) : \E i \in 1 .. Len(s) : from(i) = k
  <2> TAKE k \in 1 .. Len(s)
  <2>1. CASE k = 1
    <3>1. from(p) = 1
      BY <1>1
    <3> QED BY <3>1, <2>1, <1>1
  <2>2. CASE k \in 2 .. p
    <3>1. k - 1 \in 1 .. Len(s) /\ from(k - 1) = k
      BY <2>2, <1>1
    <3> QED BY <3>1
  <2>3. CASE k > p
    <3>1. from(k) = k
      BY <2>3, <1>1
    <3> QED BY <3>1
  <2> QED BY <2>1, <2>2, <2>3, <1>1
<1> HIDE DEF from
<1>7. \A t \in Timers : \E i \in 1 .. Len(r) : r[i].tsc_task = t
  <2> TAKE t \in Timers
  <2>1. PICK k \in 1 .. Len(s) : s[k].tsc_task = t
    BY DEF Complete
  <2>2. PICK i \in 1 .. Len(s) : from(i) = k
    BY <1>6
  <2>3. i \in 1 .. Len(r) /\ r[i].tsc_task = t
    BY <1>2, <1>3, <2>1, <2>2
  <2> QED BY <2>3
<1>8. \A i, j \in 1 .. Len(r) : r[i].tsc_task = r[j].tsc_task => i = j
  <2> SUFFICES ASSUME NEW i \in 1 .. Len(s), NEW j \in 1 .. Len(s),
                      r[i].tsc_task = r[j].tsc_task
               PROVE  i = j
    BY <1>2
  <2>1. s[from(i)].tsc_task = s[from(j)].tsc_task
    BY <1>3
  <2>2. from(i) = from(j)
    BY <2>1, <1>4 DEF Complete
  <2> QED BY <2>2, <1>5
<1> QED BY <1>7, <1>8 DEF Complete, r

-----------------------------------------------------------------------------
(***************************************************************************)
(* The invariant.                                                          *)
(***************************************************************************)

\* A launch at any time puts the invariant in place.
LEMMA LaunchGood ==
  ASSUME NEW now \in Int, NEW s \in Launch(now)
  PROVE  s \in Seq(Entries) /\ s # <<>> /\ Ordered(s) /\ Complete(s)
<1>1. FirstTsc \in [Timers -> Int]
  BY TscTasksAssumption DEF FirstTsc
<1>2. PICK order \in Sorted :
        s = [i \in DOMAIN order |-> [tsc |-> now + FirstTsc[order[i]],
                                     tsc_task |-> order[i]]]
  BY DEF Launch
<1>3. PICK n \in 2 .. 4 : order \in [1 .. n -> Timers]
  BY <1>2 DEF Sorted
<1>4. /\ \A t \in Timers : \E i \in 1 .. n : order[i] = t
      /\ \A i, j \in 1 .. n :
           i < j => order[i] # order[j] /\ FirstTsc[order[i]] <= FirstTsc[order[j]]
  BY <1>2, <1>3 DEF Sorted
<1>5. \A i \in 1 .. n : /\ s[i] \in Entries
                        /\ s[i].tsc = now + FirstTsc[order[i]]
                        /\ s[i].tsc_task = order[i]
                        /\ FirstTsc[order[i]] \in Int
  BY <1>1, <1>2, <1>3 DEF Entries
<1>6. s \in [1 .. n -> Entries] /\ n \in Nat /\ n >= 2
  BY <1>2, <1>3, <1>5
<1>7. s \in Seq(Entries) /\ Len(s) = n /\ s # <<>>
  BY <1>6
<1>8. Ordered(s)
  BY SMTT(60), <1>4, <1>5, <1>7 DEF Ordered
<1>9. Complete(s)
  <2>1. \A t \in Timers : \E i \in 1 .. Len(s) : s[i].tsc_task = t
    BY <1>4, <1>5, <1>7
  <2>2. \A i, j \in 1 .. n : order[i] = order[j] => i = j
    BY <1>4, <1>6
  <2>3. \A i, j \in 1 .. Len(s) : s[i].tsc_task = s[j].tsc_task => i = j
    BY <2>2, <1>5, <1>7
  <2> QED BY <2>1, <2>3 DEF Complete
<1> QED BY <1>7, <1>8, <1>9

\* What running the first timer does to the array.
LEMMA RunGood ==
  ASSUME IInv, NEW diff \in Results(tsc_tasks[1].tsc_task), Run(diff)
  PROVE  /\ tsc_tasks' = Reschedule(tsc_tasks, tsc_tasks[1], tsc_tasks[1].tsc + diff)
         /\ tsc_tasks[1].tsc + diff \in Int
         /\ tsc_tasks' \in Seq(Entries) /\ tsc_tasks' # <<>>
         /\ next_tsc' = tsc_tasks'[1] /\ next_tsc' \in Entries
         /\ Ordered(tsc_tasks') /\ Complete(tsc_tasks')
<1>1. tsc_tasks \in Seq(Entries) /\ tsc_tasks # <<>> /\ next_tsc = tsc_tasks[1]
  BY DEF IInv, TypeOK, EarliestFirst
<1>2. tsc_tasks[1] \in Entries
  BY <1>1
<1>3. diff \in Int
  BY <1>2, TscTasksAssumption DEF Results, Entries
<1>4. tsc_tasks[1].tsc + diff \in Int
  BY <1>2, <1>3 DEF Entries
<1>5. tsc_tasks' = Reschedule(tsc_tasks, tsc_tasks[1], tsc_tasks[1].tsc + diff)
  BY <1>1 DEF Run
<1>6. tsc_tasks' \in Seq(Entries) /\ Len(tsc_tasks') = Len(tsc_tasks)
  BY <1>1, <1>4, <1>5, RescheduleEntries
<1>7. tsc_tasks' # <<>> /\ tsc_tasks'[1] \in Entries
  BY <1>1, <1>6
<1>8. Ordered(tsc_tasks') /\ Complete(tsc_tasks')
  BY <1>1, <1>4, <1>5, RescheduleOrdered, RescheduleComplete
     DEF IInv, EarliestFirst, NoTimerLost
<1> QED BY <1>4, <1>5, <1>6, <1>7, <1>8 DEF Run

\* IInv holds in every reachable state.
THEOREM Invariance == Spec => []IInv
<1>1. Init => IInv
  <2> SUFFICES ASSUME Init PROVE IInv
    OBVIOUS
  <2>1. tsc_tasks \in Seq(Entries) /\ tsc_tasks # <<>>
        /\ Ordered(tsc_tasks) /\ Complete(tsc_tasks)
    BY LaunchGood DEF Init
  <2>2. tsc_tasks[1] \in Entries
    BY <2>1
  <2> QED BY <2>1, <2>2 DEF Init, IInv, TypeOK, EarliestFirst, NoTimerLost
<1>2. IInv /\ [Next]_vars => IInv'
  <2> SUFFICES ASSUME IInv, [Next]_vars PROVE IInv'
    OBVIOUS
  <2>1. ASSUME NEW step \in Steps, Iterate(step) PROVE IInv'
    <3>1. cur_tsc' \in Int
      BY <2>1, TscTasksAssumption DEF Iterate, IInv, TypeOK
    <3>2. CASE UNCHANGED <<tsc_tasks, next_tsc>>
      BY <3>1, <3>2 DEF IInv, TypeOK, EarliestFirst, NoTimerLost
    <3>3. CASE \E diff \in Results(tsc_tasks[1].tsc_task) : Run(diff)
      BY <3>1, <3>3, RunGood DEF IInv, TypeOK, EarliestFirst, NoTimerLost
    <3> QED BY <2>1, <3>2, <3>3 DEF Iterate
  <2>2. ASSUME NEW step \in Steps, Relaunch(step) PROVE IInv'
    <3>1. cur_tsc' \in Int
      BY <2>2, TscTasksAssumption DEF Relaunch, IInv, TypeOK
    <3>2. /\ tsc_tasks' \in Seq(Entries) /\ tsc_tasks' # <<>>
          /\ Ordered(tsc_tasks') /\ Complete(tsc_tasks') /\ next_tsc' = tsc_tasks'[1]
      BY <2>2, <3>1, LaunchGood DEF Relaunch
    <3>3. next_tsc' \in Entries
      BY <3>2
    <3> QED BY <3>1, <3>2, <3>3 DEF IInv, TypeOK, EarliestFirst, NoTimerLost
  <2>3. CASE UNCHANGED vars
    BY <2>3 DEF vars, IInv, TypeOK, EarliestFirst, NoTimerLost
  <2> QED BY <2>1, <2>2, <2>3 DEF Next
<1> QED BY <1>1, <1>2, PTL DEF Spec

\* The loop never overlooks a timer that is due.
THEOREM EarliestTimerFirst == Spec => []EarliestFirst
<1>1. IInv => EarliestFirst
  BY DEF IInv
<1> QED BY <1>1, Invariance, PTL

\* No timer is lost or duplicated while the array is reordered.
THEOREM AllTimersKept == Spec => []NoTimerLost
<1>1. IInv => NoTimerLost
  BY DEF IInv
<1> QED BY <1>1, Invariance, PTL

\* The array of timers stays sorted and complete.
THEOREM TimersStaySound == Spec => []TimersSound
<1>1. EarliestFirst /\ NoTimerLost => TimersSound
  BY DEF TimersSound
<1> QED BY <1>1, EarliestTimerFirst, AllTimersKept, PTL

\* The deadline of a timer is that of its only entry.
LEMMA DeadlineOf ==
  ASSUME NEW s \in Seq(Entries), Complete(s), NEW k \in 1 .. Len(s)
  PROVE  s[CHOOSE i \in 1 .. Len(s) : s[i].tsc_task = s[k].tsc_task] = s[k]
<1> DEFINE i == CHOOSE i \in 1 .. Len(s) : s[i].tsc_task = s[k].tsc_task
<1>1. i \in 1 .. Len(s) /\ s[i].tsc_task = s[k].tsc_task
  OBVIOUS
<1>2. i = k
  BY <1>1 DEF Complete
<1> QED BY <1>2

\* Running the first timer leaves the deadline of every other one alone.
LEMMA OthersUnmoved ==
  ASSUME NEW s \in Seq(Entries), s # <<>>, Complete(s), NEW new \in Int,
         NEW k \in 2 .. Len(s)
  PROVE  LET r == Reschedule(s, s[1], new)
         IN  \E l \in 1 .. Len(r) : r[l] = s[k]
<1> DEFINE p == Place(s, new)
           r == Reschedule(s, s[1], new)
<1>1. p \in 1 .. Len(s) /\ Len(s) \in Nat
  BY PlaceExists
<1>2. Len(r) = Len(s)
  BY RescheduleEntries
<1>3. CASE k <= p
  <2>1. k - 1 \in 1 .. Len(s) /\ k - 1 < p /\ (k - 1) + 1 = k
    BY <1>1, <1>3
  <2>2. r[k - 1] = s[(k - 1) + 1]
    BY <2>1, RescheduleEntries
  <2> QED BY <2>1, <2>2, <1>2
<1>4. CASE k > p
  <2>1. r[k] = s[k]
    BY <1>4, RescheduleEntries
  <2> QED BY <2>1, <1>2
<1> QED BY <1>1, <1>3, <1>4

\* A timer runs only when it is due and none is due before it, and no
\* other deadline moves.
THEOREM TimersRunInOrder == Spec => RunInOrder
<1>1. ASSUME IInv, [Next]_vars, ~ (\E step \in Steps : Relaunch(step)),
             NEW t \in Timers, Deadline(t)' # Deadline(t)
      PROVE  Deadline(t) <= cur_tsc' /\ \A u \in Timers : Deadline(t) <= Deadline(u)
  <2>1. PICK step \in Steps : Iterate(step)
    <3>1. CASE UNCHANGED vars
      BY <3>1, <1>1 DEF vars, Deadline
    <3> QED BY <3>1, <1>1 DEF Next
  <2>2. CASE UNCHANGED <<tsc_tasks, next_tsc>>
    BY <2>2, <1>1 DEF Deadline
  <2>3. CASE \E diff \in Results(tsc_tasks[1].tsc_task) : Run(diff) /\ cur_tsc' >= next_tsc.tsc
    <3>1. PICK diff \in Results(tsc_tasks[1].tsc_task) : Run(diff) /\ cur_tsc' >= next_tsc.tsc
      BY <2>3
    <3> DEFINE new == tsc_tasks[1].tsc + diff
    <3>2. /\ tsc_tasks' = Reschedule(tsc_tasks, tsc_tasks[1], new) /\ new \in Int
          /\ tsc_tasks' \in Seq(Entries) /\ Complete(tsc_tasks')
      BY <1>1, <3>1, RunGood
    <3>3. /\ tsc_tasks \in Seq(Entries) /\ tsc_tasks # <<>> /\ Complete(tsc_tasks)
          /\ Ordered(tsc_tasks) /\ next_tsc = tsc_tasks[1] /\ cur_tsc \in Int
      BY <1>1 DEF IInv, TypeOK, EarliestFirst, NoTimerLost
    <3> HIDE DEF new
    <3>4. PICK k \in 1 .. Len(tsc_tasks) : tsc_tasks[k].tsc_task = t
      BY <3>3 DEF Complete
    <3>5. Deadline(t) = tsc_tasks[k].tsc
      BY <3>3, <3>4, DeadlineOf DEF Deadline
    <3>6. k = 1
      <4>1. SUFFICES ASSUME k # 1 PROVE FALSE
        OBVIOUS
      <4>2. k \in 2 .. Len(tsc_tasks)
        BY <4>1, <3>4, <3>3
      <4>3. PICK l \in 1 .. Len(tsc_tasks') : tsc_tasks'[l] = tsc_tasks[k]
        BY <4>2, <3>2, <3>3, OthersUnmoved
      <4>4. Deadline(t)' = tsc_tasks'[l].tsc
        <5>1. tsc_tasks'[l].tsc_task = t
          BY <4>3, <3>4
        <5> QED BY <5>1, <3>2, DeadlineOf DEF Deadline
      <4> QED BY <4>3, <4>4, <3>5, <1>1
    <3>7. Deadline(t) <= cur_tsc'
      <4>1. tsc_tasks[1] \in Entries
        BY <3>3
      <4>2. cur_tsc' \in Int
        BY <2>1, <3>3, TscTasksAssumption DEF Iterate
      <4> QED BY <4>1, <4>2, <3>1, <3>3, <3>5, <3>6 DEF Entries
    <3>8. \A u \in Timers : Deadline(t) <= Deadline(u)
      <4> TAKE u \in Timers
      <4>1. PICK m \in 1 .. Len(tsc_tasks) : tsc_tasks[m].tsc_task = u
        BY <3>3 DEF Complete
      <4>2. Deadline(u) = tsc_tasks[m].tsc
        BY SMTT(60), <3>3, <4>1, DeadlineOf DEF Deadline
      <4>3. tsc_tasks[m] \in Entries /\ 1 \in 1 .. Len(tsc_tasks)
        BY <3>3
      <4>4. tsc_tasks[1].tsc <= tsc_tasks[m].tsc
        <5>1. CASE m = 1
          BY <5>1, <4>3 DEF Entries
        <5>2. CASE m # 1
          <6>1. 1 < m
            BY <5>2, <4>1
          <6> QED BY <6>1, <4>3, <3>3 DEF Ordered
        <5> QED BY <5>1, <5>2
      <4> QED BY <4>2, <4>4, <3>5, <3>6
    <3> QED BY <3>7, <3>8
  <2> QED BY <2>1, <2>2, <2>3 DEF Iterate
<1>2. IInv /\ [Next]_vars =>
        [~ (\E step \in Steps : Relaunch(step)) =>
           \A t \in Timers : Deadline(t)' # Deadline(t) =>
             /\ Deadline(t) <= cur_tsc'
             /\ \A u \in Timers : Deadline(t) <= Deadline(u)]_vars
  BY <1>1
<1> QED BY <1>2, Invariance, PTL DEF Spec, RunInOrder

-----------------------------------------------------------------------------
(***************************************************************************)
(* The pass over the tasks: as long as every running task has its          *)
(* configured position, no task that feeds an optimized ring runs without  *)
(* the task it feeds, and none of them passes packets on twice in one call,*)
(* no packet handed over is written over or left behind.  The runs         *)
(* worker_loop_partial and worker_loop_twice show that the first and the   *)
(* last condition cannot be dropped.                                       *)
(***************************************************************************)

\* Run lists are sequences of tasks, and tasks are numbers.
LEMMA RunListTypes ==
  ASSUME NEW run \in RunLists
  PROVE  /\ run \in Seq(Tasks) /\ Len(run) \in Nat
         /\ \A p \in 1 .. Len(run) : run[p] \in Int
  <1>1. run \in Seq(Tasks)
    BY WorkerLoopAssumption
  <1>2. Len(run) \in Nat /\ \A p \in 1 .. Len(run) : run[p] \in Tasks
    BY <1>1
  <1>3. Tasks \subseteq Int
    BY WorkerLoopAssumption DEF Tasks
  <1> QED BY <1>1, <1>2, <1>3

LEMMA OptRingTypes == OptRing \subseteq Nat \ {0} /\ Burst \in Nat \ {0}
  BY WorkerLoopAssumption DEF Tasks

\* Between two passes no packet waits.
LEMMA NothingWaits ==
  ASSUME LoopIInv, pos > Len(tasks)
  PROVE  \A t \in OptRing : nb_rx[t] = 0
  <1>1. Len(tasks) \in Nat
    BY RunListTypes DEF LoopIInv, Positioned
  <1> QED BY <1>1, OptRingTypes DEF LoopIInv, Positioned, WaitsForNext

\* A new pass over a list of RunLists starts with nothing waiting.
LEMMA NewPass ==
  ASSUME LoopIInv, pos > Len(tasks), tasks' \in RunLists,
         pos' = 1, handled' = NoBulk, nb_rx' = nb_rx
  PROVE  LoopIInv'
  <1>1. \A t \in OptRing : nb_rx'[t] = 0
    BY NothingWaits
  <1>2. Len(tasks)' \in Nat
    BY RunListTypes
  <1>3. Positioned'
    BY <1>2 DEF Positioned, LoopIInv
  <1>4. NothingOverwritten' /\ TakenInTime'
    BY DEF NothingOverwritten, TakenInTime, NoBulk
  <1> QED BY <1>1, <1>3, <1>4 DEF LoopIInv, WaitsForNext

LEMMA InitIInv == LoopInit => LoopIInv
  <1> SUFFICES ASSUME LoopInit PROVE LoopIInv
    OBVIOUS
  <1>1. Len(tasks) \in Nat
    BY RunListTypes DEF LoopInit
  <1>2. Positioned
    BY <1>1 DEF LoopInit, Positioned
  <1>3. WaitsForNext
    BY DEF LoopInit, WaitsForNext
  <1>4. NothingOverwritten /\ TakenInTime
    BY DEF LoopInit, NothingOverwritten, TakenInTime, NoBulk
  <1> QED BY <1>2, <1>3, <1>4 DEF LoopIInv

\* One position of the pass: the task there takes what waits for it, and
\* what it leaves is for the next position.
LEMMA StepKeeps ==
  ASSUME InPlace, FedRuns, LoopIInv, Step
  PROVE  LoopIInv'
  <1> DEFINE t == tasks[pos]
  <1>1. /\ tasks \in RunLists /\ Len(tasks) \in Nat
        /\ pos \in 1 .. Len(tasks) /\ t = pos - 1
        /\ tasks' = tasks /\ pos' = pos + 1
    BY RunListTypes DEF LoopIInv, Positioned, Step, InPlace
  <1>2. \A u \in OptRing : nb_rx[u] # 0 => u = t
    BY <1>1, OptRingTypes DEF LoopIInv, WaitsForNext
  <1>3. /\ AfterRx(t) \in [OptRing -> Nat]
        /\ \A u \in OptRing : AfterRx(t)[u] = 0
    BY <1>2 DEF AfterRx, LoopIInv, Positioned
  <1>4. SUFFICES /\ nb_rx' \in [OptRing -> Nat] /\ "earlier" \notin handled'.lost
                 /\ FeedersSendOnce => handled'.lost = {}
                 /\ \A u \in OptRing : nb_rx'[u] # 0 => u = t + 1
    <2>1. ASSUME NEW u \in OptRing, u = t + 1
          PROVE  pos' = u + 1 /\ pos' <= Len(tasks)'
      <3>1. Len(tasks) # u
        BY <1>1, <2>1 DEF FedRuns
      <3> QED BY <1>1, <2>1, <3>1, OptRingTypes
    <2> QED BY <1>1, <2>1 DEF LoopIInv, Positioned, WaitsForNext, NothingOverwritten, TakenInTime,
                               FeedersSendOnce
  <1>5. CASE Passed(pos)
    <2>1. t \notin OptRing
      BY <1>1, <1>5 DEF Passed
    <2>2. nb_rx' = nb_rx /\ handled' = NoBulk
      BY <1>5 DEF Step
    <2> QED BY <1>2, <2>1, <2>2 DEF LoopIInv, Positioned, NoBulk
  <1>6. CASE ~ Passed(pos)
    <2>1. PICK n \in Received(t) :
            IF n > 0 \/ pos \in zero_rx
            THEN handle_bulk(pos, t, n)
            ELSE nb_rx' = AfterRx(t) /\ handled' = NoBulk /\ UNCHANGED next
      BY <1>6 DEF Step
    <2>2. CASE nb_rx' = AfterRx(t) /\ handled'.lost = {}
      BY <2>2, <1>3
    <2>3. CASE handle_bulk(pos, t, n)
      <3>4. PICK k \in 0 .. Calls[t] :
              \E sent \in [1 .. k -> Passable(t, n)] : tx_pkt_self(t, n, sent)
        BY <2>3 DEF handle_bulk
      <3>1. PICK sent \in [1 .. k -> Passable(t, n)] : tx_pkt_self(t, n, sent)
        BY <3>4
      <3>2. CASE k > 0 /\ t + 1 \in OptRing
        <4>1. nb_rx[t + 1] = 0
          BY <1>1, <1>2, <3>2
        <4>2. Len(sent) = k /\ k \in Nat /\ sent[k] \in Nat
          <5>1. n \in Nat
            BY <2>1, WorkerLoopAssumption DEF Received, LoopIInv, Positioned
          <5>2. Calls[t] \in Nat
            BY <1>1, RunListTypes, WorkerLoopAssumption
          <5>3. Passable(t, n) \subseteq Nat
            BY <5>1, OptRingTypes DEF Passable
          <5> QED BY <3>1, <3>2, <5>2, <5>3
        <4>3. /\ nb_rx' = [AfterRx(t) EXCEPT ![t + 1] = sent[k]]
              /\ handled'.lost = {whose \in {"earlier", "own"} :
                                  IF whose = "earlier" THEN nb_rx[t + 1] # 0
                                  ELSE \E i \in 1 .. (k - 1) : sent[i] # 0}
          BY <3>1, <3>2, <4>2 DEF tx_pkt_self
        <4>4. "earlier" \notin handled'.lost /\ handled'.lost \subseteq {"own"}
          BY <4>1, <4>3
        <4>5. ASSUME FeedersSendOnce PROVE handled'.lost = {}
          <5>1. Calls[t] <= 1 /\ Calls[t] \in Nat
            <6>1. Calls[(t + 1) - 1] <= 1
              BY <3>2, <4>5 DEF FeedersSendOnce
            <6>2. (t + 1) - 1 = t
              BY <1>1
            <6> QED BY <6>1, <6>2, <1>1, RunListTypes, WorkerLoopAssumption
          <5>2. 1 .. (k - 1) = {}
            BY <5>1, <3>2
          <5>3. "own" \notin handled'.lost
            BY <4>3, <5>2
          <5> QED BY <4>4, <5>3
        <4> QED BY <1>3, <3>2, <4>2, <4>3, <4>4, <4>5
      <3>3. CASE ~ (k > 0 /\ t + 1 \in OptRing)
        <4>1. Len(sent) = k
          BY <3>1
        <4> QED BY <3>1, <3>3, <4>1, <2>2 DEF tx_pkt_self
      <3> QED BY <3>2, <3>3
    <2> QED BY <2>1, <2>2, <2>3 DEF NoBulk
  <1> QED BY <1>5, <1>6

LEMMA NextIInv ==
  ASSUME InPlace, FedRuns, LoopIInv, [LoopNext]_loop_vars
  PROVE  LoopIInv'
  <1>1. CASE Step
    BY <1>1, StepKeeps
  <1>2. CASE Wrap
    <2>1. tasks' \in RunLists
      BY <1>2 DEF Wrap, LoopIInv, Positioned
    <2> QED BY <1>2, <2>1, NewPass DEF Wrap
  <1>3. ASSUME NEW run \in RunLists, LoopReload(run)
        PROVE  LoopIInv'
    BY <1>3, NewPass DEF LoopReload
  <1>4. ASSUME NEW run \in RunLists, LoopRelaunch(run)
        PROVE  LoopIInv'
    BY <1>4, NewPass DEF LoopRelaunch, Fresh
  <1>5. CASE UNCHANGED loop_vars
    BY <1>5 DEF loop_vars, LoopIInv, Positioned, WaitsForNext, NothingOverwritten, TakenInTime,
                FeedersSendOnce
  <1> QED BY <1>1, <1>2, <1>3, <1>4, <1>5 DEF LoopNext, BetweenPasses

LEMMA LoopInvariance ==
  ASSUME InPlace, FedRuns
  PROVE  LoopSpec => []LoopIInv
  <1>1. LoopIInv /\ [LoopNext]_loop_vars => LoopIInv'
    BY NextIInv
  <1> QED BY <1>1, InitIInv, PTL DEF LoopSpec

\* Packets left in a shared working set by tx_pkt_self are taken by
\* rx_pkt_self before anything else is written there, be it by a later call
\* of handle_bulk or, where feeders call tx_pkt once, by the same one.
THEOREM NoPacketOverwritten ==
  ASSUME InPlace, FedRuns, FeedersSendOnce
  PROVE  LoopSpec => []NothingOverwritten
  <1>1. LoopIInv => NothingOverwritten
    BY DEF LoopIInv
  <1> QED BY <1>1, LoopInvariance, PTL

\* When a pass of thread_generic ends, every shared working set is empty: a
\* START or STOP, handled between passes, strands no packet.
THEOREM NoPacketLeftBehind ==
  ASSUME InPlace, FedRuns
  PROVE  LoopSpec => []HandedOverInOnePass
  <1>1. LoopIInv => HandedOverInOnePass
    BY NothingWaits DEF HandedOverInOnePass
  <1> QED BY <1>1, LoopInvariance, PTL

\* However often a task calls tx_pkt, an optimized ring keeps no packets and
\* loses none between two calls of handle_bulk.
THEOREM HandoversSound ==
  ASSUME InPlace, FedRuns
  PROVE  LoopSpec => []HandoverSound
  <1>1. LoopIInv /\ HandedOverInOnePass => HandoverSound
    BY DEF HandoverSound, LoopIInv
  <1> QED BY <1>1, LoopInvariance, NoPacketLeftBehind, PTL

-----------------------------------------------------------------------------
(***************************************************************************)
(* The token bucket credits exactly its rate, as long as the products fit  *)
(* in 64 bits.                                                             *)
(***************************************************************************)

\* Division of naturals, as two bounds that determine the quotient.
LEMMA QuotientBounds ==
  ASSUME NEW p \in Nat \ {0}, NEW a \in Nat
  PROVE  /\ a \div p \in Nat
         /\ (a \div p) * p <= a /\ a < (a \div p) * p + p
  OBVIOUS

LEMMA QuotientBetween ==
  ASSUME NEW p \in Nat \ {0}, NEW a \in Nat, NEW q \in Nat, q * p <= a, a < q * p + p
  PROVE  a \div p = q
  OBVIOUS

LEMMA ProductMonotone ==
  ASSUME NEW a \in Nat, NEW b \in Nat, NEW c \in Nat, a <= b
  PROVE  a * c <= b * c /\ c * a <= c * b
  <1>1. PICK d \in Nat : b = a + d
    <2>1. b - a \in Nat /\ b = a + (b - a)
      OBVIOUS
    <2> QED BY <2>1
  <1>2. b * c = a * c + d * c /\ c * b = c * a + c * d /\ d * c \in Nat /\ c * d \in Nat
    BY <1>1
  <1>3. a * c \in Nat /\ c * a \in Nat
    OBVIOUS
  <1> QED BY <1>2, <1>3

LEMMA QuotientMonotone ==
  ASSUME NEW p \in Nat \ {0}, NEW a \in Nat, NEW b \in Nat, a <= b
  PROVE  a \div p <= b \div p
  <1> DEFINE q == a \div p
             r == b \div p
  <1>1. q \in Nat /\ q * p <= a /\ r \in Nat /\ b < r * p + p
    BY QuotientBounds
  <1> HIDE DEF q, r
  <1>2. ASSUME r < q PROVE FALSE
    <2>1. (r + 1) * p <= q * p
      BY <1>1, <1>2, ProductMonotone
    <2>2. (r + 1) * p = r * p + p
      BY <1>1
    <2> QED BY <1>1, <2>1, <2>2
  <1>3. q <= r
    BY <1>1, <1>2
  <1> QED BY <1>3 DEF q, r

\* Whole periods contribute whole credits.
LEMMA WholeCredits ==
  ASSUME NEW p \in Nat \ {0}, NEW n \in Nat, NEW r \in Nat, NEW b \in Nat
  PROVE  ((n * p + r) * b) \div p = n * b + ((r * b) \div p)
  <1> DEFINE q == (r * b) \div p
             a == (n * p + r) * b
             s == n * b + q
  <1>1. r * b \in Nat
    OBVIOUS
  <1>2. q \in Nat /\ q * p <= r * b /\ r * b < q * p + p
    BY <1>1, QuotientBounds
  <1>3. a = n * p * b + r * b /\ a \in Nat
    OBVIOUS
  <1> HIDE DEF q
  <1>4. s \in Nat /\ s * p = n * b * p + q * p
    BY <1>2
  <1>5. n * b * p = n * p * b /\ n * b * p \in Nat
    OBVIOUS
  <1> HIDE DEF a, s
  <1>6. s * p <= a /\ a < s * p + p
    BY <1>2, <1>3, <1>4, <1>5
  <1>7. a \div p = s
    BY <1>3, <1>4, <1>6, QuotientBetween
  <1> QED BY <1>7 DEF a, s, q

\* A part of a period never yields more than the credit of the period.
LEMMA ShareBounded ==
  ASSUME NEW p \in Nat \ {0}, NEW r \in Nat, NEW b \in Nat, r <= p
  PROVE  (r * b) \div p <= b
  <1>1. r * b <= p * b /\ r * b \in Nat /\ p * b \in Nat
    BY ProductMonotone
  <1>2. (p * b) \div p = b
    <2>1. b * p <= p * b /\ p * b < b * p + p
      OBVIOUS
    <2> QED BY <1>1, <2>1, QuotientBetween
  <1> QED BY <1>1, <1>2, QuotientMonotone

-----------------------------------------------------------------------------
(***************************************************************************)
(* Unsigned arithmetic.                                                    *)
(***************************************************************************)

LEMMA U64Exact ==
  ASSUME NEW x \in Nat, x < TtModulus
  PROVE  U64(x) = x
  <1>1. TtModulus \in Nat \ {0} /\ x \in 0 .. (TtModulus - 1)
    BY TokenTimeAssumption
  <1> QED BY <1>1, RemainderSmall DEF U64

LEMMA U64AtMost ==
  ASSUME NEW x \in Nat
  PROVE  U64(x) \in Nat /\ U64(x) <= x
  <1> DEFINE m == TtModulus
             q == x \div m
             r == x % m
  <1>1. m \in Nat \ {0}
    BY TokenTimeAssumption
  <1>2. q \in Nat
    BY <1>1, QuotientBounds
  <1>3. x = m * q + r /\ r \in 0 .. (m - 1)
    BY <1>1, Division
  <1> HIDE DEF q, r, m
  <1>4. m * q \in Nat
    BY <1>1, <1>2
  <1>5. r \in Nat /\ r <= x
    BY <1>1, <1>3, <1>4
  <1> QED BY <1>5 DEF U64, r, m

\* What a rate yields in the time the model covers fits in 64 bits.
LEMMA ProductFits ==
  ASSUME NEW d \in Nat, d <= TtMaxTsc, NEW b \in TtRates
  PROVE  d * b \in Nat /\ d * b < TtModulus
  <1>1. b \in Nat \ {0} /\ TtMaxTsc \in Nat /\ TtModulus \in Nat /\ TtBytesMax \in Nat
    BY TokenTimeAssumption
  <1>2. TtMaxTsc * b + b + TtBytesMax < TtModulus
    BY TokenTimeAssumption
  <1>3. d * b <= TtMaxTsc * b /\ d * b \in Nat /\ TtMaxTsc * b \in Nat
    BY <1>1, ProductMonotone
  <1> QED BY <1>1, <1>2, <1>3

\* The bytes added for the period that has begun: no more and no less than
\* what brings those given so far to its share.
LEMMA ShareExact ==
  ASSUME NEW t \in [bpp : TtRates, tsc_last : Nat, tsc_last_bytes : Nat, bytes_now : 0 .. TtBytesMax],
         NEW now \in 0 .. TtMaxTsc, NEW given \in Nat, t.tsc_last <= now,
         given <= ((now - t.tsc_last) * t.bpp) \div TtPeriod
  PROVE  Share(t, now, given) = ((now - t.tsc_last) * t.bpp) \div TtPeriod - given
  <1> DEFINE d == now - t.tsc_last
             b == t.bpp
             s == (d * b) \div TtPeriod
  <1>1. TtPeriod \in Nat \ {0} /\ TtMaxTsc \in Nat /\ TtModulus \in Nat \ {0}
    BY TokenTimeAssumption
  <1>2. d \in Nat /\ d <= TtMaxTsc /\ b \in TtRates
    BY <1>1
  <1>3. d * b \in Nat /\ d * b < TtModulus
    BY <1>2, ProductFits
  <1>4. U64(d * b) = d * b
    BY <1>3, U64Exact
  <1>5. s \in Nat /\ s * TtPeriod <= d * b
    BY <1>1, <1>3, QuotientBounds
  <1>6. s <= d * b
    <2>1. s * 1 <= s * TtPeriod /\ s * TtPeriod \in Nat
      BY <1>1, <1>5, ProductMonotone
    <2> QED BY <1>3, <1>5, <2>1
  <1>7. given <= s
    OBVIOUS
  <1>8. Share(t, now, given) = U64(s - given)
    BY <1>4 DEF Share
  <1> HIDE DEF s, d
  <1>9. s - given \in Nat /\ s - given < TtModulus
    BY <1>1, <1>3, <1>5, <1>6, <1>7
  <1>10. U64(s - given) = s - given
    BY <1>9, U64Exact
  <1> QED BY <1>8, <1>10 DEF s, d

\* Cutting off at the size of the bucket, or wrapping, never adds bytes.
LEMMA CreditedAtMost ==
  ASSUME NEW n \in Nat, NEW bytes \in Nat
  PROVE  /\ MinOf(U64(n + bytes), TtBytesMax) \in 0 .. TtBytesMax
         /\ MinOf(U64(n + bytes), TtBytesMax) <= n + bytes
  <1>1. U64(n + bytes) \in Nat /\ U64(n + bytes) <= n + bytes
    BY U64AtMost
  <1> QED BY <1>1, TokenTimeAssumption DEF MinOf

-----------------------------------------------------------------------------
(***************************************************************************)
(* An update preserves the invariant.                                      *)
(***************************************************************************)

LEMMA SamePeriodStep ==
  ASSUME TtIInv, NEW now \in tsc .. TtMaxTsc, U64(now - tt.tsc_last) <= TtPeriod,
         token_time_update(now)
  PROVE  TtIInv'
  <1> DEFINE d == now - tt.tsc_last
             b == tt.bpp
             g == tt.tsc_last_bytes
             s == (d * b) \div TtPeriod
             new == Share(tt, now, g)
  <1>1. /\ TtPeriod \in Nat \ {0} /\ TtMaxTsc \in Nat /\ TtModulus \in Nat \ {0}
        /\ TtMaxTsc < TtModulus /\ TtRates \subseteq Nat \ {0} /\ TtBytesMax \in Nat
    BY TokenTimeAssumption
  <1>2. /\ tt \in [bpp : TtRates, tsc_last : Nat, tsc_last_bytes : Nat, bytes_now : 0 .. TtBytesMax]
        /\ tsc \in 0 .. TtMaxTsc /\ earned \in Nat /\ taken \in Nat /\ initial \in Nat
        /\ tt.tsc_last <= tsc /\ tsc <= tt.tsc_last + TtPeriod
        /\ g = ((tsc - tt.tsc_last) * b) \div TtPeriod
    BY DEF TtIInv, TtTypeOK, AtBoundary
  <1>3. now \in 0 .. TtMaxTsc /\ d \in Nat /\ d <= TtMaxTsc /\ tt.tsc_last <= now /\ b \in TtRates /\ b \in Nat
    <2>1. tt.tsc_last \in Nat /\ b \in TtRates
      BY <1>2
    <2>2. now \in Int /\ tsc <= now /\ now <= TtMaxTsc /\ tsc \in Nat
      BY <1>1, <1>2
    <2>3. b \in Nat
      BY <1>1, <2>1
    <2> HIDE DEF b
    <2> QED BY <1>1, <1>2, <2>1, <2>2, <2>3
  <1>4. d <= TtPeriod
    BY <1>1, <1>3, U64Exact
  <1>5. s \in Nat /\ s <= d * b /\ d * b \in Nat /\ d * b < TtModulus
    <2>1. d * b \in Nat /\ d * b < TtModulus
      BY <1>3, ProductFits
    <2>2. s \in Nat /\ s * TtPeriod <= d * b
      BY <1>1, <2>1, QuotientBounds
    <2> HIDE DEF s, d, b
    <2>3. s * 1 <= s * TtPeriod /\ s * TtPeriod \in Nat
      BY <1>1, <2>2, ProductMonotone
    <2> QED BY <2>1, <2>2, <2>3
  <1>6. g <= s /\ g \in Nat
    <2> DEFINE e == tsc - tt.tsc_last
    <2>1. e \in Nat /\ e <= d
      BY <1>2, <1>3
    <2>2. e * b <= d * b /\ e * b \in Nat /\ d * b \in Nat
      BY <1>3, <2>1, ProductMonotone
    <2>3. (e * b) \div TtPeriod <= (d * b) \div TtPeriod
      BY <1>1, <2>2, QuotientMonotone
    <2> QED BY <1>2, <2>3
  <1>7. new = s - g
    BY <1>2, <1>3, <1>6, ShareExact
  <1> HIDE DEF new
  <1>8. /\ tt' = Credited([tt EXCEPT !.tsc_last_bytes = U64(@ + new)], new)
        /\ earned' = earned + new /\ tsc' = now /\ UNCHANGED <<reset_at, initial, taken>>
    <2>1. ~ (U64(now - tt.tsc_last) > TtPeriod)
      <3>1. U64(now - tt.tsc_last) \in Nat
        BY <1>3, U64AtMost
      <3> QED BY <3>1, <1>1
    <2> QED BY <2>1 DEF token_time_update, SamePeriod, new
  <1>9. U64(g + new) = s
    <2>1. g + new = s
      <3> HIDE DEF s, g
      <3> QED BY <1>5, <1>6, <1>7
    <2> HIDE DEF s, g, d, b
    <2> QED BY <1>1, <1>5, <2>1, U64Exact
  <1>10. /\ tt'.bpp = b /\ tt'.tsc_last = tt.tsc_last /\ tt'.tsc_last_bytes = s
         /\ tt'.bytes_now = MinOf(U64(tt.bytes_now + new), TtBytesMax)
         /\ tt' = [bpp |-> tt'.bpp, tsc_last |-> tt'.tsc_last, tsc_last_bytes |-> tt'.tsc_last_bytes,
                   bytes_now |-> tt'.bytes_now]
    BY <1>2, <1>8, <1>9 DEF Credited
  <1>11. new \in Nat
    <2> HIDE DEF s, g
    <2> QED BY <1>5, <1>6, <1>7
  <1>12. /\ tt'.bytes_now \in 0 .. TtBytesMax
         /\ tt'.bytes_now <= tt.bytes_now + new
    BY <1>2, <1>10, <1>11, CreditedAtMost
  <1>13. TtTypeOK'
    BY <1>1, <1>2, <1>3, <1>5, <1>8, <1>10, <1>11, <1>12 DEF TtTypeOK, TtIInv
  <1>14. AtBoundary'
    <2>1. PICK n \in Nat : tt.tsc_last = reset_at + n * TtPeriod /\ earned = n * b + g
      BY DEF TtIInv, AtBoundary
    <2>2. earned' = n * b + s
      <3>1. n * b \in Nat
        BY <1>3
      <3> HIDE DEF s, g, b
      <3> QED BY <1>5, <1>6, <1>7, <1>8, <2>1, <3>1
    <2>3. tt'.tsc_last <= tsc' /\ tsc' <= tt'.tsc_last + TtPeriod
      BY <1>1, <1>2, <1>3, <1>4, <1>8, <1>10
    <2>4. tt'.tsc_last_bytes = ((tsc' - tt'.tsc_last) * tt'.bpp) \div TtPeriod
      BY <1>8, <1>10
    <2> QED BY <1>8, <1>10, <2>1, <2>2, <2>3, <2>4 DEF AtBoundary
  <1>15. RateKept'
    <2>1. taken + tt.bytes_now <= initial + earned
      BY DEF TtIInv, RateKept
    <2> QED BY <1>1, <1>2, <1>8, <1>11, <1>12, <2>1 DEF RateKept
  <1> QED BY <1>13, <1>14, <1>15 DEF TtIInv

LEMMA WholePeriodsStep ==
  ASSUME TtIInv, NEW now \in tsc .. TtMaxTsc, U64(now - tt.tsc_last) > TtPeriod,
         token_time_update(now)
  PROVE  TtIInv'
  <1> DEFINE d == now - tt.tsc_last
             b == tt.bpp
             g == tt.tsc_last_bytes
             k == IF d - TtPeriod > TtPeriod THEN (d - TtPeriod) \div TtPeriod ELSE 0
             begun == tt.tsc_last + TtPeriod + k * TtPeriod
             t == [tt EXCEPT !.tsc_last = begun, !.tsc_last_bytes = 0]
             new == Share(t, now, 0)
             whole == (b - g) + k * b
  <1>1. /\ TtPeriod \in Nat \ {0} /\ TtMaxTsc \in Nat /\ TtModulus \in Nat \ {0}
        /\ TtMaxTsc < TtModulus /\ TtRates \subseteq Nat \ {0} /\ TtBytesMax \in Nat
    BY TokenTimeAssumption
  <1>2. /\ tt \in [bpp : TtRates, tsc_last : Nat, tsc_last_bytes : Nat, bytes_now : 0 .. TtBytesMax]
        /\ tsc \in 0 .. TtMaxTsc /\ earned \in Nat /\ taken \in Nat /\ initial \in Nat
        /\ tt.tsc_last <= tsc /\ tsc <= tt.tsc_last + TtPeriod
        /\ g = ((tsc - tt.tsc_last) * b) \div TtPeriod
    BY DEF TtIInv, TtTypeOK, AtBoundary
  <1>3. now \in 0 .. TtMaxTsc /\ d \in Nat /\ d <= TtMaxTsc /\ b \in TtRates /\ b \in Nat
    <2>1. tt.tsc_last \in Nat /\ b \in TtRates
      BY <1>2
    <2>2. now \in Int /\ tsc <= now /\ now <= TtMaxTsc /\ tsc \in Nat
      BY <1>1, <1>2
    <2>3. b \in Nat
      BY <1>1, <2>1
    <2> HIDE DEF b
    <2> QED BY <1>1, <1>2, <2>1, <2>2, <2>3
  <1>4. U64(d) = d /\ d > TtPeriod
    BY <1>1, <1>3, U64Exact
  \* The time that is left after the whole periods.
  <1>5. k \in Nat /\ k * TtPeriod <= d - TtPeriod /\ d - TtPeriod <= k * TtPeriod + TtPeriod
    <2>1. CASE d - TtPeriod > TtPeriod
      <3>1. d - TtPeriod \in Nat
        BY <1>1, <1>3, <1>4
      <3> HIDE DEF d
      <3> QED BY <1>1, <2>1, <3>1, QuotientBounds
    <2>2. CASE ~ (d - TtPeriod > TtPeriod)
      <3>1. k = 0
        BY <2>2
      <3> HIDE DEF d, k
      <3> QED BY <1>1, <1>3, <1>4, <2>2, <3>1
    <2> QED BY <2>1, <2>2
  <1> HIDE DEF k
  <1>6. begun \in Nat /\ begun <= now /\ now <= begun + TtPeriod /\ k * TtPeriod \in Nat
    <2>1. k * TtPeriod \in Nat
      BY <1>1, <1>5
    <2> QED BY <1>1, <1>2, <1>3, <1>5, <2>1
  \* What was given of the last period was no more than its credit.
  <1>7. g \in Nat /\ g <= b
    <2>1. tsc - tt.tsc_last \in Nat /\ tsc - tt.tsc_last <= TtPeriod
      BY <1>1, <1>2
    <2> QED BY <1>1, <1>2, <1>3, <2>1, ShareBounded
  <1>8. Remaining_bytes(tt) = b - g
    <2>1. 0 * b \in Nat /\ b - g \in Nat /\ b - g <= b
      BY <1>3, <1>7
    <2>2. b < TtModulus
      <3>1. TtMaxTsc * b \in Nat /\ TtMaxTsc * b + b + TtBytesMax < TtModulus
        BY <1>1, <1>3, TokenTimeAssumption
      <3> QED BY <1>1, <1>3, <3>1
    <2>3. U64(b - g) = b - g
      BY <1>1, <1>3, <1>7, <2>1, <2>2, U64Exact
    <2> QED BY <2>3 DEF Remaining_bytes
  <1>9. t \in [bpp : TtRates, tsc_last : Nat, tsc_last_bytes : Nat, bytes_now : 0 .. TtBytesMax]
    BY <1>2, <1>6
  <1>10. new = ((now - begun) * b) \div TtPeriod /\ new \in Nat
    <2>1. t.tsc_last = begun /\ t.bpp = b
      BY <1>2
    <2>2. now - begun \in Nat /\ (now - begun) * b \in Nat
      <3>1. now - begun \in Nat
        BY <1>3, <1>6
      <3> HIDE DEF begun, b
      <3> QED BY <1>3, <3>1
    <2>3. ((now - begun) * b) \div TtPeriod \in Nat
      BY <1>1, <2>2, QuotientBounds
    <2> HIDE DEF t
    <2>4. 0 <= ((now - t.tsc_last) * t.bpp) \div TtPeriod /\ t.tsc_last <= now
      BY <1>6, <2>1, <2>3
    <2>5. Share(t, now, 0) = ((now - t.tsc_last) * t.bpp) \div TtPeriod - 0
      BY <1>3, <1>9, <2>4, ShareExact
    <2> QED BY <2>1, <2>3, <2>5
  <1> HIDE DEF new
  <1>11. /\ tt' = Credited([t EXCEPT !.tsc_last_bytes = new], whole + new)
         /\ earned' = earned + whole + new /\ tsc' = now /\ UNCHANGED <<reset_at, initial, taken>>
    <2>1. Periods(tt, U64(d)) = [tsc_last |-> begun, bytes |-> whole]
      BY <1>4, <1>8 DEF Periods, k
    <2>2. Periods(tt, U64(now - tt.tsc_last)).tsc_last = begun
          /\ Periods(tt, U64(now - tt.tsc_last)).bytes = whole
      BY <2>1
    <2>3. WholePeriods(tt, now) /\ tsc' = now /\ UNCHANGED <<reset_at, initial, taken>>
      BY DEF token_time_update
    <2> HIDE DEF whole, begun
    <2> QED BY <2>2, <2>3 DEF WholePeriods, new
  <1>12. /\ tt'.bpp = b /\ tt'.tsc_last = begun /\ tt'.tsc_last_bytes = new
         /\ tt'.bytes_now = MinOf(U64(tt.bytes_now + (whole + new)), TtBytesMax)
         /\ tt' = [bpp |-> tt'.bpp, tsc_last |-> tt'.tsc_last, tsc_last_bytes |-> tt'.tsc_last_bytes,
                   bytes_now |-> tt'.bytes_now]
    <2> HIDE DEF whole, begun
    <2> QED BY <1>2, <1>11 DEF Credited
  <1>13. whole \in Nat /\ whole + new \in Nat
    <2>1. k * b \in Nat /\ b - g \in Nat
      BY <1>3, <1>5, <1>7
    <2> QED BY <1>10, <2>1
  <1>14. tt'.bytes_now \in 0 .. TtBytesMax /\ tt'.bytes_now <= tt.bytes_now + (whole + new)
    <2> HIDE DEF whole
    <2> QED BY <1>2, <1>12, <1>13, CreditedAtMost
  <1>15. TtTypeOK'
    <2> HIDE DEF whole, begun
    <2> QED BY <1>1, <1>2, <1>3, <1>6, <1>10, <1>11, <1>12, <1>13, <1>14 DEF TtTypeOK, TtIInv
  <1>16. AtBoundary'
    <2>1. PICK n \in Nat : tt.tsc_last = reset_at + n * TtPeriod /\ earned = n * b + g
      BY DEF TtIInv, AtBoundary
    <2>2. n + 1 + k \in Nat /\ (n + 1 + k) * TtPeriod = n * TtPeriod + TtPeriod + k * TtPeriod
          /\ (n + 1 + k) * b = n * b + b + k * b
      BY <1>1, <1>3, <1>5
    <2>3. reset_at \in Nat /\ n * TtPeriod \in Nat /\ n * b \in Nat /\ k * b \in Nat
      BY <1>1, <1>3, <1>5 DEF TtIInv, TtTypeOK
    <2>4. begun = reset_at + (n + 1 + k) * TtPeriod
      BY <1>1, <1>6, <2>1, <2>2, <2>3
    <2>5. earned' = (n + 1 + k) * b + new
      <3> HIDE DEF g, b, d
      <3> QED BY <1>3, <1>7, <1>10, <1>11, <2>1, <2>2, <2>3
    <2> HIDE DEF begun, whole
    <2>6. tt'.tsc_last <= tsc' /\ tsc' <= tt'.tsc_last + TtPeriod
      BY <1>6, <1>11, <1>12
    <2>7. tt'.tsc_last_bytes = ((tsc' - tt'.tsc_last) * tt'.bpp) \div TtPeriod
      BY <1>10, <1>11, <1>12
    <2>8. tt'.tsc_last = reset_at' + (n + 1 + k) * TtPeriod
          /\ earned' = (n + 1 + k) * tt'.bpp + tt'.tsc_last_bytes
      BY <1>11, <1>12, <2>4, <2>5
    <2> QED BY <2>2, <2>6, <2>7, <2>8 DEF AtBoundary
  <1>17. RateKept'
    <2>1. taken + tt.bytes_now <= initial + earned
      BY DEF TtIInv, RateKept
    <2> HIDE DEF whole
    <2> QED BY <1>1, <1>2, <1>10, <1>11, <1>13, <1>14, <2>1 DEF RateKept
  <1> QED BY <1>15, <1>16, <1>17 DEF TtIInv

-----------------------------------------------------------------------------
(***************************************************************************)
(* The theorem.                                                            *)
(***************************************************************************)

LEMMA InitBucket == TtInit => TtIInv
  <1> SUFFICES ASSUME TtInit PROVE TtIInv
    OBVIOUS
  <1>1. PICK bpp \in TtRates : tt = Bucket(bpp, 0, 0)
    BY DEF TtInit
  <1>2. /\ TtPeriod \in Nat \ {0} /\ TtMaxTsc \in Nat /\ TtBytesMax \in Nat /\ bpp \in Nat
    BY TokenTimeAssumption
  <1>3. 0 \div TtPeriod = 0
    BY <1>2
  <1>4. tsc = 0 /\ reset_at = 0 /\ initial = 0 /\ earned = 0 /\ taken = 0
    BY DEF TtInit
  <1>5. AtBoundary
    <2>1. tt.tsc_last = 0 /\ tt.tsc_last_bytes = 0 /\ tt.bpp = bpp
      BY <1>1 DEF Bucket
    <2>2. (0 - 0) * bpp = 0 /\ 0 = 0 + 0 * TtPeriod /\ 0 = 0 * bpp + 0
      BY <1>2
    <2> QED BY <1>2, <1>3, <1>4, <2>1, <2>2 DEF AtBoundary
  <1> QED BY <1>1, <1>2, <1>4, <1>5 DEF TtIInv, TtTypeOK, RateKept, Bucket

LEMMA TakeStep ==
  ASSUME TtIInv, NEW bytes \in 1 .. TtBytesMax,
         token_time_take(bytes) \/ token_time_take_clamp(bytes)
  PROVE  TtIInv'
  <1> DEFINE lost == IF bytes <= tt.bytes_now THEN bytes ELSE tt.bytes_now
  <1>1. TtBytesMax \in Nat
    BY TokenTimeAssumption
  <1>2. /\ tt \in [bpp : TtRates, tsc_last : Nat, tsc_last_bytes : Nat, bytes_now : 0 .. TtBytesMax]
        /\ taken \in Nat /\ initial \in Nat /\ earned \in Nat
    BY DEF TtIInv, TtTypeOK
  <1>3. /\ tt' = [tt EXCEPT !.bytes_now = @ - lost] /\ taken' = taken + lost
        /\ UNCHANGED <<tsc, reset_at, initial, earned>>
    <2>1. bytes \in Nat /\ tt.bytes_now \in Nat
      BY <1>1, <1>2
    <2>2. tt.bytes_now - tt.bytes_now = 0
      BY <2>1
    <2> QED BY <1>2, <2>1, <2>2 DEF token_time_take, token_time_take_clamp
  <1>4. lost \in Nat /\ lost <= tt.bytes_now
    BY <1>1, <1>2
  <1> HIDE DEF lost
  <1>5. TtTypeOK'
    BY <1>1, <1>2, <1>3, <1>4 DEF TtTypeOK, TtIInv
  <1>6. AtBoundary'
    BY <1>2, <1>3 DEF AtBoundary, TtIInv
  <1>7. RateKept'
    BY <1>1, <1>2, <1>3, <1>4 DEF RateKept, TtIInv
  <1> QED BY <1>5, <1>6, <1>7 DEF TtIInv

LEMMA ResetStep ==
  ASSUME TtIInv, NEW bpp \in TtRates, NEW bytes \in {0, TtBytesMax}, token_time_reset(bpp, bytes)
  PROVE  TtIInv'
  <1>1. /\ TtPeriod \in Nat \ {0} /\ TtMaxTsc \in Nat /\ TtBytesMax \in Nat /\ bpp \in Nat
        /\ tsc \in 0 .. TtMaxTsc /\ bytes \in 0 .. TtBytesMax
    BY TokenTimeAssumption DEF TtIInv, TtTypeOK
  <1>2. /\ tt' = [bpp |-> bpp, tsc_last |-> tsc, tsc_last_bytes |-> 0, bytes_now |-> bytes]
        /\ reset_at' = tsc /\ initial' = bytes /\ earned' = 0 /\ taken' = 0 /\ tsc' = tsc
    BY DEF token_time_reset, Bucket
  <1>3. TtTypeOK'
    BY <1>1, <1>2 DEF TtTypeOK
  <1>4. AtBoundary'
    <2>1. 0 \div TtPeriod = 0 /\ (tsc - tsc) * bpp = 0 /\ tsc = tsc + 0 * TtPeriod /\ 0 = 0 * bpp + 0
      BY <1>1
    <2>2. tt'.tsc_last = tsc /\ tt'.tsc_last_bytes = 0 /\ tt'.bpp = bpp
      BY <1>2
    <2>3. tt'.tsc_last_bytes = ((tsc' - tt'.tsc_last) * tt'.bpp) \div TtPeriod
      BY <1>2, <2>1, <2>2
    <2>4. 0 \in Nat /\ tt'.tsc_last = reset_at' + 0 * TtPeriod /\ earned' = 0 * tt'.bpp + tt'.tsc_last_bytes
      BY <1>2, <2>1, <2>2
    <2> QED BY <1>1, <1>2, <2>2, <2>3, <2>4 DEF AtBoundary
  <1>5. RateKept'
    BY <1>1, <1>2 DEF RateKept
  <1> QED BY <1>3, <1>4, <1>5 DEF TtIInv

\* The invariant holds in every state.
THEOREM BucketInvariant == TtSpec => []TtIInv
  <1>1. TtInit => TtIInv
    BY InitBucket
  <1>2. TtIInv /\ [TtNext]_tt_vars => TtIInv'
    <2> SUFFICES ASSUME TtIInv, [TtNext]_tt_vars PROVE TtIInv'
      OBVIOUS
    <2>1. CASE \E now \in tsc .. TtMaxTsc : token_time_update(now)
      <3>1. PICK now \in tsc .. TtMaxTsc : token_time_update(now)
        BY <2>1
      <3>2. U64(now - tt.tsc_last) \in Nat /\ TtPeriod \in Nat
        <4>1. tt.tsc_last \in Nat /\ tt.tsc_last <= tsc /\ tsc \in Nat /\ TtMaxTsc \in Nat
          BY TokenTimeAssumption DEF TtIInv, TtTypeOK, AtBoundary
        <4>2. now - tt.tsc_last \in Nat
          BY <3>1, <4>1
        <4> QED BY <4>2, U64AtMost, TokenTimeAssumption
      <3>3. CASE U64(now - tt.tsc_last) <= TtPeriod
        BY <3>1, <3>3, SamePeriodStep
      <3>4. CASE U64(now - tt.tsc_last) > TtPeriod
        BY <3>1, <3>4, WholePeriodsStep
      <3> QED BY <3>2, <3>3, <3>4
    <2>2. CASE \E bytes \in 1 .. TtBytesMax : token_time_take(bytes) \/ token_time_take_clamp(bytes)
      BY <2>2, TakeStep
    <2>3. CASE \E bpp \in TtRates, bytes \in {0, TtBytesMax} : token_time_reset(bpp, bytes)
      BY <2>3, ResetStep
    <2>4. CASE UNCHANGED tt_vars
      BY <2>4 DEF tt_vars, TtIInv, TtTypeOK, AtBoundary, RateKept
    <2> QED BY <2>1, <2>2, <2>3, <2>4 DEF TtNext
  <1> QED BY <1>1, <1>2, PTL DEF TtSpec

LEMMA ExactFromInvariant == ASSUME TtIInv PROVE TokensExact
  <1> DEFINE r == tsc - tt.tsc_last
             b == tt.bpp
  <1>1. TtPeriod \in Nat \ {0} /\ TtRates \subseteq Nat \ {0}
    BY TokenTimeAssumption
  <1>2. PICK n \in Nat : tt.tsc_last = reset_at + n * TtPeriod /\ earned = n * b + tt.tsc_last_bytes
    BY DEF TtIInv, AtBoundary
  <1>3. r \in Nat /\ b \in Nat /\ tsc \in Nat /\ reset_at \in Nat /\ tt.tsc_last \in Nat
    <2>1. tt.tsc_last \in Nat /\ tt.tsc_last <= tsc /\ tsc \in Nat /\ reset_at \in Nat /\ b \in TtRates
      BY DEF TtIInv, TtTypeOK, AtBoundary
    <2>2. b \in Nat
      BY <1>1, <2>1
    <2>3. r \in Nat
      BY <2>1
    <2> QED BY <2>1, <2>2, <2>3
  <1>4. tt.tsc_last_bytes = (r * b) \div TtPeriod
    BY DEF TtIInv, AtBoundary
  <1>5. Elapsed = n * TtPeriod + r
    <2>1. n * TtPeriod \in Nat
      BY <1>1
    <2> QED BY <1>2, <1>3, <2>1 DEF Elapsed
  <1> HIDE DEF r, b
  <1>6. ((n * TtPeriod + r) * b) \div TtPeriod = n * b + ((r * b) \div TtPeriod)
    BY <1>1, <1>3, WholeCredits
  <1> QED BY <1>2, <1>4, <1>5, <1>6 DEF TokensExact, b

LEMMA WaitFromInvariant == ASSUME TtIInv, TokensExact PROVE WaitSuffices
  <1> SUFFICES ASSUME NEW bytes \in 1 .. TtBytesMax
      PROVE LET wait == token_time_tsc_until(bytes)
                then == ((Elapsed + wait) * tt.bpp) \div TtPeriod - earned
            IN (bytes - tt.bytes_now - then - 1) * TtPeriod < tt.bpp
    BY DEF WaitSuffices
  <1> DEFINE b == tt.bpp
             p == TtPeriod
             short == bytes - tt.bytes_now
             wait == token_time_tsc_until(bytes)
             e == Elapsed
             q == ((e + wait) * b) \div p
             then == q - earned
  <1>1. /\ p \in Nat \ {0} /\ TtBytesMax \in Nat /\ b \in Nat \ {0} /\ tt.bytes_now \in Nat
        /\ short \in Int /\ short <= TtBytesMax
    <2>1. b \in TtRates /\ tt.bytes_now \in 0 .. TtBytesMax
      BY DEF TtIInv, TtTypeOK
    <2>2. p \in Nat \ {0} /\ TtBytesMax \in Nat /\ TtRates \subseteq Nat \ {0}
      BY TokenTimeAssumption
    <2>3. b \in Nat \ {0}
      BY <2>1, <2>2
    <2>4. bytes \in Nat /\ bytes <= TtBytesMax /\ tt.bytes_now \in Nat
      BY <2>1, <2>2
    <2>5. short \in Int /\ short <= TtBytesMax
      BY <2>2, <2>4
    <2> QED BY <2>2, <2>3, <2>4, <2>5
  <1>2. e \in Nat /\ earned \in Nat
    <2>1. PICK n \in Nat : tt.tsc_last = reset_at + n * TtPeriod
      BY DEF TtIInv, AtBoundary
    <2>2. n * TtPeriod \in Nat
      BY <1>1
    <2>3. tt.tsc_last \in Nat /\ tt.tsc_last <= tsc /\ tsc \in Nat /\ reset_at \in Nat /\ earned \in Nat
      BY DEF TtIInv, TtTypeOK, AtBoundary
    <2> QED BY <2>1, <2>2, <2>3 DEF Elapsed
  <1>3. wait \in Nat /\ short * p < (wait + 1) * b
    <2>1. CASE tt.bytes_now >= bytes
      <3>1. wait = 0 /\ short <= 0
        BY <1>1, <2>1 DEF token_time_tsc_until
      <3>2. short * p <= 0
        <4>1. -short \in Nat /\ (-short) * p \in Nat
          BY <1>1, <3>1
        <4>2. (-short) * p = -(short * p)
          BY <1>1
        <4>3. short * p \in Int
          BY <1>1
        <4> HIDE DEF short, p
        <4> QED BY <4>1, <4>2, <4>3
      <3> HIDE DEF short, p, wait, b
      <3> QED BY <1>1, <3>1, <3>2
    <2>2. CASE ~ (tt.bytes_now >= bytes)
      <3>1. short \in Nat /\ short * p \in Nat /\ short * p < TtModulus
        <4>1. short \in Nat
          BY <1>1, <2>2
        <4>2. short * p <= TtBytesMax * p /\ short * p \in Nat /\ TtBytesMax * p \in Nat
          BY <1>1, <4>1, ProductMonotone
        <4>3. TtBytesMax * p < TtModulus /\ TtModulus \in Nat
          BY TokenTimeAssumption
        <4> HIDE DEF short, p
        <4> QED BY <4>1, <4>2, <4>3
      <3>2. wait = (short * p) \div b
        <4>1. U64(short * p) = short * p
          BY <3>1, U64Exact
        <4> QED BY <2>2, <4>1 DEF token_time_tsc_until
      <3> HIDE DEF short, p, wait, b
      <3>3. wait \in Nat /\ short * p < wait * b + b
        BY <1>1, <3>1, <3>2, QuotientBounds
      <3>4. (wait + 1) * b = wait * b + b
        BY <1>1, <3>3
      <3> QED BY <3>3, <3>4
    <2> QED BY <2>1, <2>2
  <1> HIDE DEF wait, short
  <1>4. earned * p <= e * b /\ e * b \in Nat
    <2>1. earned = (e * b) \div p
      BY DEF TokensExact
    <2>2. e * b \in Nat
      BY <1>1, <1>2
    <2> HIDE DEF e, b, p
    <2> QED BY <1>1, <2>1, <2>2, QuotientBounds
  <1> HIDE DEF e, b, p
  <1>5. q \in Nat /\ (e + wait) * b < q * p + p
    <2>1. (e + wait) * b \in Nat
      BY <1>1, <1>2, <1>3
    <2> QED BY <1>1, <2>1, QuotientBounds
  <1>6. (e + wait) * b = e * b + wait * b /\ (wait + 1) * b = wait * b + b /\ wait * b \in Nat
    BY <1>1, <1>2, <1>3
  <1> HIDE DEF q
  <1>7. (short - then - 1) * p = short * p - q * p + earned * p - p
    BY <1>1, <1>2, <1>5
  <1>8. short * p \in Int /\ q * p \in Int /\ earned * p \in Int
    BY <1>1, <1>2, <1>5
  <1>9. (short - then - 1) * p < b
    BY <1>1, <1>3, <1>4, <1>5, <1>6, <1>7, <1>8
  <1> QED BY <1>9 DEF short, then, q, wait, e, b, p

\* For every rate, period and size of the bucket whose products fit in 64
\* bits, and whatever the times of the updates: exactly the bytes of the rate
\* are credited, no more are taken, and a task waits long enough.
THEOREM TokenBucketSafe == TtSpec => []TokenSafe
  <1>1. TtIInv => TokenSafe
    BY ExactFromInvariant, WaitFromInvariant DEF TokenSafe, TtIInv
  <1> QED BY <1>1, BucketInvariant, PTL

=============================================================================
