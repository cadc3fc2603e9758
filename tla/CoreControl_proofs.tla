------------------------- MODULE CoreControl_proofs -------------------------
(***************************************************************************)
(* Proofs about CoreControl, for every set of cores, every number of tasks *)
(* per core, every set of commands, with and without timeouts.             *)
(* Proofs about Console, for every number of places, clients and cores,    *)
(* every size of the buffer and everything that clients send.              *)
(***************************************************************************)
EXTENDS CoreControl, Console, NumberLemmas, FiniteSetTheorems, SequenceTheorems, TLAPS

-----------------------------------------------------------------------------
(***************************************************************************)
(* The run list.                                                           *)
(***************************************************************************)

\* The scan of msg_start finds a position.
LEMMA InsertPosition ==
  ASSUME NEW s \in Seq(Nat), NEW t \in Nat
  PROVE  \E p \in 0 .. Len(s) : /\ p > 0 => s[p] <= t
                                /\ \A i \in (p + 1) .. Len(s) : s[i] > t
<1> DEFINE P == {p \in 0 .. Len(s) : \A i \in (p + 1) .. Len(s) : s[i] > t}
<1>1. P \in SUBSET Nat /\ Len(s) \in P
  OBVIOUS
<1>2. PICK p \in P : \A k \in P : p <= k
  BY <1>1, LeastNatural
<1>3. p > 0 => s[p] <= t
  <2>1. SUFFICES ASSUME p > 0, s[p] > t PROVE FALSE
    BY <1>2
  <2>2. p \in 0 .. Len(s) /\ \A i \in (p + 1) .. Len(s) : s[i] > t
    BY <1>2
  <2>3. p - 1 \in P
    BY <2>1, <2>2
  <2>4. p <= p - 1
    BY <2>3, <1>2
  <2> QED BY <2>2, <2>4
<1> QED BY <1>2, <1>3

\* What msg_start's insertion does to a sorted run list without task t.
LEMMA InsertTaskProperties ==
  ASSUME NEW s \in Seq(Nat), Sorted(s), NEW t \in Nat, ~ Holds(s, t)
  PROVE  /\ InsertTask(s, t) \in Seq(Nat)
         /\ Len(InsertTask(s, t)) = Len(s) + 1
         /\ Sorted(InsertTask(s, t))
         /\ Holds(InsertTask(s, t), t)
         /\ \A u : Holds(InsertTask(s, t), u) <=> Holds(s, u) \/ u = t
<1> DEFINE Pos(p) == /\ p > 0 => s[p] <= t
                     /\ \A i \in (p + 1) .. Len(s) : s[i] > t
           p == CHOOSE p \in 0 .. Len(s) : Pos(p)
           r == InsertTask(s, t)
<1>1. p \in 0 .. Len(s) /\ Pos(p)
  BY InsertPosition
<1>2. r = [i \in 1 .. Len(s) + 1 |-> IF i <= p THEN s[i]
                                     ELSE IF i = p + 1 THEN t ELSE s[i - 1]]
  BY DEF InsertTask
<1> HIDE DEF p, r
<1>3. r \in Seq(Nat) /\ Len(r) = Len(s) + 1
  BY <1>1, <1>2
<1>4. r[p + 1] = t
  BY <1>1, <1>2
<1>5. /\ \A i \in 1 .. Len(s) : (i <= p => r[i] = s[i]) /\ (i > p => r[i + 1] = s[i])
      /\ \A i \in 2 .. Len(s) + 1 : i > p + 1 => r[i] = s[i - 1]
  BY <1>1, <1>2
<1>6. \A i \in 1 .. p : s[i] < t
  BY <1>1 DEF Sorted, Holds
<1>7. Sorted(r)
  <2> SUFFICES ASSUME NEW i \in 1 .. Len(s) + 1, NEW j \in 1 .. Len(s) + 1, i < j
               PROVE  r[i] < r[j]
    BY <1>3 DEF Sorted
  <2>0. \A k, l \in 1 .. Len(s) : k < l => s[k] < s[l]
    BY DEF Sorted
  <2>1. CASE j <= p
    <3>1. r[i] = s[i] /\ r[j] = s[j] /\ i \in 1 .. Len(s) /\ j \in 1 .. Len(s)
      BY <2>1, <1>1, <1>5
    <3> QED BY <3>1, <2>0
  <2>2. CASE j = p + 1
    <3>1. r[i] = s[i] /\ i \in 1 .. p
      BY <2>2, <1>1, <1>5
    <3> QED BY <3>1, <2>2, <1>4, <1>6
  <2>3. CASE j > p + 1 /\ i <= p
    <3>1. r[i] = s[i] /\ r[j] = s[j - 1] /\ i \in 1 .. Len(s) /\ j - 1 \in 1 .. Len(s)
      BY <2>3, <1>1, <1>5
    <3>2. i < j - 1
      BY <2>3, <1>1
    <3> QED BY <3>1, <3>2, <2>0
  <2>4. CASE j > p + 1 /\ i = p + 1
    <3>1. r[j] = s[j - 1] /\ j - 1 \in (p + 1) .. Len(s)
      BY <2>4, <1>1, <1>5
    <3> QED BY <3>1, <2>4, <1>1, <1>4
  <2>5. CASE i > p + 1
    <3>1. /\ r[i] = s[i - 1] /\ r[j] = s[j - 1]
          /\ i - 1 \in 1 .. Len(s) /\ j - 1 \in 1 .. Len(s)
      BY <2>5, <1>1, <1>5
    <3> QED BY <3>1, <2>0
  <2> QED BY <2>1, <2>2, <2>3, <2>4, <2>5, <1>1
<1>8. \A u : Holds(r, u) => Holds(s, u) \/ u = t
  BY <1>1, <1>2, <1>3 DEF Holds
<1>9. \A u : Holds(s, u) \/ u = t => Holds(r, u)
  <2>1. Holds(r, t)
    <3>1. p + 1 \in 1 .. Len(r)
      BY <1>1, <1>3
    <3> QED BY <3>1, <1>4 DEF Holds
  <2>2. ASSUME NEW u, NEW i \in 1 .. Len(s), s[i] = u PROVE Holds(r, u)
    <3>1. CASE i <= p
      BY <3>1, <2>2, <1>3, <1>5 DEF Holds
    <3>2. CASE i > p
      <4>1. i + 1 \in 1 .. Len(r) /\ r[i + 1] = u
        BY <3>2, <2>2, <1>3, <1>5
      <4> QED BY <4>1 DEF Holds
    <3> QED BY <3>1, <3>2, <1>1
  <2> QED BY <2>1, <2>2 DEF Holds
<1> QED BY <1>3, <1>7, <1>8, <1>9 DEF r

\* What msg_stop's removal does to a sorted run list with task t.
LEMMA RemoveTaskProperties ==
  ASSUME NEW s \in Seq(Nat), Sorted(s), NEW t, Holds(s, t)
  PROVE  /\ RemoveTask(s, t) \in Seq(Nat)
         /\ Len(RemoveTask(s, t)) = Len(s) - 1
         /\ Sorted(RemoveTask(s, t))
         /\ \A u : Holds(RemoveTask(s, t), u) <=> Holds(s, u) /\ u # t
<1> DEFINE p == CHOOSE p \in 1 .. Len(s) : s[p] = t
           r == RemoveTask(s, t)
<1>1. p \in 1 .. Len(s) /\ s[p] = t
  BY DEF Holds
<1>2. r = [i \in 1 .. Len(s) - 1 |-> IF i < p THEN s[i] ELSE s[i + 1]]
  BY DEF RemoveTask
<1> HIDE DEF p, r
<1>3. r \in Seq(Nat) /\ Len(r) = Len(s) - 1
  BY <1>1, <1>2
<1>4. \A k, l \in 1 .. Len(s) : k < l => s[k] < s[l]
  BY DEF Sorted
<1>5. \A i \in 1 .. Len(r) : /\ i < p => r[i] = s[i]
                             /\ i >= p => r[i] = s[i + 1]
  BY <1>1, <1>2, <1>3
<1>6. Sorted(r)
  <2> SUFFICES ASSUME NEW i \in 1 .. Len(r), NEW j \in 1 .. Len(r), i < j
               PROVE  r[i] < r[j]
    BY DEF Sorted
  <2>1. /\ i \in 1 .. Len(s) /\ i + 1 \in 1 .. Len(s)
        /\ j \in 1 .. Len(s) /\ j + 1 \in 1 .. Len(s)
    BY <1>3
  <2>2. CASE j < p
    BY <2>1, <2>2, <1>1, <1>4, <1>5
  <2>3. CASE i >= p
    BY SMTT(60), <2>1, <2>3, <1>1, <1>4, <1>5
  <2>4. CASE i < p /\ j >= p
    <3>1. r[i] = s[i] /\ r[j] = s[j + 1] /\ i < j + 1
      BY <2>4, <1>5
    <3> QED BY <3>1, <2>1, <1>4
  <2> QED BY <2>2, <2>3, <2>4, <1>1
<1>7. ASSUME NEW u, Holds(r, u) PROVE Holds(s, u) /\ u # t
  <2>1. PICK i \in 1 .. Len(r) : r[i] = u
    BY <1>7 DEF Holds
  <2>2. CASE i < p
    <3>1. i \in 1 .. Len(s) /\ s[i] = u
      BY <2>1, <2>2, <1>3, <1>5
    <3>2. s[i] < s[p] /\ s[i] \in Nat /\ s[p] \in Nat
      BY <3>1, <2>2, <1>1, <1>4
    <3> QED BY <3>1, <3>2, <1>1 DEF Holds
  <2>3. CASE i >= p
    <3>1. i + 1 \in 1 .. Len(s) /\ s[i + 1] = u /\ p < i + 1
      BY SMTT(60), <2>1, <2>3, <1>1, <1>3, <1>5
    <3>2. s[p] < s[i + 1] /\ s[i + 1] \in Nat /\ s[p] \in Nat
      BY <3>1, <1>1, <1>4
    <3> QED BY SMTT(60), <3>1, <3>2, <1>1 DEF Holds
  <2> QED BY <2>2, <2>3, <1>1
<1>8. ASSUME NEW u, Holds(s, u), u # t PROVE Holds(r, u)
  <2>1. PICK i \in 1 .. Len(s) : s[i] = u
    BY <1>8 DEF Holds
  <2>2. CASE i < p
    <3>1. i \in 1 .. Len(r)
      BY <2>2, <1>1, <1>3
    <3>2. r[i] = s[i]
      BY <3>1, <2>2, <1>5
    <3> QED BY <3>1, <3>2, <2>1 DEF Holds
  <2>3. CASE i > p
    <3>1. i - 1 \in 1 .. Len(r) /\ r[i - 1] = u
      BY <2>1, <2>3, <1>1, <1>2, <1>3
    <3> QED BY <3>1 DEF Holds
  <2> QED BY <2>1, <2>2, <2>3, <1>1, <1>8
<1> QED BY <1>3, <1>6, <1>7, <1>8 DEF r

-----------------------------------------------------------------------------
(***************************************************************************)
(* The message handler.                                                    *)
(***************************************************************************)

Consistent(c, s, r) == /\ s \in Seq(Nat)
                       /\ Sorted(s)
                       /\ r \subseteq Tasks(c)
                       /\ {s[i] : i \in 1 .. Len(s)} = r

LEMMA TasksAreNaturals == \A c \in Cores : Tasks(c) \subseteq Nat /\ n_tasks_all[c] \in Nat \ {0}
BY CoreControlAssumption DEF Tasks

\* msg_start and msg_stop as functions of the core they run on.
HandlerFrame(c) ==
  /\ tasks_run' = [tasks_run EXCEPT ![c] = tasks_run'[c]]
  /\ task_is_running' = [task_is_running EXCEPT ![c] = task_is_running'[c]]
  /\ dpi_opaque' \in [Cores -> BOOLEAN]
  /\ Consistent(c, tasks_run'[c], task_is_running'[c])

LEMMA HoldsMeansElement ==
  \A s : \A u : Holds(s, u) <=> u \in {s[i] : i \in 1 .. Len(s)}
BY DEF Holds

\* A handler that leaves the core alone, and one that assigns both arrays.
LEMMA FrameUnchanged ==
  ASSUME TypeOK, RunListConsistent, NEW c \in Cores,
         UNCHANGED <<tasks_run, task_is_running, dpi_opaque>>
  PROVE  HandlerFrame(c)
<1>1. Consistent(c, tasks_run[c], task_is_running[c])
  BY DEF TypeOK, RunListConsistent, Consistent, RunSet, n_tasks_run
<1>2. /\ tasks_run = [tasks_run EXCEPT ![c] = tasks_run[c]]
      /\ task_is_running = [task_is_running EXCEPT ![c] = task_is_running[c]]
  BY DEF TypeOK
<1>3. dpi_opaque' \in [Cores -> BOOLEAN]
  BY Zenon DEF TypeOK
<1> QED BY <1>1, <1>2, <1>3 DEF HandlerFrame

LEMMA FrameAssigned ==
  ASSUME TypeOK, NEW c \in Cores, NEW r, NEW T, Consistent(c, r, T),
         tasks_run' = [tasks_run EXCEPT ![c] = r],
         task_is_running' = [task_is_running EXCEPT ![c] = T],
         dpi_opaque' \in [Cores -> BOOLEAN]
  PROVE  HandlerFrame(c) /\ tasks_run'[c] = r /\ task_is_running'[c] = T
<1>1. tasks_run'[c] = r /\ task_is_running'[c] = T
  BY DEF TypeOK
<1> QED BY <1>1 DEF HandlerFrame

LEMMA StartAll ==
  ASSUME TypeOK, RunListConsistent, NEW c \in Cores, msg_start_all(c)
  PROVE  /\ HandlerFrame(c) /\ tasks_run'[c] # <<>>
         /\ task_is_running'[c] = Tasks(c)
         /\ Len(tasks_run'[c]) = n_tasks_all[c]
<1> DEFINE s == [i \in 1 .. n_tasks_all[c] |-> i - 1]
<1>1. n_tasks_all[c] \in Nat \ {0}
  BY TasksAreNaturals
<1>2. tasks_run' = [tasks_run EXCEPT ![c] = s] /\ tasks_run'[c] = s
  BY DEF msg_start_all, TypeOK
<1>3. task_is_running' = [task_is_running EXCEPT ![c] = Tasks(c)] /\ task_is_running'[c] = Tasks(c)
  BY DEF msg_start_all, TypeOK
<1>4. dpi_opaque' \in [Cores -> BOOLEAN]
  BY Zenon DEF msg_start_all, TypeOK
<1>5. s \in Seq(Nat) /\ Len(s) = n_tasks_all[c] /\ s # <<>>
  BY <1>1
<1>6. Sorted(s)
  BY <1>1, <1>5 DEF Sorted
<1>7. {s[i] : i \in 1 .. Len(s)} = Tasks(c)
  <2>1. ASSUME NEW t \in Tasks(c) PROVE t + 1 \in 1 .. Len(s) /\ s[t + 1] = t
    BY <1>1, <1>5 DEF Tasks
  <2>2. \A i \in 1 .. Len(s) : s[i] \in Tasks(c)
    BY <1>1, <1>5 DEF Tasks
  <2> HIDE DEF s
  <2> QED BY <2>1, <2>2
<1> HIDE DEF s
<1> QED BY ZenonT(60), <1>2, <1>3, <1>4, <1>5, <1>6, <1>7 DEF HandlerFrame, Consistent

LEMMA StopAll ==
  ASSUME TypeOK, NEW c \in Cores, msg_stop_all(c)
  PROVE  HandlerFrame(c) /\ task_is_running'[c] = {} /\ tasks_run'[c] = <<>>
<1>1. tasks_run' = [tasks_run EXCEPT ![c] = <<>>] /\ tasks_run'[c] = <<>>
  BY DEF msg_stop_all, TypeOK
<1>2. task_is_running' = [task_is_running EXCEPT ![c] = {}] /\ task_is_running'[c] = {}
  BY DEF msg_stop_all, TypeOK
<1>3. dpi_opaque' \in [Cores -> BOOLEAN]
  BY Zenon DEF msg_stop_all, TypeOK
<1>4. Consistent(c, <<>>, {})
  BY DEF Consistent, Sorted
<1> QED BY <1>1, <1>2, <1>3, <1>4 DEF HandlerFrame

LEMMA StartOne ==
  ASSUME TypeOK, RunListConsistent, NEW c \in Cores, NEW t \in Nat,
         t < n_tasks_all[c], msg_start_one(c, t)
  PROVE  /\ HandlerFrame(c) /\ tasks_run'[c] # <<>>
         /\ task_is_running'[c] = task_is_running[c] \cup {t}
<1> DEFINE s == tasks_run[c]
<1>1. s \in Seq(Nat) /\ Sorted(s) /\ RunSet(c) = task_is_running[c]
      /\ task_is_running[c] \subseteq Tasks(c)
  BY DEF TypeOK, RunListConsistent
<1>2. n_tasks_all[c] \in Nat \ {0} /\ t \in Tasks(c)
  BY TasksAreNaturals DEF Tasks
<1>3. RunSet(c) = {s[i] : i \in 1 .. Len(s)}
  BY DEF RunSet, n_tasks_run
<1>4. CASE n_tasks_run(c) > 0 /\ t \in task_is_running[c]
  <2>1. UNCHANGED <<tasks_run, task_is_running, dpi_opaque>>
    BY <1>4, Zenon DEF msg_start_one
  <2>2. s # <<>>
    BY <1>4 DEF n_tasks_run
  <2>3. task_is_running'[c] = task_is_running[c] \cup {t}
    BY <2>1, <1>4
  <2> QED BY <2>1, <2>2, <2>3, FrameUnchanged
<1>5. CASE ~ (n_tasks_run(c) > 0 /\ t \in task_is_running[c])
  <2>1. ~ (t >= n_tasks_all[c])
    BY <1>2
  <2>2. /\ tasks_run' = [tasks_run EXCEPT ![c] = InsertTask(s, t)]
        /\ task_is_running' = [task_is_running EXCEPT ![c] = task_is_running[c] \cup {t}]
        /\ dpi_opaque' = [dpi_opaque EXCEPT ![c] =
             @ \/ (n_tasks_run(c) = 0 /\ <<c, t>> \in FM)]
    BY <2>1, <1>5, Zenon DEF msg_start_one
  <2>3. ~ Holds(s, t)
    <3>1. Len(s) \in Nat
      BY <1>1
    <3>2. CASE Len(s) = 0
      BY <3>2 DEF Holds
    <3>3. CASE Len(s) > 0
      BY <3>3, <1>1, <1>3, <1>5 DEF Holds, n_tasks_run
    <3> QED BY <3>1, <3>2, <3>3
  <2> DEFINE r == InsertTask(s, t)
  <2>4. /\ r \in Seq(Nat) /\ Len(r) = Len(s) + 1 /\ Sorted(r)
        /\ \A u : Holds(r, u) <=> Holds(s, u) \/ u = t
    BY <1>1, <2>3, InsertTaskProperties
  <2> HIDE DEF r
  <2>5. {r[i] : i \in 1 .. Len(r)} = task_is_running[c] \cup {t}
    BY <2>4, <1>1, <1>3, HoldsMeansElement
  <2>6. Consistent(c, r, task_is_running[c] \cup {t})
    BY <2>4, <2>5, <1>1, <1>2 DEF Consistent
  <2>7. dpi_opaque' \in [Cores -> BOOLEAN]
    BY <2>2, Zenon DEF TypeOK
  <2>8. r # <<>>
    BY <2>4, <1>1
  <2>9. /\ HandlerFrame(c) /\ tasks_run'[c] = r
        /\ task_is_running'[c] = task_is_running[c] \cup {t}
    BY <2>2, <2>6, <2>7, FrameAssigned DEF r
  <2> QED BY <2>8, <2>9
<1> QED BY <1>4, <1>5

LEMMA StopOne ==
  ASSUME TypeOK, RunListConsistent, NEW c \in Cores, NEW t \in Nat, msg_stop_one(c, t)
  PROVE  HandlerFrame(c) /\ task_is_running'[c] = task_is_running[c] \ {t}
<1> DEFINE s == tasks_run[c]
<1>1. s \in Seq(Nat) /\ Sorted(s) /\ RunSet(c) = task_is_running[c]
      /\ task_is_running[c] \subseteq Tasks(c)
  BY DEF TypeOK, RunListConsistent
<1>2. RunSet(c) = {s[i] : i \in 1 .. Len(s)}
  BY DEF RunSet, n_tasks_run
<1>3. CASE ~ InRun(c, t)
  <2>1. UNCHANGED <<tasks_run, task_is_running, dpi_opaque>>
    BY <1>3, Zenon DEF msg_stop_one
  <2>2. t \notin task_is_running[c]
    BY <1>1, <1>2, <1>3 DEF InRun, Holds
  <2>3. task_is_running'[c] = task_is_running[c] \ {t}
    BY <2>1, <2>2
  <2> QED BY <2>1, <2>3, FrameUnchanged
<1>4. CASE InRun(c, t)
  <2>1. /\ tasks_run' = [tasks_run EXCEPT ![c] = RemoveTask(s, t)]
        /\ task_is_running' = [task_is_running EXCEPT ![c] = task_is_running[c] \ {t}]
        /\ dpi_opaque' = [dpi_opaque EXCEPT ![c] =
             @ /\ ~ (n_tasks_run(c) = 1 /\ <<c, t>> \in FM)]
    BY <1>4, Zenon DEF msg_stop_one
  <2> DEFINE r == RemoveTask(s, t)
  <2>2. /\ r \in Seq(Nat) /\ Len(r) = Len(s) - 1 /\ Sorted(r)
        /\ \A u : Holds(r, u) <=> Holds(s, u) /\ u # t
    BY <1>1, <1>4, RemoveTaskProperties DEF InRun
  <2> HIDE DEF r
  <2>3. {r[i] : i \in 1 .. Len(r)} = task_is_running[c] \ {t}
    BY <2>2, <1>1, <1>2, HoldsMeansElement
  <2>4. Consistent(c, r, task_is_running[c] \ {t})
    BY <2>2, <2>3, <1>1 DEF Consistent
  <2>5. dpi_opaque' \in [Cores -> BOOLEAN]
    BY <2>1, Zenon DEF TypeOK
  <2> QED BY <2>1, <2>4, <2>5, FrameAssigned DEF r
<1> QED BY <1>3, <1>4

\* What lconf_do_flags may do: only core c changes, its run list stays
\* consistent, the message is consumed, a START leaves a task running and
\* other messages change no task.
LEMMA DoFlags ==
  ASSUME TypeOK, RunListConsistent, NEW c \in Cores, lconf_do_flags(c),
         msg[c].type = "START" => msg[c].task_id < n_tasks_all[c]
  PROVE  /\ HandlerFrame(c)
         /\ msg' = [msg EXCEPT ![c].req = FALSE]
         /\ msg[c].type = "START" => tasks_run'[c] # <<>>
         /\ msg[c].type = "OTHER" => tasks_run' = tasks_run
<1> DEFINE t == msg[c].task_id
<1>1. t \in Nat \cup {-1} /\ msg[c].type \in MsgTypes
  BY DEF TypeOK
<1>2. msg' = [msg EXCEPT ![c].req = FALSE]
  BY DEF lconf_do_flags, lconf_unset_req
<1>3. CASE msg[c].type = "STOP"
  <2>1. IF t = -1 THEN msg_stop_all(c) ELSE msg_stop_one(c, t)
    BY <1>3 DEF lconf_do_flags, lconf_unset_req
  <2>2. HandlerFrame(c)
    BY <2>1, <1>1, StopAll, StopOne
  <2> QED BY <2>2, <1>2, <1>3
<1>4. CASE msg[c].type = "START"
  <2>1. IF t = -1 THEN msg_start_all(c) ELSE msg_start_one(c, t)
    BY <1>4 DEF lconf_do_flags, lconf_unset_req
  <2>2. HandlerFrame(c) /\ tasks_run'[c] # <<>>
    <3>1. CASE t = -1
      BY <2>1, <3>1, StartAll
    <3>2. CASE t # -1
      BY <2>1, <3>2, <1>1, <1>4, StartOne
    <3> QED BY <3>1, <3>2
  <2> QED BY <2>2, <1>2, <1>4
<1>5. CASE msg[c].type = "OTHER"
  <2>1. UNCHANGED <<tasks_run, task_is_running, dpi_opaque>>
    BY <1>5 DEF lconf_do_flags, lconf_unset_req
  <2>2. HandlerFrame(c)
    BY <2>1, FrameUnchanged
  <2> QED BY <2>1, <2>2, <1>2, <1>5
<1> QED BY <1>1, <1>3, <1>4, <1>5 DEF MsgTypes

\* The consequences for the conjuncts of IInv about the run lists.
LEMMA FramePreserves ==
  ASSUME TypeOK, RunListConsistent, NEW c \in Cores, HandlerFrame(c)
  PROVE  /\ tasks_run' \in [Cores -> Seq(Nat)]
         /\ task_is_running' \in [Cores -> SUBSET Nat]
         /\ RunListConsistent'
         /\ \A d \in Cores : d # c => tasks_run'[d] = tasks_run[d]
<1>1. /\ tasks_run' = [tasks_run EXCEPT ![c] = tasks_run'[c]]
      /\ task_is_running' = [task_is_running EXCEPT ![c] = task_is_running'[c]]
      /\ Consistent(c, tasks_run'[c], task_is_running'[c])
  BY DEF HandlerFrame
<1>2. Tasks(c) \subseteq Nat
  BY TasksAreNaturals
<1>3. tasks_run' \in [Cores -> Seq(Nat)]
  BY <1>1 DEF Consistent, TypeOK
<1>4. task_is_running' \in [Cores -> SUBSET Nat]
  BY <1>1, <1>2 DEF Consistent, TypeOK
<1>5. \A d \in Cores : d # c => /\ tasks_run'[d] = tasks_run[d]
                                /\ task_is_running'[d] = task_is_running[d]
  BY <1>1 DEF TypeOK
<1>6. RunListConsistent'
  <2> SUFFICES ASSUME NEW d \in Cores
               PROVE  /\ task_is_running'[d] \subseteq Tasks(d)
                      /\ Sorted(tasks_run'[d])
                      /\ {tasks_run'[d][i] : i \in 1 .. Len(tasks_run'[d])}
                           = task_is_running'[d]
    BY DEF RunListConsistent, RunSet, n_tasks_run, Tasks
  <2>1. CASE d = c
    BY <2>1, <1>1 DEF Consistent
  <2>2. CASE d # c
    BY <2>2, <1>5 DEF RunListConsistent, RunSet, n_tasks_run
  <2> QED BY <2>1, <2>2
<1> QED BY <1>3, <1>4, <1>5, <1>6

-----------------------------------------------------------------------------
(***************************************************************************)
(* The inductive invariant.                                                *)
(***************************************************************************)

LEMMA InitIInv == Init => IInv
<1> SUFFICES ASSUME Init PROVE IInv
  OBVIOUS
<1>1. TypeOK
  BY DEF Init, TypeOK, MsgTypes
<1>2. RunListConsistent
  <2> SUFFICES ASSUME NEW c \in Cores
               PROVE  /\ task_is_running[c] \subseteq Tasks(c)
                      /\ Sorted(tasks_run[c])
                      /\ RunSet(c) = task_is_running[c]
    BY DEF RunListConsistent
  <2>1. tasks_run[c] = <<>> /\ Len(tasks_run[c]) = 0 /\ task_is_running[c] = {}
    BY DEF Init
  <2> QED BY <2>1 DEF Sorted, RunSet, n_tasks_run
<1>3. StoppedCoreIsEmpty /\ WorkerPollsRunList /\ StartPending
  BY DEF Init, StoppedCoreIsEmpty, WorkerPollsRunList, StartPending
<1>4. LaunchPending /\ StartValid /\ SelfPosted
  BY DEF Init, LaunchPending, StartValid, SelfPosted
<1> QED BY <1>1, <1>2, <1>3, <1>4 DEF IInv

\* Actions that change nothing but the program counters of the master.
LEMMA MasterOnly ==
  ASSUME IInv, UNCHANGED <<coreVars, workerVars, flag_running>>, TypeOK',
         LaunchPending', StartValid', SelfPosted'
  PROVE  IInv'
BY DEF IInv, coreVars, workerVars, RunListConsistent, StoppedCoreIsEmpty,
       WorkerPollsRunList, StartPending, RunSet, n_tasks_run

LEMMA StepTerm ==
  ASSUME IInv, NEW c \in Cores, tsc_term(c)
  PROVE  IInv'
<1>0. /\ TypeOK /\ RunListConsistent /\ StoppedCoreIsEmpty /\ WorkerPollsRunList
      /\ StartPending /\ LaunchPending /\ StartValid /\ SelfPosted
  BY DEF IInv
<1>1. /\ lcore[c] = "RUNNING" /\ wpc[c] = "loop" /\ msg[c].req
      /\ lconf_do_flags(c)
      /\ wpc' = [wpc EXCEPT ![c] =
           IF msg[c].type \in {"START", "STOP"} THEN "reload" ELSE "loop"]
      /\ UNCHANGED <<flag_running, lcore, wtasks, pc, op, arg, todo, posted>>
  BY DEF tsc_term, masterVars, Reloads
<1>2. msg[c].type = "START" => msg[c].task_id < n_tasks_all[c]
  BY <1>0, <1>1 DEF StartValid
<1>3. /\ HandlerFrame(c)
      /\ msg' = [msg EXCEPT ![c].req = FALSE]
      /\ msg[c].type = "START" => tasks_run'[c] # <<>>
      /\ msg[c].type = "OTHER" => tasks_run' = tasks_run
  BY <1>0, <1>1, <1>2, DoFlags
<1>4. /\ tasks_run' \in [Cores -> Seq(Nat)]
      /\ task_is_running' \in [Cores -> SUBSET Nat]
      /\ RunListConsistent'
      /\ \A d \in Cores : d # c => tasks_run'[d] = tasks_run[d]
  BY <1>0, <1>3, FramePreserves
<1>5. msg[c].type \in MsgTypes /\ msg \in [Cores -> [req : BOOLEAN, type : MsgTypes, task_id : Nat \cup {-1}]]
  BY <1>0 DEF TypeOK
<1>6. /\ msg' \in [Cores -> [req : BOOLEAN, type : MsgTypes, task_id : Nat \cup {-1}]]
      /\ ~ msg'[c].req /\ msg'[c].type = msg[c].type /\ msg'[c].task_id = msg[c].task_id
      /\ \A d \in Cores : d # c => msg'[d] = msg[d]
  BY <1>3, <1>5
<1>7. /\ wpc' \in [Cores -> {"loop", "reload"}]
      /\ \A d \in Cores : d # c => wpc'[d] = wpc[d]
      /\ wpc'[c] = "loop" => msg[c].type = "OTHER"
  BY <1>0, <1>1, <1>5 DEF TypeOK, MsgTypes
<1>8. dpi_opaque' \in [Cores -> BOOLEAN]
  BY <1>3 DEF HandlerFrame
<1>9. TypeOK'
  BY <1>0, <1>1, <1>4, <1>6, <1>7, <1>8 DEF TypeOK
<1>10. StoppedCoreIsEmpty'
  BY <1>0, <1>1, <1>4 DEF StoppedCoreIsEmpty
<1>11. WorkerPollsRunList'
  <2> SUFFICES ASSUME NEW d \in Cores, lcore[d] = "RUNNING", wpc'[d] = "loop"
               PROVE  wtasks[d] = tasks_run'[d]
    BY <1>1 DEF WorkerPollsRunList
  <2>1. CASE d = c
    BY <2>1, <1>0, <1>1, <1>3, <1>7 DEF WorkerPollsRunList
  <2>2. CASE d # c
    BY <2>2, <1>0, <1>4, <1>7 DEF WorkerPollsRunList
  <2> QED BY <2>1, <2>2
<1>12. StartPending'
  <2> SUFFICES ASSUME NEW d \in Cores, lcore[d] = "RUNNING", wpc'[d] = "loop",
                      tasks_run'[d] = <<>>
               PROVE  msg'[d].req /\ msg'[d].type = "START"
    BY <1>1 DEF StartPending
  <2>1. CASE d = c
    <3>1. msg[c].type = "OTHER" /\ tasks_run[c] = <<>>
      BY <2>1, <1>3, <1>7
    <3> QED BY <3>1, <1>0, <1>1 DEF StartPending
  <2>2. CASE d # c
    BY <2>2, <1>0, <1>4, <1>6, <1>7 DEF StartPending
  <2> QED BY <2>1, <2>2
<1>13. LaunchPending'
  <2> DEFINE d == Head(todo)
  <2> SUFFICES ASSUME pc = "launch"
               PROVE  msg'[d].type = "START" /\ (tasks_run'[d] = <<>> => msg'[d].req)
    BY <1>1 DEF LaunchPending
  <2>1. d \in Cores
    BY <1>0 DEF TypeOK
  <2>2. CASE d = c
    <3>1. msg[c].type = "START"
      BY <2>2, <1>0 DEF LaunchPending
    <3> QED BY <3>1, <2>2, <1>3, <1>6
  <2>3. CASE d # c
    BY <2>1, <2>3, <1>0, <1>4, <1>6 DEF LaunchPending
  <2> QED BY <2>2, <2>3
<1>14. StartValid' /\ SelfPosted'
  <2>1. \A d \in Cores : msg'[d].req => msg[d].req /\ msg'[d] = msg[d]
    BY <1>6
  <2>2. \A d \in Cores : msg'[d].type = msg[d].type
    BY <1>6
  <2>3. pc = "self" => Head(todo) \in Cores
    BY <1>0 DEF TypeOK
  <2> QED BY <2>1, <2>2, <2>3, <1>0, <1>1 DEF StartValid, SelfPosted
<1> QED BY <1>4, <1>9, <1>10, <1>11, <1>12, <1>13, <1>14 DEF IInv

LEMMA RunListUnchanged ==
  ASSUME RunListConsistent, UNCHANGED <<tasks_run, task_is_running>>
  PROVE  RunListConsistent'
BY DEF RunListConsistent, RunSet, n_tasks_run

LEMMA StepReload ==
  ASSUME IInv, NEW c \in Cores, Reload(c)
  PROVE  IInv'
<1>0. /\ TypeOK /\ RunListConsistent /\ StoppedCoreIsEmpty /\ WorkerPollsRunList
      /\ StartPending /\ LaunchPending /\ StartValid /\ SelfPosted
  BY DEF IInv
<1>1. /\ lcore[c] = "RUNNING" /\ wpc[c] = "reload"
      /\ wtasks' = [wtasks EXCEPT ![c] = tasks_run[c]]
      /\ wpc' = [wpc EXCEPT ![c] = "loop"]
      /\ lcore' = [lcore EXCEPT ![c] =
           IF Len(tasks_run[c]) > 0 THEN "RUNNING"
           ELSE IF EalFinished THEN "FINISHED" ELSE "WAIT"]
      /\ UNCHANGED <<msg, tasks_run, task_is_running, dpi_opaque, flag_running,
                     pc, op, arg, todo, posted>>
  BY DEF Reload, coreVars, masterVars, n_tasks_run, TasksLeft
<1>2. tasks_run[c] \in Seq(Nat) /\ (Len(tasks_run[c]) > 0 <=> tasks_run[c] # <<>>)
  BY <1>0 DEF TypeOK
<1>3. /\ wtasks'[c] = tasks_run[c] /\ wpc'[c] = "loop"
      /\ lcore'[c] = "RUNNING" <=> tasks_run[c] # <<>>
      /\ \A d \in Cores : d # c => /\ wtasks'[d] = wtasks[d] /\ wpc'[d] = wpc[d]
                                   /\ lcore'[d] = lcore[d]
  BY <1>0, <1>1, <1>2 DEF TypeOK
<1>4. TypeOK'
  <2>1. wtasks' \in [Cores -> Seq(Nat \cup {Garbage})]
    <3>1. tasks_run[c] \in Seq(Nat \cup {Garbage})
      BY <1>2
    <3> QED BY <3>1, <1>0, <1>1 DEF TypeOK
  <2>2. wpc' \in [Cores -> {"loop", "reload"}]
    BY <1>0, <1>1 DEF TypeOK
  <2>3. lcore' \in [Cores -> {"WAIT", "RUNNING", "FINISHED"}]
    BY <1>0, <1>1 DEF TypeOK
  <2> QED BY <2>1, <2>2, <2>3, <1>0, <1>1 DEF TypeOK
<1>5. StoppedCoreIsEmpty'
  BY <1>0, <1>1, <1>3 DEF StoppedCoreIsEmpty
<1>6. WorkerPollsRunList'
  BY <1>0, <1>1, <1>3 DEF WorkerPollsRunList
<1>7. StartPending'
  BY <1>0, <1>1, <1>3 DEF StartPending
<1>8. LaunchPending' /\ StartValid' /\ SelfPosted'
  BY <1>0, <1>1 DEF LaunchPending, StartValid, SelfPosted
<1> QED BY <1>0, <1>1, <1>4, <1>5, <1>6, <1>7, <1>8, RunListUnchanged DEF IInv

LEMMA StepLaunch ==
  ASSUME IInv, start_launch
  PROVE  IInv'
<1> DEFINE c == Head(todo)
<1>0. /\ TypeOK /\ RunListConsistent /\ StoppedCoreIsEmpty /\ WorkerPollsRunList
      /\ StartPending /\ LaunchPending /\ StartValid /\ SelfPosted
  BY DEF IInv
<1>1. /\ pc = "launch" /\ pc' = "check" /\ todo' = Tail(todo)
      /\ UNCHANGED <<msg, tasks_run, task_is_running, dpi_opaque, flag_running,
                     op, arg, posted>>
  BY DEF start_launch, coreVars
<1>2. todo \in Seq(Cores) /\ todo # <<>> /\ c \in Cores /\ todo' \in Seq(Cores)
  BY <1>0, <1>1 DEF TypeOK
<1>3. LaunchPending' /\ StartValid' /\ SelfPosted'
  BY <1>0, <1>1 DEF LaunchPending, StartValid, SelfPosted
<1>4. CASE lcore[c] = "WAIT"
  <2>1. /\ lcore' = [lcore EXCEPT ![c] = "RUNNING"]
        /\ wpc' = [wpc EXCEPT ![c] = "loop"]
        /\ wtasks' = [wtasks EXCEPT ![c] = [i \in 1 .. Len(tasks_run[c]) |-> Garbage]]
    BY <1>4 DEF start_launch, n_tasks_run
  <2>2. tasks_run[c] = <<>> /\ Len(tasks_run[c]) = 0
    BY <1>0, <1>2, <1>4 DEF StoppedCoreIsEmpty
  <2>3. [i \in 1 .. Len(tasks_run[c]) |-> Garbage] = <<>>
    BY <2>2
  <2>4. /\ lcore'[c] = "RUNNING" /\ wpc'[c] = "loop" /\ wtasks'[c] = <<>>
        /\ \A d \in Cores : d # c => /\ wtasks'[d] = wtasks[d] /\ wpc'[d] = wpc[d]
                                     /\ lcore'[d] = lcore[d]
    BY <1>0, <1>2, <2>1, <2>3 DEF TypeOK
  <2>5. msg[c].req /\ msg[c].type = "START"
    BY <1>0, <1>1, <2>2 DEF LaunchPending
  <2>6. TypeOK'
    <3>1. wtasks' \in [Cores -> Seq(Nat \cup {Garbage})]
      BY <1>0, <1>2, <2>1, <2>3 DEF TypeOK
    <3>2. wpc' \in [Cores -> {"loop", "reload"}]
      BY <1>0, <2>1 DEF TypeOK
    <3>3. lcore' \in [Cores -> {"WAIT", "RUNNING", "FINISHED"}]
      BY <1>0, <2>1 DEF TypeOK
    <3> QED BY <3>1, <3>2, <3>3, <1>0, <1>1, <1>2 DEF TypeOK
  <2>7. StoppedCoreIsEmpty' /\ WorkerPollsRunList' /\ StartPending'
    BY <1>0, <1>1, <2>2, <2>4, <2>5
       DEF StoppedCoreIsEmpty, WorkerPollsRunList, StartPending
  <2> QED BY <2>6, <2>7, <1>0, <1>1, <1>3, RunListUnchanged DEF IInv
<1>5. CASE lcore[c] # "WAIT"
  <2>1. UNCHANGED <<lcore, wpc, wtasks>>
    BY <1>5 DEF start_launch, workerVars
  <2>2. TypeOK'
    BY <2>1, <1>0, <1>1, <1>2 DEF TypeOK
  <2> QED BY <2>1, <2>2, <1>1, <1>3, MasterOnly DEF coreVars, workerVars
<1> QED BY <1>4, <1>5

\* Posting a message on an idle slot of core c.
LEMMA StepPost ==
  ASSUME IInv, start_post \/ stop_post \/ other_post
  PROVE  IInv'
<1> DEFINE c == Head(todo)
<1>0. /\ TypeOK /\ RunListConsistent /\ StoppedCoreIsEmpty /\ WorkerPollsRunList
      /\ StartPending /\ LaunchPending /\ StartValid /\ SelfPosted
  BY DEF IInv
<1>1. /\ pc = "wait" /\ ~ msg[c].req
      /\ UNCHANGED <<tasks_run, task_is_running, dpi_opaque, lcore, wpc, wtasks, op, arg>>
  BY DEF start_post, stop_post, other_post, Idle, workerVars, Free
<1>2. PICK type \in MsgTypes :
        /\ msg' = [msg EXCEPT ![c] = [req |-> TRUE, type |-> type, task_id |-> arg]]
        /\ type = "START" => op = "start"
        /\ pc' = "launch" => type = "START"
        /\ pc' = "self" => type = "OTHER"
        /\ pc' \in {"launch", "self", "check"}
        /\ pc' \in {"launch", "self"} => todo' = todo
        /\ todo' = todo \/ todo' = Tail(todo)
        /\ posted' = Append(posted, c) \/ posted' = posted
        /\ flag_running' = [flag_running EXCEPT ![c] = TRUE] \/ flag_running' = flag_running
  <2>1. CASE start_post
    BY <2>1 DEF start_post, PostMsg, MsgTypes, Free
  <2>2. CASE stop_post
    BY <2>2 DEF stop_post, PostMsg, MsgTypes, Free
  <2>3. CASE other_post
    BY <2>3 DEF other_post, PostMsg, MsgTypes, Free
  <2> QED BY <2>1, <2>2, <2>3
<1>3. todo \in Seq(Cores) /\ todo # <<>> /\ c \in Cores /\ Tail(todo) \in Seq(Cores)
  BY <1>0, <1>1 DEF TypeOK
<1>4. /\ msg'[c] = [req |-> TRUE, type |-> type, task_id |-> arg]
      /\ \A d \in Cores : d # c => msg'[d] = msg[d]
  BY <1>0, <1>2, <1>3 DEF TypeOK
<1>5. TypeOK'
  <2>1. msg' \in [Cores -> [req : BOOLEAN, type : MsgTypes, task_id : Nat \cup {-1}]]
    BY <1>0, <1>2, <1>3 DEF TypeOK
  <2>2. todo' \in Seq(Cores) /\ posted' \in Seq(Cores)
    <3>1. posted \in Seq(Cores) /\ Append(posted, c) \in Seq(Cores)
      BY <1>0, <1>3 DEF TypeOK
    <3> QED BY <3>1, <1>2, <1>3
  <2>3. flag_running' \in [Cores -> BOOLEAN]
    BY <1>0, <1>2 DEF TypeOK
  <2>4. pc' \in {"launch", "self", "check"} /\ (pc' \in {"wait", "launch", "self"} => todo' # <<>>)
    BY <1>2, <1>3
  <2> QED BY <2>1, <2>2, <2>3, <2>4, <1>0, <1>1 DEF TypeOK
<1>6. StoppedCoreIsEmpty' /\ WorkerPollsRunList'
  BY <1>0, <1>1 DEF StoppedCoreIsEmpty, WorkerPollsRunList
<1>7. StartPending'
  <2> SUFFICES ASSUME NEW d \in Cores, lcore[d] = "RUNNING", wpc[d] = "loop",
                      tasks_run[d] = <<>>
               PROVE  msg'[d].req /\ msg'[d].type = "START"
    BY <1>1 DEF StartPending
  <2>1. msg[d].req /\ msg[d].type = "START"
    BY <1>0 DEF StartPending
  <2> QED BY <2>1, <1>1, <1>4
<1>8. LaunchPending' /\ SelfPosted'
  BY <1>2, <1>3, <1>4 DEF LaunchPending, SelfPosted
<1>9. StartValid'
  <2>1. \A d \in Cores : msg'[d].req /\ msg'[d].type = "START" => msg'[d].task_id < n_tasks_all[d]
    BY <1>0, <1>1, <1>2, <1>4 DEF StartValid
  <2> QED BY <2>1, <1>2 DEF StartValid
<1> QED BY <1>0, <1>1, <1>5, <1>6, <1>7, <1>8, <1>9, RunListUnchanged DEF IInv

LEMMA StepSelf ==
  ASSUME IInv, other_self
  PROVE  IInv'
<1> DEFINE c == Head(todo)
<1>0. /\ TypeOK /\ RunListConsistent /\ StoppedCoreIsEmpty /\ WorkerPollsRunList
      /\ StartPending /\ LaunchPending /\ StartValid /\ SelfPosted
  BY DEF IInv
<1>1. /\ pc = "self" /\ pc' = "idle" /\ todo' = <<>>
      /\ UNCHANGED <<lcore, wpc, wtasks, flag_running, op, arg, posted>>
  BY DEF other_self, workerVars
<1>2. c \in Cores /\ msg[c].type = "OTHER"
  BY <1>0, <1>1 DEF TypeOK, SelfPosted
<1>3. CASE Len(tasks_run[c]) = 0
  <2>1. lconf_do_flags(c)
    BY <1>3 DEF other_self, n_tasks_run
  <2>2. /\ HandlerFrame(c)
        /\ msg' = [msg EXCEPT ![c].req = FALSE]
        /\ tasks_run' = tasks_run
    BY <1>0, <1>2, <2>1, DoFlags
  <2>3. /\ task_is_running' \in [Cores -> SUBSET Nat]
        /\ RunListConsistent'
    BY <1>0, <1>2, <2>2, FramePreserves
  <2>4. /\ msg' \in [Cores -> [req : BOOLEAN, type : MsgTypes, task_id : Nat \cup {-1}]]
        /\ \A d \in Cores : d # c => msg'[d] = msg[d]
        /\ msg'[c].type = "OTHER" /\ ~ msg'[c].req
    BY ZenonT(60), <1>0, <1>2, <2>2 DEF TypeOK
  <2>5. dpi_opaque' \in [Cores -> BOOLEAN]
    BY <2>2 DEF HandlerFrame
  <2>6. TypeOK'
    BY <1>0, <1>1, <2>2, <2>3, <2>4, <2>5 DEF TypeOK
  <2>7. StoppedCoreIsEmpty' /\ WorkerPollsRunList'
    BY <1>0, <1>1, <2>2 DEF StoppedCoreIsEmpty, WorkerPollsRunList
  <2>8. StartPending'
    BY <1>0, <1>1, <1>2, <2>2, <2>4 DEF StartPending
  <2>9. LaunchPending' /\ StartValid' /\ SelfPosted'
    BY <1>0, <1>1, <1>2, <2>4 DEF LaunchPending, StartValid, SelfPosted
  <2> QED BY <2>3, <2>6, <2>7, <2>8, <2>9 DEF IInv
<1>4. CASE Len(tasks_run[c]) # 0
  <2>1. UNCHANGED coreVars
    BY <1>4 DEF other_self, n_tasks_run
  <2>2. TypeOK'
    BY <2>1, <1>0, <1>1 DEF TypeOK, coreVars
  <2>3. LaunchPending' /\ StartValid' /\ SelfPosted'
    BY <2>1, <1>0, <1>1 DEF LaunchPending, StartValid, SelfPosted, coreVars
  <2> QED BY <2>1, <2>2, <2>3, <1>1, MasterOnly DEF workerVars
<1> QED BY <1>3, <1>4

LEMMA StepJoin ==
  ASSUME IInv, stop_join
  PROVE  IInv'
<1> DEFINE c == Head(posted)
<1>0. /\ TypeOK /\ RunListConsistent /\ StoppedCoreIsEmpty /\ WorkerPollsRunList
      /\ StartPending /\ LaunchPending /\ StartValid /\ SelfPosted
  BY DEF IInv
<1>1. /\ pc = "join" /\ lcore[c] # "RUNNING" /\ lcore' = [lcore EXCEPT ![c] = "WAIT"]
      /\ flag_running' = [flag_running EXCEPT ![c] = FALSE]
      /\ pc' = "ack" /\ posted' = Tail(posted)
      /\ UNCHANGED <<msg, tasks_run, task_is_running, dpi_opaque, wpc, wtasks, op, arg, todo>>
  BY DEF stop_join, coreVars, FlagCleared
<1>2. posted \in Seq(Cores) /\ posted # <<>> /\ c \in Cores /\ posted' \in Seq(Cores)
  BY <1>0, <1>1 DEF TypeOK
<1>3. \A d \in Cores : lcore'[d] = "RUNNING" <=> lcore[d] = "RUNNING"
  BY <1>0, <1>1, <1>2 DEF TypeOK
<1>4. TypeOK'
  <2>1. /\ lcore' \in [Cores -> {"WAIT", "RUNNING", "FINISHED"}]
        /\ flag_running' \in [Cores -> BOOLEAN]
    BY <1>0, <1>1 DEF TypeOK
  <2> QED BY <2>1, <1>0, <1>1, <1>2 DEF TypeOK
<1>5. StoppedCoreIsEmpty' /\ WorkerPollsRunList' /\ StartPending'
  BY <1>0, <1>1, <1>3 DEF StoppedCoreIsEmpty, WorkerPollsRunList, StartPending
<1>6. LaunchPending' /\ StartValid' /\ SelfPosted'
  BY <1>0, <1>1 DEF LaunchPending, StartValid, SelfPosted
<1> QED BY <1>0, <1>1, <1>4, <1>5, <1>6, RunListUnchanged DEF IInv

LEMMA StepCommand ==
  ASSUME IInv, start_command \/ stop_command \/ other_command
  PROVE  IInv'
<1>0. TypeOK /\ StartValid
  BY DEF IInv
<1>1. PICK o \in {"start", "stop", "other"}, cs \in Seq(Cores), t \in Nat \cup {-1} :
        Command(o, cs, t) /\ (o = "other" => cs # <<>>)
  <2>1. CASE start_command
    BY <2>1, CoreControlAssumption DEF start_command
  <2>2. CASE stop_command
    BY <2>2, CoreControlAssumption DEF stop_command
  <2>3. CASE other_command
    <3>1. PICK c \in Cores, t \in TaskArgs : Command("other", <<c>>, t)
      BY <2>3 DEF other_command
    <3>2. <<c>> \in Seq(Cores) /\ <<c>> # <<>> /\ t \in Nat \cup {-1}
      BY CoreControlAssumption
    <3> QED BY <3>1, <3>2
  <2> QED BY <2>1, <2>2, <2>3
<1>2. /\ op' = o /\ arg' = t /\ todo' = cs /\ posted' = <<>>
      /\ pc' = IF o = "other" THEN "wait" ELSE "check"
      /\ UNCHANGED <<coreVars, workerVars, flag_running>>
  BY <1>1 DEF Command
<1>3. TypeOK'
  BY SMTT(60), <1>0, <1>1, <1>2 DEF TypeOK, coreVars, workerVars
<1>4. LaunchPending' /\ StartValid' /\ SelfPosted'
  BY <1>0, <1>2 DEF LaunchPending, StartValid, SelfPosted, coreVars
<1> QED BY <1>2, <1>3, <1>4, MasterOnly

LEMMA StepMasterControl ==
  ASSUME IInv, Check \/ SecondLoop \/ Ack \/ Done \/ Timeout
  PROVE  IInv'
<1>0. TypeOK /\ StartValid
  BY DEF IInv
<1>1. CASE Check
  <2>1. /\ pc = "check" /\ todo # <<>>
        /\ \/ Eligible(Head(todo)) /\ pc' = "wait" /\ todo' = todo
           \/ pc' = "check" /\ todo' = Tail(todo)
        /\ UNCHANGED <<coreVars, workerVars, flag_running, op, arg, posted>>
    BY <1>1 DEF Check
  <2>2. todo \in Seq(Cores) /\ Tail(todo) \in Seq(Cores)
    BY <1>0, <2>1 DEF TypeOK
  <2>3. TypeOK'
    BY <1>0, <2>1, <2>2 DEF TypeOK, coreVars, workerVars
  <2>4. LaunchPending' /\ SelfPosted'
    BY <2>1 DEF LaunchPending, SelfPosted
  <2>5. StartValid'
    BY <1>0, <2>1 DEF StartValid, Eligible, coreVars
  <2> QED BY <2>1, <2>3, <2>4, <2>5, MasterOnly
<1>2. CASE SecondLoop \/ Ack \/ Done \/ Timeout
  <2>0. UNCHANGED <<coreVars, workerVars, flag_running, op, arg>>
    BY <1>2 DEF SecondLoop, Ack, Done, Timeout, Joins
  <2>1. /\ pc' \in {"ack", "idle", "join"}
        /\ pc' = "join" => posted # <<>> /\ posted' = posted
        /\ todo' = todo \/ todo' = <<>>
        /\ \/ posted' = posted
           \/ posted' = <<>>
           \/ posted # <<>> /\ posted' = Tail(posted)
    <3>1. CASE SecondLoop
      BY <3>1 DEF SecondLoop
    <3>2. CASE Ack
      <4>1. posted # <<>> /\ todo' = todo
            /\ ((pc' = "join" /\ posted' = posted) \/ (pc' = "ack" /\ posted' = Tail(posted)))
        BY <3>2, Zenon DEF Ack, Joins
      <4> QED BY <4>1
    <3>3. CASE Done
      BY <3>3 DEF Done
    <3>4. CASE Timeout
      BY <3>4 DEF Timeout
    <3> QED BY <1>2, <3>1, <3>2, <3>3, <3>4
  <2>2. todo' \in Seq(Cores) /\ posted' \in Seq(Cores)
    <3>1. todo \in Seq(Cores) /\ posted \in Seq(Cores) /\ <<>> \in Seq(Cores)
      BY <1>0 DEF TypeOK
    <3>2. posted # <<>> => Tail(posted) \in Seq(Cores)
      BY <3>1
    <3> QED BY <2>1, <3>1, <3>2
  <2>3. TypeOK'
    BY <1>0, <2>0, <2>1, <2>2 DEF TypeOK, coreVars, workerVars
  <2>4. LaunchPending' /\ StartValid' /\ SelfPosted'
    BY <1>0, <2>0, <2>1 DEF LaunchPending, StartValid, SelfPosted, coreVars
  <2> QED BY <2>0, <2>3, <2>4, MasterOnly
<1> QED BY <1>1, <1>2

\* IInv holds in every reachable state.
THEOREM Invariance == Spec => []IInv
<1>1. Init => IInv
  BY InitIInv
<1>2. IInv /\ [Next]_vars => IInv'
  <2> SUFFICES ASSUME IInv, [Next]_vars PROVE IInv'
    OBVIOUS
  <2>1. CASE start_command \/ stop_command \/ other_command
    BY <2>1, StepCommand
  <2>2. CASE InCommand
    <3>1. CASE Check \/ SecondLoop \/ Ack \/ Done \/ Timeout
      BY <3>1, StepMasterControl
    <3>2. CASE start_post \/ stop_post \/ other_post
      BY <3>2, StepPost
    <3> QED BY <2>2, <3>1, <3>2, StepLaunch, StepSelf, StepJoin DEF InCommand
  <2>3. CASE \E c \in Cores : Worker(c)
    BY <2>3, StepTerm, StepReload DEF Worker
  <2>4. CASE UNCHANGED vars
    <3>1. UNCHANGED <<coreVars, workerVars, flag_running>>
      BY <2>4 DEF vars, coreVars, workerVars
    <3>2. TypeOK' /\ LaunchPending' /\ StartValid' /\ SelfPosted'
      BY <2>4 DEF vars, IInv, TypeOK, LaunchPending, StartValid, SelfPosted
    <3> QED BY <3>1, <3>2, MasterOnly
  <2> QED BY <2>1, <2>2, <2>3, <2>4 DEF Next
<1> QED BY <1>1, <1>2, PTL DEF Spec

\* Types.
THEOREM TypeCorrect == Spec => []TypeOK
<1>1. IInv => TypeOK
  BY DEF IInv
<1> QED BY <1>1, Invariance, PTL

\* The run list of every core is sorted, without duplicates, and in step
\* with task_is_running, whatever starts and stops were issued.
THEOREM RunListSorted == Spec => []RunListConsistent
<1>1. IInv => RunListConsistent
  BY DEF IInv
<1> QED BY <1>1, Invariance, PTL

\* tasks_run "is empty when the core is stopped" (lconf.h).
THEOREM StoppedMeansEmpty == Spec => []StoppedCoreIsEmpty
<1>1. IInv => StoppedCoreIsEmpty
  BY DEF IInv
<1> QED BY <1>1, Invariance, PTL

\* The worker polls exactly the started tasks, never a stale copy and never
\* the uninitialised array it enters thread_generic with.
THEOREM NoStalePolling == Spec => []WorkerPollsRunList
<1>1. IInv => WorkerPollsRunList
  BY DEF IInv
<1> QED BY <1>1, Invariance, PTL

\* Both of these.
THEOREM WorkerSettles == Spec => []WorkerSettled
<1>1. StoppedCoreIsEmpty /\ WorkerPollsRunList => WorkerSettled
  BY DEF WorkerSettled
<1> QED BY <1>1, StoppedMeansEmpty, NoStalePolling, PTL

\* lconf_do_flags never runs on the master and on the worker of a core at
\* the same time.
THEOREM OneHandler == Spec => []SingleHandler
<1>1. IInv => SingleHandler
  <2> SUFFICES ASSUME IInv, pc = "self", n_tasks_run(Head(todo)) = 0,
                      lcore[Head(todo)] = "RUNNING", wpc[Head(todo)] = "loop"
               PROVE  FALSE
    BY DEF SingleHandler
  <2>1. Head(todo) \in Cores /\ tasks_run[Head(todo)] \in Seq(Nat)
    BY DEF IInv, TypeOK
  <2>2. tasks_run[Head(todo)] = <<>>
    BY <2>1 DEF n_tasks_run
  <2> QED BY <2>1, <2>2 DEF IInv, StartPending, SelfPosted
<1> QED BY <1>1, Invariance, PTL

-----------------------------------------------------------------------------
(***************************************************************************)
(* What a START or a STOP has done once it is consumed.                    *)
(***************************************************************************)

\* The set of running tasks after the message of core c was handled.
RunningAfter(c) ==
  LET t == msg[c].task_id IN
  IF msg[c].type = "START"
  THEN IF t = -1 THEN Tasks(c) ELSE task_is_running[c] \cup {t}
  ELSE IF msg[c].type = "STOP"
  THEN IF t = -1 THEN {} ELSE task_is_running[c] \ {t}
  ELSE task_is_running[c]

LEMMA HandlerApplies ==
  ASSUME TypeOK, RunListConsistent, NEW c \in Cores, lconf_do_flags(c),
         msg[c].type = "START" => msg[c].task_id < n_tasks_all[c]
  PROVE  /\ task_is_running'[c] = RunningAfter(c)
         /\ msg[c].type = "START" /\ msg[c].task_id = -1 => Len(tasks_run'[c]) = n_tasks_all[c]
         /\ msg[c].type = "STOP" /\ msg[c].task_id = -1 => tasks_run'[c] = <<>>
<1> DEFINE t == msg[c].task_id
<1>1. t \in Nat \cup {-1} /\ msg[c].type \in MsgTypes
  BY DEF TypeOK
<1>2. CASE msg[c].type = "STOP"
  <2>1. IF t = -1 THEN msg_stop_all(c) ELSE msg_stop_one(c, t)
    BY <1>2 DEF lconf_do_flags, lconf_unset_req
  <2>2. CASE t = -1
    BY <2>1, <2>2, <1>2, StopAll DEF RunningAfter
  <2>3. CASE t # -1
    BY <2>1, <2>3, <1>1, <1>2, StopOne DEF RunningAfter
  <2> QED BY <2>2, <2>3
<1>3. CASE msg[c].type = "START"
  <2>1. IF t = -1 THEN msg_start_all(c) ELSE msg_start_one(c, t)
    BY <1>3 DEF lconf_do_flags, lconf_unset_req
  <2>2. CASE t = -1
    BY <2>1, <2>2, <1>3, StartAll DEF RunningAfter
  <2>3. CASE t # -1
    BY <2>1, <2>3, <1>1, <1>3, StartOne DEF RunningAfter
  <2> QED BY <2>2, <2>3
<1>4. CASE msg[c].type = "OTHER"
  <2>1. UNCHANGED <<tasks_run, task_is_running, dpi_opaque>>
    BY <1>4 DEF lconf_do_flags, lconf_unset_req
  <2> QED BY <2>1, <1>4 DEF RunningAfter
<1> QED BY <1>1, <1>2, <1>3, <1>4 DEF MsgTypes

\* The run list and task_is_running tell the same of every task.
LEMMA InRunMeansRunning ==
  ASSUME RunListConsistent, NEW c \in Cores
  PROVE  \A t : InRun(c, t) <=> t \in task_is_running[c]
BY HoldsMeansElement DEF RunListConsistent, RunSet, n_tasks_run, InRun

\* The shared DPI thread follows the first and the last task of its core:
\* where all tasks need it or none does, no running one is without it.
LEMMA EngineKept ==
  ASSUME UniformFM, TypeOK, RunListConsistent, EngineReady,
         NEW c \in Cores, lconf_do_flags(c),
         msg[c].type = "START" => msg[c].task_id < n_tasks_all[c]
  PROVE  EngineReady'
<1> DEFINE t == msg[c].task_id
<1>1. /\ HandlerFrame(c) /\ task_is_running'[c] = RunningAfter(c)
      /\ task_is_running \in [Cores -> SUBSET Nat] /\ dpi_opaque \in [Cores -> BOOLEAN]
      /\ tasks_run[c] \in Seq(Nat)
  BY DoFlags, HandlerApplies DEF TypeOK
<1>2. /\ task_is_running[c] \subseteq Tasks(c)
      /\ n_tasks_run(c) = 0 <=> task_is_running[c] = {}
      /\ \A u \in task_is_running[c] : <<c, u>> \in FM => dpi_opaque[c]
  <2>1. task_is_running[c] = {tasks_run[c][i] : i \in 1 .. Len(tasks_run[c])}
    BY DEF RunListConsistent, RunSet, n_tasks_run
  <2>2. n_tasks_run(c) = Len(tasks_run[c]) /\ Len(tasks_run[c]) \in Nat
    BY <1>1 DEF n_tasks_run
  <2>3. CASE Len(tasks_run[c]) = 0
    BY <2>1, <2>2, <2>3 DEF RunListConsistent, EngineReady
  <2>4. CASE Len(tasks_run[c]) > 0
    <3>1. tasks_run[c][1] \in task_is_running[c]
      BY <2>1, <2>2, <2>4
    <3> QED BY <3>1, <2>2, <2>4 DEF RunListConsistent, EngineReady
  <2> QED BY <2>2, <2>3, <2>4
<1>3. \A d \in Cores : d # c => task_is_running'[d] = task_is_running[d]
  BY <1>1 DEF HandlerFrame
<1>4. /\ t \in Nat \cup {-1} /\ msg[c].type \in MsgTypes
      /\ n_tasks_all[c] \in Nat \ {0}
  BY TasksAreNaturals DEF TypeOK
<1>5. /\ \A d \in Cores : d # c => dpi_opaque'[d] = dpi_opaque[d]
      /\ \A u \in task_is_running'[c] : <<c, u>> \in FM => dpi_opaque'[c]
  <2>1. CASE UNCHANGED <<task_is_running, dpi_opaque>>
    BY <2>1, <1>2
  <2>2. CASE msg[c].type = "STOP" /\ t = -1
    <3>1. msg_stop_all(c)
      BY <2>2 DEF lconf_do_flags, lconf_unset_req
    <3> QED BY <3>1, <2>2, <1>1 DEF msg_stop_all, RunningAfter
  <2>3. CASE msg[c].type = "STOP" /\ t # -1
    <3>1. msg_stop_one(c, t)
      BY <2>3 DEF lconf_do_flags, lconf_unset_req
    <3>2. CASE ~ InRun(c, t)
      <4>1. UNCHANGED <<task_is_running, dpi_opaque>>
        BY <3>1, <3>2, Zenon DEF msg_stop_one
      <4> QED BY <4>1, <2>1
    <3>3. CASE InRun(c, t)
      <4>1. dpi_opaque' = [dpi_opaque EXCEPT ![c] =
              @ /\ ~ (n_tasks_run(c) = 1 /\ <<c, t>> \in FM)]
        BY <3>1, <3>3, Zenon DEF msg_stop_one
      <4>2. \A d \in Cores : d # c => dpi_opaque'[d] = dpi_opaque[d]
        BY <4>1, <1>1
      <4>3. dpi_opaque'[c] = (dpi_opaque[c] /\ ~ (n_tasks_run(c) = 1 /\ <<c, t>> \in FM))
        BY <4>1, <1>1, Zenon
      <4>4. n_tasks_run(c) = 1 => task_is_running'[c] = {}
        <5> SUFFICES ASSUME Len(tasks_run[c]) = 1 PROVE task_is_running'[c] = {}
          BY DEF n_tasks_run
        <5>1. tasks_run[c][1] = t
          BY <3>3 DEF InRun, Holds
        <5>2. task_is_running[c] \subseteq {t}
          BY <5>1 DEF RunListConsistent, RunSet, n_tasks_run
        <5> QED BY <5>2, <1>1, <2>3 DEF RunningAfter
      <4>5. task_is_running'[c] \subseteq task_is_running[c]
        BY <1>1, <2>3 DEF RunningAfter
      <4> QED BY <4>2, <4>3, <4>4, <4>5, <1>2
    <3> QED BY <3>2, <3>3
  <2>4. CASE msg[c].type = "START" /\ t = -1
    <3>1. msg_start_all(c)
      BY <2>4 DEF lconf_do_flags, lconf_unset_req
    <3>2. dpi_opaque' = [dpi_opaque EXCEPT ![c] =
            @ \/ (n_tasks_run(c) = 0 /\ \E u \in Tasks(c) : <<c, u>> \in FM)]
      BY <3>1, Zenon DEF msg_start_all
    <3>3. \A d \in Cores : d # c => dpi_opaque'[d] = dpi_opaque[d]
      BY <3>2, <1>1
    <3>4. dpi_opaque'[c] =
            (dpi_opaque[c] \/ (n_tasks_run(c) = 0 /\ \E u \in Tasks(c) : <<c, u>> \in FM))
      BY <3>2, <1>1, Zenon
    <3>5. task_is_running'[c] = Tasks(c)
      BY <1>1, <2>4 DEF RunningAfter
    <3>6. CASE n_tasks_run(c) = 0
      BY <3>3, <3>4, <3>5, <3>6
    <3>7. CASE n_tasks_run(c) # 0
      <4>1. PICK u \in task_is_running[c] : TRUE
        BY <3>7, <1>2
      <4>2. \A v \in Tasks(c) : <<c, v>> \in FM => <<c, u>> \in FM
        BY <4>1, <1>2 DEF UniformFM
      <4> QED BY <4>1, <4>2, <3>3, <3>4, <3>5, <1>2
    <3> QED BY <3>6, <3>7
  <2>5. CASE msg[c].type = "START" /\ t # -1
    <3>1. msg_start_one(c, t) /\ t \in Nat /\ t < n_tasks_all[c] /\ t \in Tasks(c)
      BY <2>5, <1>4 DEF lconf_do_flags, lconf_unset_req, Tasks
    <3>2. CASE n_tasks_run(c) > 0 /\ t \in task_is_running[c]
      <4>1. UNCHANGED <<task_is_running, dpi_opaque>>
        BY <3>1, <3>2, Zenon DEF msg_start_one
      <4> QED BY <4>1, <2>1
    <3>3. CASE ~ (n_tasks_run(c) > 0 /\ t \in task_is_running[c])
      <4>0. ~ (t >= n_tasks_all[c])
        BY <3>1, <1>4
      <4>1. dpi_opaque' = [dpi_opaque EXCEPT ![c] =
              @ \/ (n_tasks_run(c) = 0 /\ <<c, t>> \in FM)]
        BY <3>1, <3>3, <4>0, Zenon DEF msg_start_one
      <4>2. \A d \in Cores : d # c => dpi_opaque'[d] = dpi_opaque[d]
        BY <4>1, <1>1
      <4>3. dpi_opaque'[c] = (dpi_opaque[c] \/ (n_tasks_run(c) = 0 /\ <<c, t>> \in FM))
        BY <4>1, <1>1, Zenon
      <4>4. task_is_running'[c] = task_is_running[c] \cup {t}
        BY <1>1, <2>5 DEF RunningAfter
      <4>5. CASE n_tasks_run(c) = 0
        BY <4>2, <4>3, <4>4, <4>5, <1>2
      <4>6. CASE n_tasks_run(c) # 0
        <5>1. PICK u \in task_is_running[c] : TRUE
          BY <4>6, <1>2
        <5>2. \A v \in Tasks(c) : <<c, v>> \in FM => <<c, u>> \in FM
          BY <5>1, <1>2 DEF UniformFM
        <5> QED BY <5>1, <5>2, <4>2, <4>3, <4>4, <3>1, <1>2
      <4> QED BY <4>5, <4>6
    <3> QED BY <3>2, <3>3
  <2>6. CASE msg[c].type = "OTHER"
    <3>1. UNCHANGED <<task_is_running, dpi_opaque>>
      BY <2>6 DEF lconf_do_flags, lconf_unset_req
    <3> QED BY <3>1, <2>1
  <2> QED BY <1>4, <2>2, <2>3, <2>4, <2>5, <2>6 DEF MsgTypes
<1>6. \A d \in Cores : d # c => \A u \in task_is_running[d] : <<d, u>> \in FM => dpi_opaque[d]
  BY DEF EngineReady
<1> QED BY <1>3, <1>5, <1>6 DEF EngineReady

\* The message of a core the command waits for makes the core do what the
\* command says.
LEMMA HandledIsDone ==
  ASSUME IInv, EInv, NEW c \in Cores, lconf_do_flags(c),
         msg[c].req, NEW i \in 1 .. Len(posted), posted[i] = c, UNCHANGED <<op, arg>>
  PROVE  CommandDone(c)'
<1>1. /\ msg[c].type = (IF op = "start" THEN "START" ELSE "STOP")
      /\ msg[c].task_id = arg
  BY DEF EInv, AllPostedOrDone, PostedOrDone, Idle
<1>2. TypeOK /\ RunListConsistent /\ (msg[c].type = "START" => msg[c].task_id < n_tasks_all[c])
  BY DEF IInv, StartValid
<1>3. /\ task_is_running'[c] = RunningAfter(c)
      /\ msg[c].type = "START" /\ msg[c].task_id = -1 => Len(tasks_run'[c]) = n_tasks_all[c]
      /\ msg[c].type = "STOP" /\ msg[c].task_id = -1 => tasks_run'[c] = <<>>
  BY <1>2, HandlerApplies
<1>4. \A t : Holds(tasks_run'[c], t) <=> t \in task_is_running'[c]
  <2>1. RunListConsistent'
    BY <1>2, DoFlags, FramePreserves
  <2> QED BY <2>1, HoldsMeansElement DEF RunListConsistent, RunSet, n_tasks_run
<1>5. arg \in Nat \cup {-1} /\ op \in {"start", "stop", "other"}
  BY <1>2 DEF TypeOK
<1>6. CASE op = "start"
  <2>1. CASE arg = -1
    BY <2>1, <1>1, <1>3, <1>6 DEF CommandDone, n_tasks_run
  <2>2. CASE arg # -1
    <3>1. Holds(tasks_run'[c], arg)
      BY <2>2, <1>1, <1>3, <1>4, <1>6 DEF RunningAfter
    <3> QED BY <3>1, <2>2, <1>6 DEF CommandDone, InRun
  <2> QED BY <2>1, <2>2
<1>7. CASE op # "start"
  <2>1. CASE arg = -1
    <3>1. Len(tasks_run'[c]) = 0
      BY <2>1, <1>1, <1>3, <1>7
    <3> QED BY <3>1, <2>1, <1>7 DEF CommandDone, n_tasks_run
  <2>2. CASE arg # -1
    <3>1. ~ Holds(tasks_run'[c], arg)
      BY <2>2, <1>1, <1>3, <1>4, <1>7 DEF RunningAfter
    <3> QED BY <3>1, <2>2, <1>7 DEF CommandDone, InRun
  <2> QED BY <2>1, <2>2
<1> QED BY <1>6, <1>7

\* A step that touches neither the slots nor the tasks and at most forgets
\* cores it has waited for.
LEMMA QuietStep ==
  ASSUME IInv, EInv, UNCHANGED <<msg, tasks_run, task_is_running, dpi_opaque>>,
         \/ posted' = <<>>
         \/ posted' = posted /\ UNCHANGED <<op, arg>>
         \/ posted # <<>> /\ posted' = Tail(posted) /\ UNCHANGED <<op, arg>>,
         pc' # "self"
  PROVE  EInv'
<1>0. posted \in Seq(Cores) /\ AllPostedOrDone /\ EngineReady
  BY DEF IInv, EInv, TypeOK
<1>1. EngineReady'
  BY <1>0 DEF EngineReady
<1>2. CASE posted' = <<>>
  <2>1. Len(posted') = 0
    BY <1>2
  <2> QED BY <1>1, <1>2, <2>1 DEF EInv, AllPostedOrDone
<1>3. CASE posted' # <<>>
  <2>1. /\ op' = op /\ arg' = arg
        /\ posted' = posted \/ (posted # <<>> /\ posted' = Tail(posted))
    BY <1>3
  <2>2. \A j \in 1 .. Len(posted') : \E i \in 1 .. Len(posted) : posted'[j] = posted[i]
    <3>1. CASE posted' = posted
      BY <3>1
    <3>2. CASE posted # <<>> /\ posted' = Tail(posted)
      <4>1. \A j \in 1 .. Len(posted') : j + 1 \in 1 .. Len(posted) /\ posted'[j] = posted[j + 1]
        BY <3>2, <1>0
      <4> QED BY <4>1
    <3> QED BY <2>1, <3>1, <3>2
  <2>4. op # "other"
    <3>1. posted # <<>>
      BY <2>1, <1>3
    <3> QED BY <3>1, <1>0 DEF AllPostedOrDone
  <2>5. ASSUME NEW j \in 1 .. Len(posted') PROVE PostedOrDone(posted[j])'
    <3>1. PICK i \in 1 .. Len(posted) : posted'[j] = posted[i]
      BY <2>2
    <3>2. PostedOrDone(posted[i])
      BY <1>0 DEF AllPostedOrDone
    <3> QED BY <3>1, <3>2, <2>1
            DEF PostedOrDone, Idle, CommandDone, n_tasks_run, InRun
  <2> QED BY <1>1, <2>1, <2>4, <2>5 DEF EInv, AllPostedOrDone
<1> QED BY <1>2, <1>3

LEMMA SameState ==
  ASSUME EInv, UNCHANGED <<msg, tasks_run, task_is_running, dpi_opaque, pc, op, arg, posted>>
  PROVE  EInv'
BY DEF EInv, AllPostedOrDone, PostedOrDone, EngineReady, Idle, CommandDone, n_tasks_run, InRun

\* Every step keeps EInv.
LEMMA StepEInv ==
  ASSUME UniformFM, IInv, EInv, [Next]_vars
  PROVE  EInv'
<1>0. /\ TypeOK /\ RunListConsistent /\ StartValid /\ AllPostedOrDone /\ EngineReady
      /\ posted \in Seq(Cores)
      /\ msg \in [Cores -> [req : BOOLEAN, type : MsgTypes, task_id : Nat \cup {-1}]]
  BY DEF IInv, EInv, TypeOK
<1>2. CASE start_command \/ stop_command
  BY <1>2, QuietStep DEF start_command, stop_command, Command, coreVars
<1>12. CASE other_command
  BY <1>12, QuietStep DEF other_command, Command, coreVars
<1>3. CASE Check \/ SecondLoop \/ Done \/ start_launch
  <2>1. /\ UNCHANGED <<msg, tasks_run, task_is_running, dpi_opaque, posted, op, arg>>
        /\ pc' # "self"
    BY <1>3 DEF Check, SecondLoop, Done, start_launch, coreVars
  <2> QED BY <2>1, QuietStep
<1>11. CASE Timeout
  BY <1>11, QuietStep DEF Timeout, coreVars
<1>1. CASE stop_join
  <2>1. /\ UNCHANGED <<msg, tasks_run, task_is_running, dpi_opaque, op, arg>>
        /\ posted # <<>> /\ posted' = Tail(posted) /\ pc' # "self"
    BY <1>0, <1>1 DEF stop_join, coreVars, TypeOK
  <2> QED BY <2>1, QuietStep
<1>4. CASE Ack
  <2>1. /\ UNCHANGED <<coreVars, op, arg>> /\ posted # <<>>
        /\ \/ pc' = "join" /\ posted' = posted
           \/ pc' = "ack" /\ posted' = Tail(posted)
    BY <1>4, Zenon DEF Ack
  <2> QED BY <2>1, QuietStep DEF coreVars
<1>5. ASSUME NEW c \in Cores, Reload(c) PROVE EInv'
  <2>1. UNCHANGED <<msg, tasks_run, task_is_running, dpi_opaque, pc, op, arg, todo, posted>>
    BY <1>5 DEF Reload, coreVars, masterVars
  <2> QED BY <2>1, SameState
<1>6. CASE UNCHANGED vars
  BY <1>6, SameState DEF vars
<1>7. CASE start_post \/ stop_post
  <2> DEFINE c == Head(todo)
  <2>1. /\ op \in {"start", "stop"} /\ op' = op /\ arg' = arg /\ pc' # "self"
        /\ UNCHANGED <<tasks_run, task_is_running, dpi_opaque>>
        /\ posted' = Append(posted, c) /\ Idle(c)
        /\ msg' = [msg EXCEPT ![c] = [req |-> TRUE, task_id |-> arg,
                     type |-> IF op = "start" THEN "START" ELSE "STOP"]]
    BY <1>7 DEF start_post, stop_post, PostMsg, Free
  <2>2. c \in Cores
    BY <1>0, <1>7 DEF TypeOK, start_post, stop_post
  <2>3. EngineReady'
    BY <2>1, <1>0 DEF EngineReady
  <2>4. ASSUME NEW d \in Cores, d # c
        PROVE  msg'[d] = msg[d]
    BY <2>1, <2>4, <1>0
  <2>5. msg'[c].req /\ msg'[c].task_id = arg /\ msg'[c].type = (IF op = "start" THEN "START" ELSE "STOP")
    BY <2>1, <2>2, <1>0
  <2>6. \A j \in 1 .. Len(posted') :
          \/ posted'[j] = c
          \/ j \in 1 .. Len(posted) /\ posted'[j] = posted[j] /\ posted[j] \in Cores
    BY <2>1, <2>2, <1>0
  <2>7. ASSUME NEW j \in 1 .. Len(posted') PROVE PostedOrDone(posted[j])'
    <3>1. CASE posted'[j] = c
      BY <3>1, <2>1, <2>5 DEF PostedOrDone, Idle
    <3>2. CASE posted'[j] # c
      <4>1. /\ posted'[j] = posted[j] /\ msg'[posted[j]] = msg[posted[j]]
            /\ PostedOrDone(posted[j])
        BY <3>2, <2>4, <2>6, <1>0 DEF AllPostedOrDone
      <4> QED BY <4>1, <2>1 DEF PostedOrDone, Idle, CommandDone, n_tasks_run, InRun
    <3> QED BY <3>1, <3>2
  <2> QED BY <2>1, <2>3, <2>7 DEF EInv, AllPostedOrDone
<1>8. CASE other_post
  <2>1. /\ op = "other" /\ op' = op /\ posted' = posted
        /\ UNCHANGED <<task_is_running, dpi_opaque>>
    BY <1>8 DEF other_post
  <2>2. posted' = <<>> /\ Len(posted') = 0
    BY <2>1, <1>0 DEF AllPostedOrDone
  <2> QED BY <2>1, <2>2, <1>0 DEF EInv, AllPostedOrDone, EngineReady
<1>9. CASE other_self
  <2> DEFINE c == Head(todo)
  <2>1. /\ pc = "self" /\ pc' = "idle" /\ op' = op /\ posted' = posted
        /\ lconf_do_flags(c) \/ UNCHANGED <<task_is_running, dpi_opaque>>
    BY <1>9 DEF other_self, coreVars
  <2>2. posted' = <<>> /\ Len(posted') = 0
    BY <2>1, <1>0 DEF AllPostedOrDone
  <2>3. c \in Cores /\ msg[c].type = "OTHER"
    BY <2>1, <1>0 DEF TypeOK, IInv, SelfPosted
  <2>4. EngineReady'
    BY <2>1, <2>3, <1>0, EngineKept DEF EngineReady
  <2> QED BY <2>1, <2>2, <2>4 DEF EInv, AllPostedOrDone
<1>10. ASSUME NEW c \in Cores, tsc_term(c) PROVE EInv'
  <2>1. /\ msg[c].req /\ lconf_do_flags(c) /\ UNCHANGED <<pc, op, arg, todo, posted>>
    BY <1>10 DEF tsc_term, masterVars
  <2>2. msg[c].type = "START" => msg[c].task_id < n_tasks_all[c]
    BY <2>1, <1>0 DEF StartValid
  <2>3. EngineReady'
    BY <2>1, <2>2, <1>0, EngineKept
  <2>4. /\ HandlerFrame(c) /\ msg' = [msg EXCEPT ![c].req = FALSE]
        /\ \A d \in Cores : d # c => tasks_run'[d] = tasks_run[d]
    BY <2>1, <2>2, <1>0, DoFlags, FramePreserves
  <2>5. ASSUME NEW i \in 1 .. Len(posted) PROVE PostedOrDone(posted[i])'
    <3>0. posted[i] \in Cores /\ PostedOrDone(posted[i])
      BY <1>0 DEF AllPostedOrDone
    <3>1. CASE posted[i] = c
      <4>1. CommandDone(c)'
        BY <3>1, <2>1, HandledIsDone
      <4>2. ~ msg'[c].req
        BY <2>4, <1>0
      <4> QED BY <3>1, <4>1, <4>2, <2>1
              DEF PostedOrDone, Idle, CommandDone, n_tasks_run, InRun
    <3>2. CASE posted[i] # c
      <4>1. /\ msg'[posted[i]] = msg[posted[i]]
            /\ tasks_run'[posted[i]] = tasks_run[posted[i]]
        BY <3>0, <3>2, <2>4, <1>0
      <4> QED BY <3>0, <4>1, <2>1 DEF PostedOrDone, Idle, CommandDone, n_tasks_run, InRun
    <3> QED BY <3>1, <3>2
  <2> QED BY <2>1, <2>3, <2>5, <1>0 DEF EInv, AllPostedOrDone
<1> QED BY <1>1, <1>2, <1>3, <1>4, <1>5, <1>6, <1>7, <1>8, <1>9, <1>10, <1>11, <1>12
        DEF Next, InCommand, Worker

\* Once a start or stop is answered, the core is in the state it asked for,
\* and a running fm task has its engine, for any cores, tasks and commands,
\* provided the tasks of one core all have start_first or none has.
THEOREM CommandsTakeEffect ==
  ASSUME UniformFM
  PROVE  Spec => []CommandsEffective
<1>1. Init => EInv
  BY DEF Init, EInv, AllPostedOrDone, EngineReady
<1>2. IInv /\ EInv /\ [Next]_vars => EInv'
  BY StepEInv
<1>3. EInv => CommandsEffective
  BY DEF EInv, AllPostedOrDone, PostedOrDone, CommandsEffective, ConsumedMeansDone
<1> QED BY <1>1, <1>2, <1>3, Invariance, PTL DEF Spec

-----------------------------------------------------------------------------
(***************************************************************************)
(* No message without a thread that polls its slot.                        *)
(***************************************************************************)

\* What the master's lists say of the cores.
LEMMA TailDistinct ==
  ASSUME NEW s \in Seq(Cores), s # <<>>, Distinct(s)
  PROVE  /\ Tail(s) \in Seq(Cores) /\ Distinct(Tail(s))
         /\ \A j \in 1 .. Len(Tail(s)) : /\ j + 1 \in 2 .. Len(s) /\ Tail(s)[j] = s[j + 1]
                                         /\ Tail(s)[j] # Head(s)
<1>1. /\ Tail(s) \in Seq(Cores) /\ 1 \in 1 .. Len(s) /\ Head(s) = s[1]
      /\ \A j \in 1 .. Len(Tail(s)) : j + 1 \in 2 .. Len(s) /\ Tail(s)[j] = s[j + 1]
  OBVIOUS
<1>2. \A i, j \in 1 .. Len(s) : i # j => s[i] # s[j]
  BY DEF Distinct
<1>3. \A j \in 1 .. Len(Tail(s)) : Tail(s)[j] # Head(s)
  BY <1>1, <1>2
<1>4. Distinct(Tail(s))
  BY <1>1, <1>2 DEF Distinct
<1> QED BY <1>1, <1>3, <1>4

LEMMA AppendWaited ==
  ASSUME posted \in Seq(Cores), Distinct(posted), NEW c \in Cores, c \notin Waiting,
         posted' = Append(posted, c)
  PROVE  /\ Distinct(posted')
         /\ Waiting' = Waiting \cup {c}
<1>1. /\ Len(posted') = Len(posted) + 1 /\ posted'[Len(posted) + 1] = c
      /\ Len(posted) \in Nat
      /\ \A i \in 1 .. Len(posted) : posted'[i] = posted[i]
  OBVIOUS
<1>2. Waiting' = Waiting \cup {c}
  <2>1. \A i \in 1 .. Len(posted') : i \in 1 .. Len(posted) \/ i = Len(posted) + 1
    BY <1>1
  <2>2. Len(posted) + 1 \in 1 .. Len(posted') /\ \A i \in 1 .. Len(posted) : i \in 1 .. Len(posted')
    BY <1>1
  <2> QED BY <1>1, <2>1, <2>2 DEF Waiting
<1>3. Distinct(posted')
  <2> SUFFICES ASSUME NEW i \in 1 .. Len(posted) + 1, NEW j \in 1 .. Len(posted) + 1, i # j
               PROVE  posted'[i] # posted'[j]
    BY <1>1 DEF Distinct
  <2>1. CASE i \in 1 .. Len(posted) /\ j \in 1 .. Len(posted)
    BY <2>1, <1>1 DEF Distinct
  <2>2. CASE i \in 1 .. Len(posted) /\ j = Len(posted) + 1
    BY <2>2, <1>1 DEF Waiting
  <2>3. CASE i = Len(posted) + 1 /\ j \in 1 .. Len(posted)
    BY <2>3, <1>1 DEF Waiting
  <2> QED BY <2>1, <2>2, <2>3, <1>1
<1> QED BY <1>2, <1>3

LEMMA TailWaited ==
  ASSUME posted \in Seq(Cores), Distinct(posted), posted # <<>>, posted' = Tail(posted)
  PROVE  /\ Distinct(posted')
         /\ Waiting' = Waiting \ {Head(posted)}
<1>1. /\ Distinct(posted')
      /\ \A j \in 1 .. Len(posted') : /\ j + 1 \in 2 .. Len(posted)
                                      /\ posted'[j] = posted[j + 1]
                                      /\ posted'[j] # Head(posted)
  BY TailDistinct
<1>2. ASSUME NEW d \in Waiting' PROVE d \in Waiting \ {Head(posted)}
  BY <1>1, <1>2 DEF Waiting
<1>3. ASSUME NEW d \in Waiting, d # Head(posted) PROVE d \in Waiting'
  <2>1. PICK i \in 1 .. Len(posted) : posted[i] = d
    BY <1>3 DEF Waiting
  <2>2. i # 1 /\ Len(posted') = Len(posted) - 1
    BY <2>1, <1>3
  <2>3. i - 1 \in 1 .. Len(posted') /\ posted'[i - 1] = d
    BY <2>1, <2>2, <1>1
  <2> QED BY <2>3 DEF Waiting
<1> QED BY <1>1, <1>2, <1>3

\* The head of todo while the master is at it, and what the lists say of it.
LEMMA HeadOfTodo ==
  ASSUME IInv, Visits, pc \in {"wait", "launch", "self"}
  PROVE  /\ todo \in Seq(Cores) /\ todo # <<>> /\ Head(todo) \in Cores
         /\ Head(todo) \in Waiting <=> pc = "launch"
<1>1. todo \in Seq(Cores) /\ todo # <<>>
  BY DEF IInv, TypeOK
<1>2. 1 \in 1 .. Len(todo) /\ Head(todo) = todo[1] /\ Head(todo) \in Cores
  BY <1>1
<1> QED BY <1>1, <1>2 DEF Visits

LEMMA NothingWaited == posted = <<>> => Waiting = {}
BY DEF Waiting

LEMMA WatchedSame ==
  ASSUME WInv, UNCHANGED <<msg, tasks_run, flag_running, lcore, wpc, op, posted>>,
         pc \notin {"launch", "self"}
  PROVE  \A c \in Cores : Watched(c)'
BY DEF WInv, Watched, Waiting, Settled, Starting, Stopping, Running, Served

LEMMA WatchedCommand ==
  ASSUME NoDuplicates, IInv, WInv, start_command \/ stop_command \/ other_command
  PROVE  WInv'
<1>1. PICK o \in {"start", "stop", "other"}, cs \in Seq(Cores), t \in TaskArgs :
        Command(o, cs, t) /\ Distinct(cs)
  <2>1. CASE start_command
    BY <2>1, CoreControlAssumption DEF start_command, NoDuplicates
  <2>2. CASE stop_command
    BY <2>2, CoreControlAssumption DEF stop_command, NoDuplicates
  <2>3. CASE other_command
    <3>1. PICK c \in Cores, t \in TaskArgs : Command("other", <<c>>, t)
      BY <2>3 DEF other_command
    <3>2. <<c>> \in Seq(Cores) /\ Distinct(<<c>>)
      BY DEF Distinct
    <3> QED BY <3>1, <3>2
  <2> QED BY <2>1, <2>2, <2>3
<1>2. /\ op' = o /\ todo' = cs /\ posted' = <<>> /\ pc = "idle"
      /\ pc' = IF o = "other" THEN "wait" ELSE "check"
      /\ UNCHANGED <<msg, tasks_run, flag_running, lcore, wpc>>
  BY <1>1 DEF Command, coreVars, workerVars
<1>3. Waiting = {} /\ Waiting' = {}
  BY <1>2, NothingWaited DEF WInv, Visits, Waiting
<1>4. Visits'
  <2>1. Distinct(posted')
    BY <1>2 DEF Distinct
  <2> QED BY <2>1, <1>1, <1>2, <1>3 DEF Visits
<1>5. ASSUME NEW c \in Cores PROVE Watched(c)'
  <2>1. Settled(c)
    BY <1>3 DEF WInv, Watched
  <2> QED BY <2>1, <1>2, <1>3 DEF Watched, Settled, Running, Served
<1> QED BY <1>4, <1>5 DEF WInv

\* Steps of the master that change only where it is.
LEMMA WatchedControl ==
  ASSUME IInv, WInv, Check \/ SecondLoop \/ Done
  PROVE  WInv'
<1>0. todo \in Seq(Cores) /\ Visits
  BY DEF IInv, TypeOK, WInv
<1>1. /\ UNCHANGED <<msg, tasks_run, flag_running, lcore, wpc, op, posted>>
      /\ pc \in {"check", "ack"} /\ pc' # "self"
  BY DEF Check, SecondLoop, Done, coreVars, workerVars
<1>2. Waiting' = Waiting
  BY <1>1 DEF Waiting
<1>3. Distinct(posted') /\ op # "other"
  BY <1>0, <1>1 DEF Visits
<1>4. CASE Check
  <2>1. /\ pc = "check" /\ todo # <<>>
        /\ \/ Eligible(Head(todo)) /\ pc' = "wait" /\ todo' = todo
           \/ pc' = "check" /\ todo' = Tail(todo)
    BY <1>4 DEF Check
  <2>2. \A i \in 1 .. Len(todo) : todo[i] \notin Waiting
    BY <2>1, <1>0 DEF Visits
  <2>3. Distinct(todo') /\ \A i \in 1 .. Len(todo') : todo'[i] \notin Waiting
    <3>1. CASE todo' = todo
      BY <3>1, <2>2, <1>0 DEF Visits
    <3>2. CASE todo' = Tail(todo)
      BY <3>2, <2>1, <2>2, <1>0, TailDistinct DEF Visits
    <3> QED BY <2>1, <3>1, <3>2
  <2>4. pc' = "wait" /\ op = "stop" => tasks_run[Head(todo')] # <<>>
    <3> SUFFICES ASSUME pc' = "wait", op = "stop" PROVE tasks_run[Head(todo)] # <<>>
      BY <2>1
    <3>1. Len(tasks_run[Head(todo)]) # 0
      BY <2>1 DEF Eligible, n_tasks_run
    <3> QED BY <3>1
  <2> QED BY <2>1, <2>3, <2>4, <1>1, <1>2, <1>3, WatchedSame DEF Visits, WInv
<1>5. CASE SecondLoop
  <2>1. pc = "check" /\ pc' = "ack" /\ todo = <<>> /\ todo' = <<>>
    BY <1>5 DEF SecondLoop
  <2> QED BY <2>1, <1>0, <1>1, <1>2, <1>3, WatchedSame DEF Visits, WInv
<1>6. CASE Done
  <2>1. pc = "ack" /\ pc' = "idle" /\ todo = <<>> /\ todo' = <<>> /\ posted = <<>>
    BY <1>6, <1>0 DEF Done, Visits
  <2> QED BY <2>1, <1>0, <1>1, <1>2, <1>3, WatchedSame DEF Visits, WInv
<1> QED BY <1>4, <1>5, <1>6

\* A message posted to an idle core.
LEMMA WatchedStartPost ==
  ASSUME IInv, WInv, start_post
  PROVE  WInv'
<1> DEFINE c == Head(todo)
<1>0. /\ Visits /\ posted \in Seq(Cores)
      /\ msg \in [Cores -> [req : BOOLEAN, type : MsgTypes, task_id : Nat \cup {-1}]]
      /\ flag_running \in [Cores -> BOOLEAN]
  BY DEF IInv, TypeOK, WInv
<1>1. /\ pc = "wait" /\ op = "start" /\ op' = op /\ ~ msg[c].req
      /\ msg' = [msg EXCEPT ![c] = [req |-> TRUE, type |-> "START", task_id |-> arg]]
      /\ flag_running' = [flag_running EXCEPT ![c] = TRUE]
      /\ posted' = Append(posted, c) /\ pc' = "launch"
      /\ UNCHANGED <<tasks_run, lcore, wpc, todo>>
  BY DEF start_post, PostMsg, Free, Idle, workerVars
<1>2. todo \in Seq(Cores) /\ todo # <<>> /\ c \in Cores /\ c \notin Waiting /\ c = todo[1]
  BY <1>0, <1>1, HeadOfTodo
<1>3. Distinct(posted') /\ Waiting' = Waiting \cup {c}
  BY <1>0, <1>1, <1>2, AppendWaited DEF Visits
<1>4. /\ msg'[c].req /\ msg'[c].type = "START" /\ flag_running'[c]
      /\ \A d \in Cores : d # c => msg'[d] = msg[d] /\ flag_running'[d] = flag_running[d]
  BY <1>0, <1>1, <1>2
<1>5. Visits'
  <2>1. \A i \in 1 .. Len(todo) : todo[i] \in Waiting' <=> i = 1
    BY <1>0, <1>1, <1>2, <1>3 DEF Visits, Distinct
  <2> QED BY <2>1, <1>0, <1>1, <1>3 DEF Visits
<1>6. Settled(c) /\ \A d \in Cores : Watched(d)
  BY <1>2 DEF WInv, Watched
<1>7. Starting(c)'
  BY <1>1, <1>4, <1>6 DEF Starting, Settled, Running
<1>8. ASSUME NEW d \in Cores, d # c PROVE Watched(d)'
  <2>1. msg'[d] = msg[d] /\ flag_running'[d] = flag_running[d] /\ (d \in Waiting' <=> d \in Waiting)
    BY <1>3, <1>4, <1>8
  <2> QED BY <2>1, <1>1, <1>6 DEF Watched, Settled, Starting, Running, Served
<1> QED BY <1>1, <1>2, <1>3, <1>5, <1>7, <1>8 DEF WInv, Watched

LEMMA WatchedStopPost ==
  ASSUME IInv, WInv, stop_post
  PROVE  WInv'
<1>0. /\ Visits /\ posted \in Seq(Cores)
      /\ msg \in [Cores -> [req : BOOLEAN, type : MsgTypes, task_id : Nat \cup {-1}]]
  BY DEF IInv, TypeOK, WInv
<1>a. pc = "wait" /\ Head(todo) \in Cores
  BY HeadOfTodo DEF stop_post, WInv
<1>b. PICK c \in Cores : c = Head(todo)
  BY <1>a
<1>1. /\ pc = "wait" /\ op = "stop" /\ op' = op /\ ~ msg[c].req
      /\ msg' = [msg EXCEPT ![c] = [req |-> TRUE, type |-> "STOP", task_id |-> arg]]
      /\ posted' = Append(posted, c) /\ pc' = "check" /\ todo' = Tail(todo)
      /\ UNCHANGED <<tasks_run, flag_running, lcore, wpc>>
  BY <1>b DEF stop_post, PostMsg, Free, Idle, workerVars
<1>2. todo \in Seq(Cores) /\ todo # <<>> /\ c \in Cores /\ c \notin Waiting /\ c = todo[1]
  BY <1>0, <1>1, <1>b, HeadOfTodo
<1>3. Distinct(posted') /\ Waiting' = Waiting \cup {c}
  BY <1>0, <1>1, <1>2, AppendWaited DEF Visits
<1>4. /\ msg'[c].req /\ msg'[c].type = "STOP"
      /\ \A d \in Cores : d # c => msg'[d] = msg[d]
  BY <1>0, <1>1, <1>2
<1>5. Visits'
  <2>1. \A i \in 1 .. Len(todo) : todo[i] \notin Waiting
    BY <1>0, <1>1 DEF Visits
  <2>2. Distinct(todo') /\ \A i \in 1 .. Len(todo') : todo'[i] \notin Waiting'
    BY <2>1, <1>0, <1>1, <1>2, <1>3, TailDistinct DEF Visits
  <2> QED BY <2>2, <1>0, <1>1, <1>3 DEF Visits
<1>6. Settled(c) /\ tasks_run[c] # <<>> /\ \A d \in Cores : Watched(d)
  BY <1>0, <1>1, <1>2 DEF WInv, Watched, Visits
<1>7. Stopping(c)'
  BY <1>1, <1>4, <1>6 DEF Stopping, Settled, Running
<1>8. ASSUME NEW d \in Cores, d # c PROVE Watched(d)'
  <2>1. msg'[d] = msg[d] /\ (d \in Waiting' <=> d \in Waiting)
    BY <1>3, <1>4, <1>8
  <2> QED BY <2>1, <1>1, <1>6 DEF Watched, Settled, Stopping, Running, Served
<1> QED BY <1>1, <1>2, <1>3, <1>5, <1>7, <1>8 DEF WInv, Watched

\* The command of one core: its message is written, and then handled by the
\* master unless the core's thread runs.
LEMMA WatchedOther ==
  ASSUME IInv, WInv, other_post \/ other_self
  PROVE  WInv'
<1> DEFINE c == Head(todo)
<1>0. /\ Visits /\ TypeOK /\ RunListConsistent
      /\ msg \in [Cores -> [req : BOOLEAN, type : MsgTypes, task_id : Nat \cup {-1}]]
  BY DEF IInv, TypeOK, WInv
<1>1. /\ op = "other" /\ op' = op /\ pc \in {"wait", "self"} /\ posted' = posted
      /\ UNCHANGED <<flag_running, lcore, wpc>>
  BY <1>0 DEF other_post, other_self, workerVars, Visits
<1>2. todo \in Seq(Cores) /\ todo # <<>> /\ c \in Cores
  BY <1>0, <1>1, HeadOfTodo
<1>3. posted = <<>> /\ Waiting = {} /\ Waiting' = {}
  BY <1>0, <1>1, NothingWaited DEF Visits, Waiting
<1>4. \A d \in Cores : Settled(d)
  BY <1>3 DEF WInv, Watched
<1>5. CASE other_post
  <2>1. /\ msg' = [msg EXCEPT ![c] = [req |-> TRUE, type |-> "OTHER", task_id |-> arg]]
        /\ pc = "wait" /\ pc' = "self" /\ UNCHANGED <<tasks_run, todo>>
    BY <1>5 DEF other_post, PostMsg
  <2>2. msg'[c].type = "OTHER" /\ \A d \in Cores : d # c => msg'[d] = msg[d]
    BY <2>1, <1>0, <1>2
  <2>3. Visits'
    BY <2>1, <1>0, <1>1, <1>3 DEF Visits
  <2>4. ASSUME NEW d \in Cores PROVE Settled(d)'
    BY <2>1, <2>2, <1>1, <1>4 DEF Settled, Running, Served
  <2> QED BY <2>3, <2>4, <1>3 DEF WInv, Watched
<1>6. CASE other_self
  <2>1. pc = "self" /\ pc' = "idle" /\ todo' = <<>>
    BY <1>6 DEF other_self
  <2>2. /\ tasks_run' = tasks_run
        /\ \A d \in Cores : d # c => msg'[d] = msg[d]
        /\ msg'[c].req => msg'[c] = msg[c] /\ Running(c)
    <3>1. CASE n_tasks_run(c) = 0
      <4>1. lconf_do_flags(c) /\ msg[c].type = "OTHER"
        BY <3>1, <2>1, <1>6 DEF other_self, IInv, SelfPosted
      <4>2. msg' = [msg EXCEPT ![c].req = FALSE] /\ tasks_run' = tasks_run
        BY <4>1, <1>0, <1>2, DoFlags
      <4> QED BY <4>2, <1>0, <1>2
    <3>2. CASE n_tasks_run(c) # 0
      <4>1. msg' = msg /\ tasks_run' = tasks_run
        BY <3>2, <1>6 DEF other_self, coreVars
      <4>2. tasks_run[c] # <<>>
        BY <3>2 DEF n_tasks_run
      <4> QED BY <4>1, <4>2, <1>2, <1>4 DEF Settled
    <3> QED BY <3>1, <3>2
  <2>3. Visits'
    BY <2>1, <1>0, <1>1, <1>3 DEF Visits, Distinct
  <2>4. ASSUME NEW d \in Cores PROVE Settled(d)'
    BY <2>1, <2>2, <1>1, <1>4 DEF Settled, Running, Served
  <2> QED BY <2>3, <2>4, <1>3 DEF WInv, Watched
<1> QED BY <1>5, <1>6

LEMMA WatchedLaunch ==
  ASSUME IInv, WInv, start_launch
  PROVE  WInv'
<1>1. pc = "launch" /\ Visits /\ TypeOK
  BY DEF start_launch, WInv, IInv
<1>2. PICK c \in Cores : c = Head(todo)
  BY <1>1, HeadOfTodo
<1>3. todo \in Seq(Cores) /\ todo # <<>> /\ c = todo[1] /\ c \in Waiting /\ op = "start"
  BY <1>1, <1>2, HeadOfTodo DEF Visits
<1>4. /\ pc' = "check" /\ todo' = Tail(todo) /\ op' = op /\ posted' = posted
      /\ UNCHANGED <<msg, tasks_run, flag_running>>
  BY DEF start_launch, coreVars
<1>5. Waiting' = Waiting
  BY <1>4 DEF Waiting
<1>6. Starting(c) /\ \A d \in Cores : Watched(d)
  BY <1>3 DEF WInv, Watched
<1>7. /\ lcore'[c] = "RUNNING"
      /\ wpc'[c] = "loop" \/ (wpc'[c] = wpc[c] /\ lcore[c] = "RUNNING")
      /\ \A d \in Cores : d # c => lcore'[d] = lcore[d] /\ wpc'[d] = wpc[d]
  <2>1. CASE lcore[c] = "WAIT"
    <3>1. lcore' = [lcore EXCEPT ![c] = "RUNNING"] /\ wpc' = [wpc EXCEPT ![c] = "loop"]
      BY <2>1, <1>2 DEF start_launch
    <3> QED BY <3>1, <1>1 DEF TypeOK
  <2>2. CASE lcore[c] # "WAIT"
    <3>1. lcore' = lcore /\ wpc' = wpc
      BY <2>2, <1>2 DEF start_launch, workerVars
    <3>2. lcore[c] = "RUNNING"
      BY <2>2, <1>1, <1>6 DEF TypeOK, Starting
    <3> QED BY <3>1, <3>2
  <2> QED BY <2>1, <2>2
<1>8. Visits'
  <2>1. \A i \in 1 .. Len(todo) : i # 1 => todo[i] \notin Waiting
    BY <1>1 DEF Visits
  <2>2. Distinct(todo') /\ \A i \in 1 .. Len(todo') : todo'[i] \notin Waiting'
    BY <2>1, <1>1, <1>3, <1>4, <1>5, TailDistinct DEF Visits
  <2> QED BY <2>2, <1>1, <1>3, <1>4 DEF Visits
<1>9. Starting(c)'
  BY <1>4, <1>6, <1>7 DEF Starting, Running
<1>10. ASSUME NEW d \in Cores, d # c PROVE Watched(d)'
  BY <1>1, <1>2, <1>3, <1>4, <1>5, <1>6, <1>7, <1>10
     DEF Watched, Settled, Starting, Running, Served
<1> QED BY <1>3, <1>4, <1>5, <1>8, <1>9, <1>10 DEF WInv, Watched

\* The second loop: the first core waited for has answered.
LEMMA WatchedAck ==
  ASSUME IInv, WInv, Ack
  PROVE  WInv'
<1>0. /\ Visits /\ posted \in Seq(Cores) /\ todo \in Seq(Cores)
  BY DEF IInv, TypeOK, WInv
<1>1. /\ pc = "ack" /\ posted # <<>>
      /\ IF Joins(Head(posted)) THEN pc' = "join" /\ posted' = posted
                                ELSE pc' = "ack" /\ posted' = Tail(posted)
      /\ UNCHANGED <<msg, tasks_run, flag_running, lcore, wpc, op, todo>>
  BY Zenon DEF Ack, coreVars, workerVars
<1>2. PICK c \in Cores : c = Head(posted)
  BY <1>0, <1>1
<1>3. ~ msg[c].req /\ c \in Waiting /\ todo = <<>> /\ op # "other"
  <2>1. 1 \in 1 .. Len(posted) /\ c = posted[1]
    BY <1>0, <1>1, <1>2
  <2> QED BY <2>1, <1>0, <1>1, <1>2 DEF Waiting, Visits, Ack, Idle
<1>4. CASE Joins(c)
  <2>1. /\ op = "stop" /\ pc' = "join" /\ posted' = posted
    BY <1>1, <1>2, <1>4 DEF Joins
  <2>2. tasks_run[c] = <<>>
    BY <1>4 DEF Joins, n_tasks_run, IInv, TypeOK
  <2>3. Visits'
    BY <2>1, <2>2, <1>0, <1>1, <1>2, <1>3 DEF Visits
  <2> QED BY <2>1, <2>3, <1>1, WatchedSame DEF WInv
<1>5. CASE ~ Joins(c)
  <2>1. pc' = "ack" /\ posted' = Tail(posted)
    BY <1>1, <1>2, <1>5
  <2>2. Distinct(posted') /\ Waiting' = Waiting \ {c}
    BY <2>1, <1>0, <1>1, <1>2, TailWaited DEF Visits
  <2>3. tasks_run[c] # <<>>
    <3>1. CASE op = "start"
      BY <3>1, <1>3 DEF WInv, Watched, Starting
    <3>2. CASE op # "start"
      <4>1. op = "stop"
        BY <3>2, <1>3 DEF IInv, TypeOK
      <4>2. Len(tasks_run[c]) # 0
        BY <4>1, <1>5 DEF Joins, n_tasks_run
      <4> QED BY <4>2
    <3> QED BY <3>1, <3>2
  <2>4. Settled(c)
    BY <2>3, <1>1, <1>3 DEF WInv, Watched, Starting, Stopping, Settled, Running
  <2>5. Visits'
    BY <2>1, <2>2, <1>0, <1>1, <1>3 DEF Visits
  <2>6. ASSUME NEW d \in Cores PROVE Watched(d)'
    BY <2>1, <2>2, <2>4, <1>1 DEF WInv, Watched, Starting, Stopping, Settled, Running, Served
  <2> QED BY <2>5, <2>6 DEF WInv
<1> QED BY <1>4, <1>5

LEMMA WatchedJoin ==
  ASSUME IInv, WInv, stop_join
  PROVE  WInv'
<1>0. /\ Visits /\ posted \in Seq(Cores) /\ TypeOK
  BY DEF IInv, TypeOK, WInv
<1>1. /\ pc = "join" /\ pc' = "ack" /\ posted # <<>> /\ posted' = Tail(posted)
      /\ op = "stop" /\ todo = <<>>
      /\ UNCHANGED <<msg, tasks_run, wpc, op, todo>>
  BY <1>0 DEF stop_join, coreVars, TypeOK, Visits
<1>2. PICK c \in Cores : c = Head(posted)
  BY <1>0, <1>1
<1>3. /\ ~ msg[c].req /\ tasks_run[c] = <<>>
      /\ lcore' = [lcore EXCEPT ![c] = "WAIT"]
      /\ flag_running' = [flag_running EXCEPT ![c] = FALSE]
  BY <1>0, <1>1, <1>2 DEF stop_join, Visits, FlagCleared
<1>4. /\ lcore'[c] = "WAIT" /\ ~ flag_running'[c]
      /\ \A d \in Cores : d # c => lcore'[d] = lcore[d] /\ flag_running'[d] = flag_running[d]
  BY <1>0, <1>3 DEF TypeOK
<1>5. Distinct(posted') /\ Waiting' = Waiting \ {c}
  BY <1>0, <1>1, <1>2, TailWaited DEF Visits
<1>6. Visits'
  BY <1>0, <1>1, <1>5 DEF Visits
<1>7. Settled(c)'
  BY <1>1, <1>3, <1>4 DEF Settled, Running
<1>8. ASSUME NEW d \in Cores, d # c PROVE Watched(d)'
  BY <1>1, <1>4, <1>5, <1>8 DEF WInv, Watched, Stopping, Settled, Running, Served
<1> QED BY <1>5, <1>6, <1>7, <1>8 DEF WInv, Watched

\* A step of the worker of c leaves the other cores as they were.
LEMMA WatchedElsewhere ==
  ASSUME WInv, NEW c \in Cores, UNCHANGED <<flag_running, pc, op, todo>>, Waiting' = Waiting,
         \A d \in Cores : d # c => /\ msg'[d] = msg[d] /\ tasks_run'[d] = tasks_run[d]
                                   /\ lcore'[d] = lcore[d] /\ wpc'[d] = wpc[d]
  PROVE  \A d \in Cores : d # c => Watched(d)'
BY DEF WInv, Watched, Settled, Starting, Stopping, Running, Served

\* The worker handles a message ...
LEMMA WatchedTerm ==
  ASSUME IInv, WInv, NEW c \in Cores, tsc_term(c)
  PROVE  WInv'
<1>0. /\ Visits /\ TypeOK /\ RunListConsistent /\ Watched(c)
      /\ msg \in [Cores -> [req : BOOLEAN, type : MsgTypes, task_id : Nat \cup {-1}]]
  BY DEF IInv, TypeOK, WInv
<1>1. /\ Running(c) /\ wpc[c] = "loop" /\ msg[c].req /\ lconf_do_flags(c)
      /\ wpc' = [wpc EXCEPT ![c] =
           IF msg[c].type \in {"START", "STOP"} THEN "reload" ELSE "loop"]
      /\ UNCHANGED <<flag_running, lcore, pc, op, arg, todo, posted>>
  BY DEF tsc_term, masterVars, Reloads, Running
<1>2. /\ HandlerFrame(c) /\ msg' = [msg EXCEPT ![c].req = FALSE]
      /\ msg[c].type = "START" => tasks_run'[c] # <<>>
      /\ msg[c].type = "OTHER" => tasks_run' = tasks_run
      /\ \A d \in Cores : d # c => tasks_run'[d] = tasks_run[d]
  BY <1>0, <1>1, DoFlags, FramePreserves DEF IInv, StartValid
<1>3. ~ msg'[c].req /\ \A d \in Cores : d # c => msg'[d] = msg[d]
  BY <1>0, <1>2
<1>4. /\ \A d \in Cores : d # c => wpc'[d] = wpc[d]
      /\ wpc'[c] = IF msg[c].type \in {"START", "STOP"} THEN "reload" ELSE "loop"
  BY <1>0, <1>1 DEF TypeOK
<1>5. Waiting' = Waiting
  BY <1>1 DEF Waiting
<1>6. Visits'
  <2>1. pc = "join" => /\ Head(posted) \in Cores /\ ~ msg'[Head(posted)].req
                       /\ tasks_run'[Head(posted)] = <<>>
    <3> SUFFICES ASSUME pc = "join"
                 PROVE  /\ Head(posted) \in Cores /\ ~ msg'[Head(posted)].req
                        /\ tasks_run'[Head(posted)] = <<>>
      OBVIOUS
    <3>1. posted \in Seq(Cores) /\ posted # <<>> /\ Head(posted) \in Cores
      BY <1>0 DEF TypeOK
    <3>2. ~ msg[Head(posted)].req /\ tasks_run[Head(posted)] = <<>>
      BY <1>0 DEF Visits
    <3> QED BY <3>1, <3>2, <1>1, <1>2, <1>3
  <2>2. pc = "wait" /\ op = "stop" => tasks_run'[Head(todo)] # <<>>
    <3> SUFFICES ASSUME pc = "wait", op = "stop" PROVE tasks_run'[Head(todo)] # <<>>
      OBVIOUS
    <3>1. Head(todo) \in Cores /\ Head(todo) \notin Waiting
      BY <1>0, HeadOfTodo
    <3>2. tasks_run[Head(todo)] # <<>>
      BY <1>0 DEF Visits
    <3>3. CASE Head(todo) = c
      <4>1. msg[c].type = "OTHER"
        BY <3>1, <3>3, <1>0, <1>1 DEF Watched, Settled
      <4> QED BY <4>1, <3>2, <1>2
    <3>4. CASE Head(todo) # c
      BY <3>1, <3>2, <3>4, <1>2
    <3> QED BY <3>3, <3>4
  <2> QED BY <2>1, <2>2, <1>0, <1>1, <1>5 DEF Visits
<1>7. CASE c \notin Waiting
  <2>1. Settled(c) /\ msg[c].type = "OTHER" /\ tasks_run' = tasks_run
    BY <1>0, <1>1, <1>2, <1>7 DEF Watched, Settled
  <2>2. Settled(c)'
    BY <2>1, <1>1, <1>3 DEF Settled, Running
  <2> QED BY <2>2, <1>1, <1>2, <1>3, <1>4, <1>5, <1>6, <1>7, WatchedElsewhere DEF WInv, Watched
<1>8. CASE c \in Waiting /\ op = "start"
  <2>1. Starting(c) /\ tasks_run'[c] # <<>>
    BY <1>0, <1>1, <1>2, <1>8 DEF Watched, Starting
  <2>2. Starting(c)'
    BY <2>1, <1>1, <1>3 DEF Starting, Running
  <2> QED BY <2>2, <1>1, <1>2, <1>3, <1>4, <1>5, <1>6, <1>8, WatchedElsewhere DEF WInv, Watched
<1>9. CASE c \in Waiting /\ op # "start"
  <2>1. Stopping(c) /\ wpc'[c] = "reload"
    BY <1>0, <1>1, <1>4, <1>9 DEF Watched, Stopping
  <2>2. Stopping(c)'
    BY <2>1, <1>1, <1>3 DEF Stopping, Running
  <2> QED BY <2>2, <1>1, <1>2, <1>3, <1>4, <1>5, <1>6, <1>9, WatchedElsewhere DEF WInv, Watched
<1> QED BY <1>7, <1>8, <1>9

\* ... and returns from its loop.
LEMMA WatchedReload ==
  ASSUME IInv, WInv, NEW c \in Cores, Reload(c)
  PROVE  WInv'
<1>0. Visits /\ TypeOK /\ Watched(c)
  BY DEF IInv, WInv
<1>1. /\ Running(c) /\ wpc[c] = "reload"
      /\ UNCHANGED <<msg, tasks_run, flag_running, pc, op, arg, todo, posted>>
  BY DEF Reload, Running, coreVars, masterVars
<1>2. /\ lcore'[c] = "RUNNING" <=> tasks_run[c] # <<>>
      /\ wpc'[c] = "loop"
      /\ \A d \in Cores : d # c => wpc'[d] = wpc[d] /\ lcore'[d] = lcore[d]
  <2>1. tasks_run[c] \in Seq(Nat) /\ (Len(tasks_run[c]) > 0 <=> tasks_run[c] # <<>>)
    BY <1>0 DEF TypeOK
  <2>2. /\ wpc' = [wpc EXCEPT ![c] = "loop"]
        /\ lcore' = [lcore EXCEPT ![c] =
             IF Len(tasks_run[c]) > 0 THEN "RUNNING"
             ELSE IF EalFinished THEN "FINISHED" ELSE "WAIT"]
    BY DEF Reload, TasksLeft, n_tasks_run
  <2> QED BY <2>1, <2>2, <1>0 DEF TypeOK
<1>3. Waiting' = Waiting
  BY <1>1 DEF Waiting
<1>4. Visits'
  BY <1>0, <1>1, <1>3 DEF Visits
<1>5. Watched(c)'
  BY <1>0, <1>1, <1>2, <1>3 DEF Watched, Settled, Starting, Stopping, Running, Served
<1> QED BY <1>1, <1>2, <1>3, <1>4, <1>5, WatchedElsewhere DEF WInv

\* Without time-outs and with lists that name a core once: a message in a slot
\* has a thread that will handle it, and LCONF_FLAG_RUNNING tells between
\* commands which threads run, for any cores, tasks and commands.
THEOREM SlotsStayWatched ==
  ASSUME ~ Timeouts, NoDuplicates
  PROVE  Spec => []SlotWatched
<1>1. Init => WInv
  <2> SUFFICES ASSUME Init PROVE WInv
    OBVIOUS
  <2>1. Waiting = {} /\ Visits
    BY DEF Init, Waiting, Visits, Distinct
  <2>2. \A c \in Cores : Settled(c)
    BY DEF Init, Settled, Running
  <2> QED BY <2>1, <2>2 DEF WInv, Watched
<1>2. IInv /\ WInv /\ [Next]_vars => WInv'
  <2> SUFFICES ASSUME IInv, WInv, [Next]_vars PROVE WInv'
    OBVIOUS
  <2>1. CASE start_command \/ stop_command \/ other_command
    BY <2>1, WatchedCommand
  <2>2. CASE InCommand
    <3>1. CASE Check \/ SecondLoop \/ Done
      BY <3>1, WatchedControl
    <3>2. ~ Timeout
      BY DEF Timeout
    <3>3. CASE start_post \/ start_launch \/ stop_post
      BY <3>3, WatchedStartPost, WatchedLaunch, WatchedStopPost
    <3>4. CASE other_post \/ other_self \/ Ack \/ stop_join
      BY <3>4, WatchedOther, WatchedAck, WatchedJoin
    <3> QED BY <2>2, <3>1, <3>2, <3>3, <3>4 DEF InCommand
  <2>3. CASE \E c \in Cores : Worker(c)
    BY <2>3, WatchedTerm, WatchedReload DEF Worker
  <2>4. CASE UNCHANGED vars
    BY <2>4 DEF vars, WInv, Visits, Watched, Waiting, Settled, Starting, Stopping, Running, Served
  <2> QED BY <2>1, <2>2, <2>3, <2>4 DEF Next
<1>3. IInv /\ WInv => SlotWatched
  <2> SUFFICES ASSUME IInv, WInv PROVE SlotServed /\ RunningFlagAccurate
    BY DEF SlotWatched
  <2>1. SlotServed
    <3> SUFFICES ASSUME NEW c \in Cores, msg[c].req
                 PROVE  \/ lcore[c] = "RUNNING" /\ (wpc[c] = "reload" => tasks_run[c] # <<>>)
                        \/ pc = "launch" /\ Head(todo) = c /\ lcore[c] = "WAIT"
                        \/ pc = "self" /\ Head(todo) = c
      BY DEF SlotServed
    <3>1. lcore[c] \in {"WAIT", "RUNNING", "FINISHED"} /\ Watched(c)
      BY DEF IInv, TypeOK, WInv
    <3> QED BY <3>1 DEF Watched, Settled, Starting, Stopping, Running, Served
  <2>2. RunningFlagAccurate
    <3> SUFFICES ASSUME pc = "idle", NEW c \in Cores
                 PROVE  flag_running[c] <=> lcore[c] = "RUNNING"
      BY DEF RunningFlagAccurate
    <3>1. Waiting = {}
      BY NothingWaited DEF WInv, Visits
    <3> QED BY <3>1 DEF WInv, Watched, Settled, Running
  <2> QED BY <2>1, <2>2
<1> QED BY <1>1, <1>2, <1>3, Invariance, PTL DEF Spec

-----------------------------------------------------------------------------
(***************************************************************************)
(* Refinement of TaskControl.                                              *)
(***************************************************************************)

\* A step that changes neither tasks nor slots changes nothing abstractly.
LEMMA StutterStep ==
  ASSUME UNCHANGED <<msg, tasks_run>>
  PROVE  UNCHANGED <<RunSets, Pending>>
BY DEF RunSets, Pending, RunSet, n_tasks_run

\* A message written into a free slot is a request.
LEMMA PostIsRequest ==
  ASSUME TypeOK, NEW c \in Cores, Idle(c), tasks_run' = tasks_run,
         NEW type \in MsgTypes, PostMsg(c, type)
  PROVE  Abstract!Next
<1>1. msg' = [msg EXCEPT ![c] = [req |-> TRUE, type |-> type, task_id |-> arg]]
      /\ msg \in [Cores -> [req : BOOLEAN, type : MsgTypes, task_id : Nat \cup {-1}]]
      /\ ~ msg[c].req /\ arg \in Nat \cup {-1}
  BY DEF PostMsg, TypeOK, Idle
<1>2. RunSets' = RunSets
  BY DEF RunSets, RunSet, n_tasks_run
<1>3. Pending[c] = [type |-> "NONE", task_id |-> 0]
  BY <1>1 DEF Pending
<1>4. Pending' = [Pending EXCEPT ![c] = [type |-> type, task_id |-> arg]]
  <2>1. /\ msg'[c].req /\ msg'[c].type = type /\ msg'[c].task_id = arg
        /\ \A d \in Cores : d # c => msg'[d] = msg[d]
    BY <1>1
  <2>2. Pending'[c] = [type |-> type, task_id |-> arg]
    BY <2>1 DEF Pending
  <2>3. \A d \in Cores : d # c => Pending'[d] = Pending[d]
    BY <2>1 DEF Pending
  <2> QED BY <2>2, <2>3 DEF Pending
<1>5. Pending'[c] = [type |-> type, task_id |-> arg]
  BY <1>4 DEF Pending
<1>6. Abstract!Request(c)
  <2>1. Pending'[c] \in [type : {"START", "STOP", "OTHER"}, task_id : Nat \cup {-1}]
    BY <1>1, <1>5 DEF MsgTypes
  <2>2. Pending' = [Pending EXCEPT ![c] = Pending'[c]]
    BY <1>4, <1>5
  <2> QED BY <2>1, <2>2, <1>2, <1>3 DEF Abstract!Request, Abstract!NoRequest
<1> QED BY <1>6 DEF Abstract!Next

\* Handling a message serves the request it is.
LEMMA HandlerServes ==
  ASSUME TypeOK, RunListConsistent, NEW c \in Cores, msg[c].req, lconf_do_flags(c),
         msg[c].type = "START" => msg[c].task_id < n_tasks_all[c]
  PROVE  Abstract!Next
<1> DEFINE r == [type |-> msg[c].type, task_id |-> msg[c].task_id]
<1>1. /\ msg \in [Cores -> [req : BOOLEAN, type : MsgTypes, task_id : Nat \cup {-1}]]
      /\ msg[c].type \in MsgTypes /\ msg[c].task_id \in Nat \cup {-1}
      /\ n_tasks_all[c] \in Nat
  BY TasksAreNaturals DEF TypeOK
<1>2. /\ msg' = [msg EXCEPT ![c].req = FALSE]
      /\ task_is_running'[c] = RunningAfter(c)
      /\ RunListConsistent'
      /\ \A d \in Cores : d # c => tasks_run'[d] = tasks_run[d]
  BY DoFlags, HandlerApplies, FramePreserves
<1>3. Pending[c] = r /\ Pending' = [Pending EXCEPT ![c] = Abstract!NoRequest]
  <2>1. ~ msg'[c].req /\ \A d \in Cores : d # c => msg'[d] = msg[d]
    BY <1>1, <1>2
  <2> QED BY <2>1 DEF Pending, Abstract!NoRequest
<1>4. r # Abstract!NoRequest
  BY <1>1 DEF Abstract!NoRequest, MsgTypes
<1>5. RunSets[c] = task_is_running[c] /\ task_is_running[c] \subseteq 0 .. (n_tasks_all[c] - 1)
  BY DEF RunSets, RunListConsistent, Tasks
<1>6. RunSets' = [RunSets EXCEPT ![c] = RunningAfter(c)]
  <2>1. RunSet(c)' = RunningAfter(c)
    BY <1>2 DEF RunListConsistent
  <2>2. \A d \in Cores : d # c => RunSet(d)' = RunSet(d)
    BY <1>2 DEF RunSet, n_tasks_run
  <2> QED BY <2>1, <2>2 DEF RunSets
<1>7. RunningAfter(c) = CASE r.type = "START" -> RunSets[c] \cup Abstract!Named(c, r.task_id)
                          [] r.type = "STOP"  -> RunSets[c] \ Abstract!Named(c, r.task_id)
                          [] OTHER            -> RunSets[c]
  <2>1. CASE msg[c].type = "START"
    BY <2>1, <1>1, <1>5 DEF RunningAfter, Abstract!Named, Tasks
  <2>2. CASE msg[c].type = "STOP"
    BY <2>2, <1>1, <1>5 DEF RunningAfter, Abstract!Named, Tasks
  <2>3. CASE msg[c].type = "OTHER"
    BY <2>3, <1>5 DEF RunningAfter
  <2> QED BY <1>1, <2>1, <2>2, <2>3 DEF MsgTypes
<1> HIDE DEF r
<1>8. Abstract!Serve(c)
  BY <1>3, <1>4, <1>6, <1>7 DEF Abstract!Serve
<1> QED BY <1>8 DEF Abstract!Next

\* Every step of the machinery is a step of TaskControl or none.
LEMMA StepRefines ==
  ASSUME IInv, [Next]_vars
  PROVE  [Abstract!Next]_<<RunSets, Pending>>
<1>0. /\ TypeOK /\ RunListConsistent /\ StartValid /\ SelfPosted
      /\ todo \in Seq(Cores)
  BY DEF IInv, TypeOK
<1>1. CASE start_command \/ stop_command \/ other_command
  <2>1. UNCHANGED <<msg, tasks_run>>
    BY <1>1 DEF start_command, stop_command, other_command, Command, coreVars
  <2> QED BY <2>1, StutterStep
<1>2. CASE Check \/ SecondLoop \/ Ack \/ Done \/ Timeout \/ stop_join \/ start_launch
  <2>1. UNCHANGED <<msg, tasks_run>>
    BY <1>2 DEF Check, SecondLoop, Ack, Done, Timeout, stop_join, start_launch, coreVars
  <2> QED BY <2>1, StutterStep
<1>3. CASE start_post \/ stop_post \/ other_post
  <2> DEFINE c == Head(todo)
  <2>1. PICK type \in MsgTypes : PostMsg(c, type) /\ Idle(c) /\ tasks_run' = tasks_run
    BY <1>3 DEF start_post, stop_post, other_post, Free, MsgTypes
  <2>2. c \in Cores
    BY <1>0, <1>3 DEF TypeOK, start_post, stop_post, other_post
  <2> QED BY <2>1, <2>2, <1>0, PostIsRequest
<1>4. CASE other_self
  <2> DEFINE c == Head(todo)
  <2>1. c \in Cores /\ msg[c].type = "OTHER"
    BY <1>0, <1>4 DEF TypeOK, SelfPosted, other_self
  <2>2. CASE UNCHANGED <<msg, tasks_run>>
    BY <2>2, StutterStep
  <2>3. CASE lconf_do_flags(c)
    <3>1. CASE msg[c].req
      BY <3>1, <2>1, <2>3, <1>0, HandlerServes
    <3>2. CASE ~ msg[c].req
      <4>1. msg' = [msg EXCEPT ![c].req = FALSE] /\ tasks_run' = tasks_run
        BY <2>1, <2>3, <1>0, DoFlags
      <4>2. ~ msg'[c].req /\ \A d \in Cores : d # c => msg'[d] = msg[d]
        BY <4>1, <2>1, <1>0 DEF TypeOK
      <4>3. Pending' = Pending
        BY <4>2, <3>2 DEF Pending
      <4> QED BY <4>1, <4>3 DEF RunSets, RunSet, n_tasks_run
    <3> QED BY <3>1, <3>2
  <2> QED BY <1>4, <2>2, <2>3 DEF other_self, coreVars
<1>5. ASSUME NEW c \in Cores, tsc_term(c) PROVE Abstract!Next
  BY <1>0, <1>5, HandlerServes DEF tsc_term, StartValid
<1>6. ASSUME NEW c \in Cores, Reload(c) PROVE UNCHANGED <<RunSets, Pending>>
  BY <1>6, StutterStep DEF Reload, coreVars
<1>7. CASE UNCHANGED vars
  BY <1>7, StutterStep DEF vars
<1> QED BY <1>1, <1>2, <1>3, <1>4, <1>5, <1>6, <1>7 DEF Next, InCommand, Worker

\* The arrays and the one-place slots implement sets of tasks and requests:
\* a message is consumed once, not overwritten before, and the tasks change
\* only when one is consumed, and as it says.
THEOREM TaskControlImplemented == Spec => ImplementsTaskControl
<1>1. Init => Abstract!Init
  BY DEF Init, Abstract!Init, Abstract!NoRequest, RunSets, Pending, RunSet, n_tasks_run
<1>2. IInv /\ [Next]_vars => [Abstract!Next]_<<RunSets, Pending>>
  BY StepRefines
<1> QED BY <1>1, <1>2, Invariance, PTL DEF Spec, ImplementsTaskControl, Abstract!Spec

-----------------------------------------------------------------------------
(***************************************************************************)
(* The console: inputs, lines, silence, quit and links.                    *)
(***************************************************************************)
CoLine == Seq(STRING)
CoCommands == [buf : CoLine, line : CoLine, odd : BOOLEAN]
CoSteps == {"start", "quit"} \X Nat
CoRounds == [at : {"round"}, ready : SUBSET Nat, i : Nat \ {0}]
CoPlaces == {Step("inputs"), Step("links"), Step("read links"), Step("update"), Step("exit")}
CoReading == [at : {"commands"}, todo : Seq(CoSteps) \ {<<>>}, back : CoRounds]

CoTyped ==
  /\ co_deadline \in BOOLEAN /\ co_in \in Seq(Nat)
  /\ co_client \in [Clients -> [enabled : BOOLEAN, fd : Nat, buf : CoLine, line : CoLine, odd : BOOLEAN, since : Nat]]
  /\ co_pc \in CoPlaces \cup CoRounds \cup CoReading
  /\ co_sys \in [now : Nat \ {0}, heartbeat : Nat, running : SUBSET Nat, leaving : BOOLEAN, stop : BOOLEAN,
                 again : BOOLEAN, lsc : Nat, link : Nat, shown : Nat]
  /\ co_cmd \in CoCommands
  /\ co_ghost \in [open : SUBSET Nat, left : SUBSET Nat, unserved : SUBSET Nat, fds : Nat, heard : Nat]

\* A line that is not marked is as it was sent.
Whole(c) == ~c.odd => c.buf = c.line
CoWhole == Whole(co_cmd) /\ \A k \in Clients : Whole(co_client[k])

\* No two clients have one descriptor, and none has one that was left open.
Own == FdsOf(Enabled) \ {NoFd}
CoOwned ==
  /\ co_ghost.open = Own \cup co_ghost.left
  /\ Own \cup co_ghost.left \subseteq 1 .. co_ghost.fds
  /\ Own \cap co_ghost.left = {}
  /\ \A j, k \in Enabled : co_client[j].fd = co_client[k].fd => j = k \/ co_client[k].fd = NoFd

\* While the heartbeat counts, the last word was heard that long before it ends; when it
\* does not, nothing was started since.
CoSilent ==
  CoTimeout # 0 /\ co_ghost.heard # Never =>
    IF co_sys.heartbeat # Never
    THEN co_sys.heartbeat = co_ghost.heard + CoTimeout /\ co_sys.now < co_sys.heartbeat
    ELSE /\ co_sys.running = {} /\ co_pc.at # "commands"
         /\ co_sys.now >= co_ghost.heard + CoTimeout
         /\ \A k \in Enabled : co_client[k].since >= co_ghost.heard + CoTimeout

CoQuiet == co_sys.leaving /\ ~co_sys.again => co_sys.running = {}

CoInv ==
  /\ CoTyped /\ co_in # <<>> /\ InputsMatch /\ CoOwned
  /\ CoWhole /\ CoSilent /\ CoQuiet /\ LinksShown

\* What Without leaves of inputs that are listed once.
LEMMA WithoutKeeps ==
  ASSUME NEW in \in Seq(Nat), NEW x, IsInjective(in)
  PROVE  /\ Without(in, x) \in Seq(Nat) /\ IsInjective(Without(in, x))
         /\ Range(Without(in, x)) = Range(in) \ {x}
         /\ in # <<>> /\ in[1] # x => Without(in, x) # <<>> /\ Without(in, x)[1] = in[1]
<1> DEFINE First(i) == in[i] = x /\ \A j \in 1 .. i - 1 : in[j] # x
           p == CHOOSE i \in DOMAIN in : First(i)
           w == [i \in 1 .. Len(in) - 1 |-> IF i < p THEN in[i] ELSE in[i + 1]]
           n == Len(in)
<1>0. n \in Nat /\ DOMAIN in = 1 .. n /\ \A i \in 1 .. n : in[i] \in Nat
  OBVIOUS
<1>1. \A i, j \in 1 .. n : in[i] = in[j] => i = j
  BY <1>0 DEF IsInjective
<1>2. CASE x \notin Range(in)
  BY <1>2 DEF Without
<1>3. CASE x \in Range(in)
  <2>1. PICK q \in 1 .. n : in[q] = x
    BY <1>0, <1>3 DEF Range
  <2>2. First(q)
    <3>1. ASSUME NEW j \in 1 .. q - 1, in[j] = x PROVE FALSE
      <4>1. j \in 1 .. n /\ j # q
        BY <1>0, <2>1
      <4> QED BY <1>1, <2>1, <3>1, <4>1
    <3> QED BY <2>1, <3>1
  <2>3. p \in 1 .. n /\ in[p] = x
    <3>1. \E i \in DOMAIN in : First(i)
      BY <1>0, <2>1, <2>2
    <3> HIDE DEF First
    <3>2. p \in DOMAIN in /\ First(p)
      BY <3>1
    <3> QED BY <1>0, <3>2 DEF First
  <2>4. Without(in, x) = w
    BY <1>3 DEF Without
  <2> HIDE DEF p
  <2>5. w \in Seq(Nat) /\ Len(w) = n - 1 /\ DOMAIN w = 1 .. n - 1
    <3>1. n - 1 \in Nat
      BY <1>0, <2>3
    <3>2. \A i \in 1 .. n - 1 : i \in 1 .. n /\ i + 1 \in 1 .. n
      BY <1>0
    <3>3. w \in [1 .. n - 1 -> Nat]
      BY <1>0, <3>2
    <3> QED BY <3>1, <3>3
  <2>6. \A i \in 1 .. n - 1 : \E j \in 1 .. n : j # p /\ w[i] = in[j] /\ (i < p => j = i) /\ (~ (i < p) => j = i + 1)
    <3> SUFFICES ASSUME NEW i \in 1 .. n - 1
                 PROVE  \E j \in 1 .. n : j # p /\ w[i] = in[j] /\ (i < p => j = i) /\ (~ (i < p) => j = i + 1)
      OBVIOUS
    <3>1. CASE i < p
      BY <1>0, <2>3, <3>1
    <3>2. CASE ~ (i < p)
      BY <1>0, <2>3, <3>2
    <3> QED BY <3>1, <3>2
  <2>7. \A j \in 1 .. n : j # p => \E i \in 1 .. n - 1 : w[i] = in[j]
    <3> SUFFICES ASSUME NEW j \in 1 .. n, j # p PROVE \E i \in 1 .. n - 1 : w[i] = in[j]
      OBVIOUS
    <3>1. CASE j < p
      <4>1. j \in 1 .. n - 1
        BY <1>0, <2>3, <3>1
      <4> QED BY <3>1, <4>1
    <3>2. CASE p < j
      <4>1. j - 1 \in 1 .. n - 1 /\ ~ (j - 1 < p) /\ (j - 1) + 1 = j
        BY <1>0, <2>3, <3>2
      <4> QED BY <4>1
    <3> QED BY <1>0, <2>3, <3>1, <3>2
  <2> HIDE DEF w
  <2>8. IsInjective(w)
    <3> SUFFICES ASSUME NEW a \in 1 .. n - 1, NEW b \in 1 .. n - 1, w[a] = w[b] PROVE a = b
      BY <2>5 DEF IsInjective
    <3>1. PICK i \in 1 .. n : i # p /\ w[a] = in[i] /\ (a < p => i = a) /\ (~ (a < p) => i = a + 1)
      BY <2>6
    <3>2. PICK j \in 1 .. n : j # p /\ w[b] = in[j] /\ (b < p => j = b) /\ (~ (b < p) => j = b + 1)
      BY <2>6
    <3>3. i = j
      BY <1>1, <3>1, <3>2
    <3> QED BY SMTT(60), <1>0, <2>3, <3>1, <3>2, <3>3
  <2>9. Range(w) = Range(in) \ {x}
    <3>1. ASSUME NEW v \in Range(w) PROVE v \in Range(in) \ {x}
      <4>1. PICK i \in 1 .. n - 1 : v = w[i]
        BY <2>5 DEF Range
      <4>2. PICK j \in 1 .. n : j # p /\ w[i] = in[j]
        BY <2>6
      <4>3. in[j] # in[p]
        BY <1>1, <2>3, <4>2
      <4> QED BY <1>0, <2>3, <4>1, <4>2, <4>3 DEF Range
    <3>2. ASSUME NEW v \in Range(in), v # x PROVE v \in Range(w)
      <4>1. PICK j \in 1 .. n : v = in[j]
        BY <1>0 DEF Range
      <4>2. PICK i \in 1 .. n - 1 : w[i] = in[j]
        BY <2>3, <2>7, <3>2, <4>1
      <4> QED BY <2>5, <4>1, <4>2 DEF Range
    <3> QED BY <3>1, <3>2
  <2>10. ASSUME in # <<>>, in[1] # x PROVE w # <<>> /\ w[1] = in[1]
    <3>1. 1 \in 1 .. n - 1 /\ 1 < p
      BY <1>0, <2>3, <2>10
    <3>2. w[1] = in[1]
      BY <3>1 DEF w
    <3> QED BY <2>5, <3>1, <3>2
  <2> QED BY <2>4, <2>5, <2>8, <2>9, <2>10
<1> QED BY <1>2, <1>3

\* An input that is added is the last one.
LEMMA RegisteredKeeps ==
  ASSUME co_in \in Seq(Nat), co_in # <<>>, IsInjective(co_in), NEW x \in Nat
  PROVE  /\ reg_input(x) \in Seq(Nat) /\ IsInjective(reg_input(x))
         /\ reg_input(x) # <<>> /\ reg_input(x)[1] = co_in[1]
         /\ Range(co_in) \subseteq Range(reg_input(x)) /\ Range(reg_input(x)) \subseteq Range(co_in) \cup {x}
         /\ x \in Range(reg_input(x)) \/ reg_input(x) = co_in
<1>1. CASE reg_input(x) = co_in
  BY <1>1
<1>2. CASE reg_input(x) # co_in
  <2> DEFINE n == Len(co_in)
             a == Append(co_in, x)
  <2>1. reg_input(x) = a /\ x \notin Range(co_in)
    BY <1>2 DEF reg_input
  <2>2. n \in Nat \ {0} /\ DOMAIN co_in = 1 .. n
    OBVIOUS
  <2>3. a \in Seq(Nat) /\ Len(a) = n + 1 /\ DOMAIN a = 1 .. n + 1 /\ a[n + 1] = x /\ \A i \in 1 .. n : a[i] = co_in[i]
    OBVIOUS
  <2> HIDE DEF a
  <2>4. \A i \in 1 .. n : co_in[i] # x
    BY <2>1, <2>2 DEF Range
  <2>5. IsInjective(a)
    <3> SUFFICES ASSUME NEW i \in 1 .. n + 1, NEW j \in 1 .. n + 1, a[i] = a[j] PROVE i = j
      BY <2>3 DEF IsInjective
    <3>1. (i \in 1 .. n \/ i = n + 1) /\ (j \in 1 .. n \/ j = n + 1)
      BY <2>2
    <3>2. CASE i \in 1 .. n /\ j \in 1 .. n
      BY <2>2, <2>3, <3>2 DEF IsInjective
    <3> QED BY <2>3, <2>4, <3>1, <3>2
  <2>6. 1 \in 1 .. n /\ n + 1 \in 1 .. n + 1 /\ 1 .. n \subseteq 1 .. n + 1
    BY <2>2
  <2>7. Range(co_in) \subseteq Range(a) /\ x \in Range(a)
    BY <2>2, <2>3, <2>6 DEF Range
  <2>8. Range(a) \subseteq Range(co_in) \cup {x}
    <3> SUFFICES ASSUME NEW i \in 1 .. n + 1 PROVE a[i] \in Range(co_in) \cup {x}
      BY <2>3 DEF Range
    <3>1. i \in 1 .. n \/ i = n + 1
      BY <2>2
    <3> QED BY <2>2, <2>3, <3>1 DEF Range
  <2>9. a # <<>> /\ a[1] = co_in[1]
    BY <2>2, <2>3, <2>6
  <2> QED BY <2>1, <2>3, <2>5, <2>7, <2>8, <2>9
<1> QED BY <1>1, <1>2

\* After stop_handling_client nobody but the server is listened to.
StoppedBy(g) ==
  g = [k \in 0 .. CoClients |->
         IF k = 0 THEN co_in
         ELSE IF co_client[k].enabled THEN Without(g[k - 1], k) ELSE g[k - 1]]
LEMMA StoppedLeaves ==
  ASSUME CoInv, stop_handling_client
  PROVE  /\ co_in' \in Seq(Nat) /\ co_in' # <<>> /\ IsInjective(co_in')
         /\ co_in'[1] = Server /\ Range(co_in') = {Server}
  <1> DEFINE n == CoClients
             base == co_in
             Next1(k, in) == IF co_client[k].enabled THEN Without(in, k) ELSE in
             Open == {in \in Seq(Nat) : IsInjective(in) /\ in # <<>> /\ in[1] = Server /\ Range(in) \subseteq Range(co_in)}
  <1>0. n \in Nat /\ co_in \in Open
    BY CoAssumption DEF CoInv, CoTyped, InputsMatch
  <1>1. ASSUME NEW k \in 1 .. n, NEW in \in Open
        PROVE  /\ Next1(k, in) \in Open
               /\ Range(Next1(k, in)) \subseteq Range(in)
               /\ co_client[k].enabled => k \notin Range(Next1(k, in))
    <2>1. k # Server
      BY <1>0 DEF Server
    <2>2. CASE co_client[k].enabled
      <3>1. in \in Seq(Nat) /\ IsInjective(in) /\ in # <<>> /\ in[1] # k
        BY <2>1
      <3>2. /\ Without(in, k) \in Seq(Nat) /\ IsInjective(Without(in, k))
            /\ Range(Without(in, k)) = Range(in) \ {k}
            /\ Without(in, k) # <<>> /\ Without(in, k)[1] = in[1]
        BY <3>1, WithoutKeeps
      <3> QED BY <2>2, <3>2
    <2>3. CASE ~ co_client[k].enabled
      BY <2>3
    <2> QED BY <2>2, <2>3
  <1>2. \A k \in 1 .. n : \A in \in Open : [j \in 1 .. n |-> [i \in Open |-> Next1(j, i)]][k][in] = Next1(k, in)
    OBVIOUS
  <1> DEFINE steps == [j \in 1 .. n |-> [i \in Open |-> Next1(j, i)]]
  <1> HIDE DEF Next1, Open
  <1>3. \A k \in 1 .. n : \A in \in Open : steps[k][in] = Next1(k, in)
    BY <1>2
  <1> HIDE DEF steps, n, base
  <1>4. StepsWithin(n, Open, base, steps)
    BY <1>0, <1>1, <1>3 DEF StepsWithin, base
  <1>5. \E g \in [0 .. n -> Open] : g[0] = base /\ \A k \in 1 .. n : g[k] = steps[k][g[k - 1]]
    BY <1>4, StepsExist
  <1>6. PICK g \in [0 .. n -> Open] : g[0] = base /\ \A k \in 1 .. n : g[k] = steps[k][g[k - 1]]
    BY <1>5
  <1>7. ASSUME NEW k \in 0 .. n
        PROVE  g[k] = IF k = 0 THEN co_in ELSE Next1(k, g[k - 1])
    <2>1. CASE k # 0
      <3>1. k \in 1 .. n /\ k - 1 \in 0 .. n
        BY <1>0, <2>1
      <3>2. g[k - 1] \in Open
        BY <1>6, <3>1
      <3> QED BY <1>3, <1>6, <2>1, <3>1, <3>2
    <2> QED BY <1>6, <2>1 DEF base
  <1>8. g = [k \in 0 .. n |-> g[k]]
    BY <1>6
  <1>9. StoppedBy(g)
    BY <1>7, <1>8, Zenon DEF StoppedBy, n, Next1
  <1> DEFINE f == CHOOSE f : StoppedBy(f)
  <1>10. StoppedBy(f)
    BY <1>9, Zenon
  <1>11. co_in' = f[n]
    BY Zenon DEF stop_handling_client, StoppedBy, n
  <1> HIDE DEF f
  <1>12. f[0] = co_in /\ \A k \in 1 .. n : f[k] = Next1(k, f[k - 1])
    BY <1>0, <1>10 DEF StoppedBy, n, Next1
  <1> DEFINE T == {k \in 0 .. n : f[k] \in Open /\ \A j \in 1 .. k : co_client[j].enabled => j \notin Range(f[k])}
  <1>13. ASSUME NEW k \in 0 .. n - 1, k \in T PROVE k + 1 \in T
    <2>1. k + 1 \in 1 .. n /\ k + 1 \in 0 .. n /\ (k + 1) - 1 = k /\ f[k] \in Open
      BY <1>0, <1>13
    <2>2. f[k + 1] = Next1(k + 1, f[k])
      BY <1>12, <2>1
    <2>3. f[k + 1] \in Open /\ Range(f[k + 1]) \subseteq Range(f[k])
          /\ (co_client[k + 1].enabled => k + 1 \notin Range(f[k + 1]))
      BY <1>1, <2>1, <2>2
    <2>4. ASSUME NEW j \in 1 .. k + 1, co_client[j].enabled PROVE j \notin Range(f[k + 1])
      <3>1. CASE j = k + 1
        BY <2>3, <2>4, <3>1
      <3>2. CASE j # k + 1
        <4>1. j \in 1 .. k
          BY <1>13, <3>2
        <4> QED BY <1>13, <2>3, <2>4, <4>1
      <3> QED BY <3>1, <3>2
    <2> QED BY <2>1, <2>3, <2>4
  <1>14. 0 \in T
    BY <1>0, <1>12
  <1> HIDE DEF T
  <1>15. 0 .. n \subseteq T
    BY <1>0, <1>13, <1>14, ReachesAll
  <1>16. n \in T
    BY <1>0, <1>15
  <1>17. f[n] \in Open /\ \A j \in 1 .. n : co_client[j].enabled => j \notin Range(f[n])
    BY <1>16 DEF T
  <1>18. f[n] \in Seq(Nat) /\ IsInjective(f[n]) /\ f[n] # <<>> /\ f[n][1] = Server /\ Range(f[n]) \subseteq Range(co_in)
    BY <1>17 DEF Open
  <1>19. Range(co_in) \ {Server} \subseteq Enabled
    BY DEF CoInv, InputsMatch
  <1>20. Range(f[n]) \subseteq {Server}
    BY <1>17, <1>18, <1>19 DEF Enabled, Clients, n
  <1>21. Server \in Range(f[n])
    <2>1. 1 \in DOMAIN f[n]
      BY <1>18
    <2> QED BY <1>18, <2>1 DEF Range
  <1> QED BY <1>11, <1>18, <1>20, <1>21

\* A line that a client sent, read character by character.
CoRead == [buf : CoLine, line : CoLine, odd : BOOLEAN, cmd : CoCommands, todo : Seq(CoSteps)]
WholeRead == {acc \in CoRead : Whole(acc) /\ Whole(acc.cmd)}

LEMMA ExecuteSteps ==
  ASSUME NEW buf
  PROVE  Execute(buf) \in Seq(CoSteps)
  <1> DEFINE n == Cardinality(CoCores)
             s == [i \in 1 .. n |-> <<"start", i>>]
  <1>1. n \in Nat
    BY CoAssumption, FS_CardinalityType
  <1> HIDE DEF n
  <1>2. s \in Seq(CoSteps)
    <2>1. \A i \in 1 .. n : <<"start", i>> \in CoSteps
      BY <1>1 DEF CoSteps
    <2>2. s \in [1 .. n -> CoSteps]
      BY <2>1
    <2> QED BY <1>1, <2>2
  <1>3. <<<<"quit", 0>>>> \in Seq(CoSteps)
    BY DEF CoSteps
  <1>4. <<>> \in Seq(CoSteps)
    OBVIOUS
  <1>5. Execute(buf) \in {s, <<<<"quit", 0>>>>, <<>>}
    BY DEF Execute, n
  <1> HIDE DEF s
  <1> QED BY <1>2, <1>3, <1>4, <1>5

LEMMA CharWhole ==
  ASSUME NEW chunk \in Seq(STRING), NEW acc \in WholeRead, NEW i \in 1 .. Len(chunk)
  PROVE  Char(chunk, acc, i) \in WholeRead
  <1> DEFINE ch == chunk[i]
             odd == acc.odd \/ ch = "cr" \/ Len(acc.buf) + 1 >= CoBuf
             sent == IF odd THEN <<>> ELSE Append(acc.line, ch)
             cmd == IF acc.buf = <<>> THEN acc.cmd ELSE [buf |-> acc.buf, line |-> acc.line, odd |-> acc.odd]
             steps == acc.todo \o (IF acc.buf = <<>> THEN <<>> ELSE Execute(acc.buf))
             ended == [acc EXCEPT !.buf = <<>>, !.line = <<>>, !.odd = FALSE, !.cmd = cmd, !.todo = steps]
             more == [acc EXCEPT !.buf = Append(acc.buf, ch), !.line = sent, !.odd = odd]
             over == [acc EXCEPT !.buf = <<>>, !.line = sent, !.odd = odd]
  <1>1. acc \in CoRead /\ Whole(acc) /\ Whole(acc.cmd)
    BY DEF WholeRead
  <1>2. /\ acc.buf \in CoLine /\ acc.line \in CoLine /\ acc.odd \in BOOLEAN
        /\ acc.cmd \in CoCommands /\ acc.todo \in Seq(CoSteps)
    BY <1>1 DEF CoRead
  <1>3. ch \in STRING /\ <<>> \in CoLine /\ Append(acc.buf, ch) \in CoLine
    BY <1>2 DEF CoLine
  <1>4. sent \in CoLine /\ odd \in BOOLEAN
    <2> HIDE DEF ch
    <2>1. Append(acc.line, ch) \in CoLine
      BY <1>2, <1>3 DEF CoLine
    <2>2. odd \in BOOLEAN
      OBVIOUS
    <2> HIDE DEF odd
    <2> QED BY <1>3, <2>1, <2>2
  <1>5. cmd \in CoCommands /\ Whole(cmd)
    <2>1. CASE acc.buf = <<>>
      BY <1>1, <1>2, <2>1
    <2>2. CASE acc.buf # <<>>
      <3>1. cmd = [buf |-> acc.buf, line |-> acc.line, odd |-> acc.odd]
        BY <2>2
      <3> HIDE DEF cmd
      <3>2. cmd \in CoCommands
        BY <1>2, <3>1 DEF CoCommands
      <3>3. cmd.buf = acc.buf /\ cmd.line = acc.line /\ cmd.odd = acc.odd
        BY <3>1
      <3> QED BY <1>1, <3>2, <3>3 DEF Whole
    <2> QED BY <2>1, <2>2
  <1>6. steps \in Seq(CoSteps)
    <2>1. Execute(acc.buf) \in Seq(CoSteps) /\ <<>> \in Seq(CoSteps)
      BY ExecuteSteps
    <2>2. \A e \in Seq(CoSteps) : acc.todo \o e \in Seq(CoSteps)
      BY <1>2
    <2> QED BY <2>1, <2>2
  <1>7. ended \in WholeRead
    <2> HIDE DEF cmd, steps
    <2>1. ended.buf = <<>> /\ ended.line = <<>> /\ ended.cmd = cmd
      BY <1>1 DEF CoRead
    <2>2. ended \in CoRead
      BY <1>1, <1>3, <1>5, <1>6 DEF CoRead
    <2> HIDE DEF ended
    <2> QED BY <1>5, <2>1, <2>2 DEF Whole, WholeRead
  <1>8. more \in WholeRead
    <2>1. ~ odd => ~ acc.odd /\ sent = Append(acc.line, ch)
      OBVIOUS
    <2> HIDE DEF sent, odd, ch
    <2> DEFINE buf == Append(acc.buf, ch)
    <2> HIDE DEF buf
    <2>2. [acc EXCEPT !.buf = buf, !.line = sent, !.odd = odd] \in CoRead
      BY <1>1, <1>3, <1>4 DEF CoRead, buf
    <2>3. more \in CoRead /\ more.buf = buf /\ more.line = sent /\ more.odd = odd /\ more.cmd = acc.cmd
      BY <1>1, <2>2 DEF CoRead, buf
    <2> HIDE DEF more
    <2>4. ~ odd => sent = buf
      BY <1>1, <2>1 DEF Whole, buf
    <2> QED BY <1>1, <2>3, <2>4 DEF Whole, WholeRead
  <1>9. odd => over \in WholeRead
    <2> HIDE DEF sent, odd, ch
    <2>1. over \in CoRead
      BY <1>1, <1>3, <1>4 DEF CoRead
    <2>2. over.odd = odd /\ over.cmd = acc.cmd
      BY <1>1 DEF CoRead
    <2> HIDE DEF over
    <2> QED BY <1>1, <2>1, <2>2 DEF Whole, WholeRead
  <1>10. CASE ch = "cr" /\ i + 1 <= Len(chunk) /\ chunk[i + 1] = "nl"
    <2>1. Char(chunk, acc, i) = acc
      BY <1>10 DEF Char
    <2> QED BY <2>1
  <1>11. CASE ch = "nl"
    <2>1. Char(chunk, acc, i) = ended
      BY <1>11 DEF Char
    <2> QED BY <1>7, <2>1
  <1>12. CASE ch # "nl" /\ Len(acc.buf) + 1 < CoBuf /\ ~ (ch = "cr" /\ i + 1 <= Len(chunk) /\ chunk[i + 1] = "nl")
    <2>1. Char(chunk, acc, i) = more
      BY <1>12 DEF Char
    <2> QED BY <1>8, <2>1
  <1>13. CASE ch # "nl" /\ ~ (Len(acc.buf) + 1 < CoBuf) /\ ~ (ch = "cr" /\ i + 1 <= Len(chunk) /\ chunk[i + 1] = "nl")
    <2>1. Char(chunk, acc, i) = over
      BY <1>13 DEF Char
    <2>2. Len(acc.buf) \in Nat /\ CoBuf \in Nat
      BY <1>2, CoAssumption DEF CoLine
    <2>3. odd
      BY <1>13, <2>2
    <2> QED BY <1>9, <2>1, <2>3
  <1> QED BY <1>10, <1>11, <1>12, <1>13

ReadFrom(c) == [buf |-> c.buf, line |-> c.line, odd |-> c.odd, cmd |-> co_cmd, todo |-> <<>>]
ReadBy(g, c, chunk) ==
  g = [i \in 0 .. Len(chunk) |-> IF i = 0 THEN ReadFrom(c) ELSE Char(chunk, g[i - 1], i)]
LEMMA ScanWhole ==
  ASSUME NEW c, NEW chunk \in Seq(STRING), ReadFrom(c) \in WholeRead
  PROVE  Scan(c, chunk) \in WholeRead
  <1> DEFINE n == Len(chunk)
             base == ReadFrom(c)
             S == WholeRead
             step == [k \in 1 .. n |-> [s \in S |-> Char(chunk, s, k)]]
  <1>0. n \in Nat
    OBVIOUS
  <1>1. \A k \in 1 .. n : \A s \in S : Char(chunk, s, k) \in S
    BY CharWhole
  <1>2. \A k \in 1 .. n : \A s \in S : step[k][s] = Char(chunk, s, k)
    OBVIOUS
  <1> HIDE DEF step, base, n, S
  <1>3. StepsWithin(n, S, base, step)
    BY <1>0, <1>1, <1>2 DEF StepsWithin, base, S
  <1>4. \E g \in [0 .. n -> S] : g[0] = base /\ \A k \in 1 .. n : g[k] = step[k][g[k - 1]]
    BY <1>3, StepsExist
  <1>5. PICK g \in [0 .. n -> S] : g[0] = base /\ \A k \in 1 .. n : g[k] = step[k][g[k - 1]]
    BY <1>4
  <1>6. ASSUME NEW k \in 0 .. n
        PROVE  g[k] = IF k = 0 THEN base ELSE Char(chunk, g[k - 1], k)
    <2>1. CASE k # 0
      <3>1. k \in 1 .. n /\ k - 1 \in 0 .. n
        BY <1>0, <2>1
      <3>2. g[k - 1] \in S
        BY <1>5, <3>1
      <3> QED BY <1>2, <1>5, <2>1, <3>1, <3>2
    <2> QED BY <1>5, <2>1
  <1>7. g = [k \in 0 .. n |-> g[k]]
    BY <1>5
  <1>8. ReadBy(g, c, chunk)
    BY <1>6, <1>7, Zenon DEF ReadBy, n, base
  <1> DEFINE f == CHOOSE f : ReadBy(f, c, chunk)
  <1>9. ReadBy(f, c, chunk)
    BY <1>8, Zenon
  <1>10. Scan(c, chunk) = f[n]
    BY Zenon DEF Scan, ReadBy, ReadFrom, n
  <1> HIDE DEF f
  <1>11. f[0] = base /\ \A k \in 1 .. n : f[k] = Char(chunk, f[k - 1], k)
    BY <1>0, <1>9 DEF ReadBy, n, base
  <1> DEFINE T == {k \in 0 .. n : f[k] \in S}
  <1>12. ASSUME NEW k \in 0 .. n - 1, k \in T PROVE k + 1 \in T
    <2>1. k + 1 \in 1 .. n /\ k + 1 \in 0 .. n /\ (k + 1) - 1 = k /\ f[k] \in S
      BY <1>0, <1>12
    <2>2. f[k + 1] = Char(chunk, f[k], k + 1)
      BY <1>11, <2>1
    <2> QED BY <1>1, <2>1, <2>2
  <1>13. 0 \in T
    BY <1>0, <1>11 DEF base, S
  <1> HIDE DEF T
  <1>14. 0 .. n \subseteq T
    BY <1>0, <1>12, <1>13, ReachesAll
  <1>15. n \in T
    BY <1>0, <1>14
  <1> QED BY <1>10, <1>15 DEF T, S

LEMMA CoStart == CoInit => CoInv
  <1> SUFFICES ASSUME CoInit PROVE CoInv
    OBVIOUS
  <1>1. co_in = <<Server>> /\ Server = 0 /\ Len(co_in) = 1 /\ DOMAIN co_in = {1} /\ co_in[1] = Server
    BY DEF CoInit, Server
  <1>2. /\ Enabled = {} /\ FdsOf(Enabled) = {}
        /\ co_ghost.open = {} /\ co_ghost.left = {} /\ co_ghost.fds = 0 /\ co_ghost.heard = Never
    BY DEF CoInit, Enabled, FdsOf, NoClient
  <1>3. <<>> \in CoLine
    BY DEF CoLine
  <1>4. CoTyped
    BY <1>1, <1>3, CoAssumption DEF CoTyped, CoInit, NoClient, NoCommand, CoCommands, CoPlaces, Never
  <1>5. InputsMatch
    BY <1>1, <1>2 DEF InputsMatch, IsInjective, Range
  <1>6. CoOwned
    BY <1>2 DEF CoOwned, Own
  <1>7. CoWhole
    BY DEF CoWhole, Whole, CoInit, NoClient, NoCommand
  <1>8. CoSilent /\ CoQuiet /\ LinksShown
    BY <1>2 DEF CoSilent, CoQuiet, LinksShown, CoInit, Never
  <1> QED BY <1>1, <1>4, <1>5, <1>6, <1>7, <1>8 DEF CoInv

\* What CoInv says of the places of the master.
LEMMA CoAt ==
  ASSUME CoTyped
  PROVE  /\ co_pc.at = "round" => co_pc \in CoRounds
         /\ co_pc.at = "commands" => co_pc \in CoReading
         /\ \A p \in {"inputs", "links", "read links", "update", "exit"} : co_pc = Step(p) => co_pc.at = p
         /\ co_pc.at = "round" => co_pc # Step("read links")
         /\ co_pc.at = "commands" => co_pc # Step("read links")
         /\ \A p \in CoPlaces : p.at # "commands"
  <1>1. \A p \in CoPlaces : p.at \in {"inputs", "links", "read links", "update", "exit"}
    <2>1. \A s : Step(s).at = s
      BY DEF Step
    <2> QED BY <2>1 DEF CoPlaces
  <1>2. \A p \in CoRounds : p.at = "round"
    BY DEF CoRounds
  <1>3. \A p \in CoReading : p.at = "commands"
    BY DEF CoReading
  <1>4. \A p \in {"inputs", "links", "read links", "update", "exit"} : Step(p).at = p
    BY DEF Step
  <1>5. co_pc \in CoPlaces \/ co_pc \in CoRounds \/ co_pc \in CoReading
    BY DEF CoTyped
  <1> QED BY <1>1, <1>2, <1>3, <1>4, <1>5

\* In a round the master goes on to the next input.
LEMMA CoFurther ==
  ASSUME CoTyped, co_pc.at = "round"
  PROVE  Further \in CoRounds /\ Further # Step("read links") /\ Further.at = "round"
  <1>1. co_pc \in CoRounds
    BY CoAt
  <1>2. Further \in CoRounds /\ Further.at = "round"
    BY <1>1 DEF Further, CoRounds
  <1>3. Step("read links").at = "read links"
    BY DEF Step
  <1> QED BY <1>2, <1>3

\* A step that leaves inputs, clients, descriptors and the word heard alone.
LEMMA CoElsewhere ==
  ASSUME CoInv, co_in' = co_in, co_client' = co_client, co_cmd' = co_cmd, co_ghost' = co_ghost,
         CoTyped', CoSilent', CoQuiet', LinksShown'
  PROVE  CoInv'
  <1>1. Enabled' = Enabled /\ FdsOf(Enabled)' = FdsOf(Enabled)
    BY DEF Enabled, FdsOf
  <1>2. InputsMatch' /\ CoOwned' /\ CoWhole'
    BY <1>1 DEF CoInv, InputsMatch, CoOwned, Own, CoWhole
  <1> QED BY <1>2 DEF CoInv

\* Steps that only move the master, to a place where no command is read.
LEMMA CoMoves ==
  ASSUME CoInv, UNCHANGED <<co_deadline, co_in, co_client, co_sys, co_cmd, co_ghost>>,
         co_pc' \in CoPlaces \cup CoRounds, co_pc # Step("read links"), co_pc' # Step("read links")
  PROVE  CoInv'
  <1>1. co_pc'.at # "commands"
    <2>1. \A s : Step(s).at = s
      BY DEF Step
    <2>2. CASE co_pc' \in CoPlaces
      BY <2>1, <2>2 DEF CoPlaces
    <2>3. CASE co_pc' \in CoRounds
      BY <2>3 DEF CoRounds
    <2> QED BY <2>2, <2>3
  <1>2. CoTyped'
    BY DEF CoInv, CoTyped
  <1>3. Enabled' = Enabled
    BY DEF Enabled
  <1>4. CoSilent'
    BY <1>1, <1>3 DEF CoInv, CoSilent
  <1>5. CoQuiet' /\ LinksShown'
    BY DEF CoInv, CoQuiet, LinksShown
  <1> QED BY <1>2, <1>4, <1>5, CoElsewhere

LEMMA CoMovesStep ==
  ASSUME CoInv,
         \/ \E ready \in SUBSET Range(co_in) : input_proc(ready)
         \/ input_proc_until \/ skip_input \/ before_update
  PROVE  CoInv'
  <1>0. CoTyped /\ co_in \in Seq(Nat)
    BY DEF CoInv, CoTyped
  <1>1. ASSUME NEW ready \in SUBSET Range(co_in), input_proc(ready) PROVE CoInv'
    <2>1. Range(co_in) \subseteq Nat
      BY <1>0 DEF Range
    <2>2. co_pc' \in CoRounds
      BY <1>1, <2>1 DEF input_proc, CoRounds
    <2>3. co_pc # Step("read links") /\ co_pc' # Step("read links")
      BY <1>1 DEF input_proc, Step
    <2> QED BY <1>1, <2>2, <2>3, CoMoves DEF input_proc
  <1>2. CASE input_proc_until
    <2>1. co_pc' \in CoPlaces /\ co_pc # Step("read links") /\ co_pc' # Step("read links")
      BY <1>2 DEF input_proc_until, CoPlaces, Step
    <2> QED BY <1>2, <2>1, CoMoves DEF input_proc_until
  <1>3. CASE skip_input
    <2>1. co_pc.at = "round"
      BY <1>3 DEF skip_input
    <2>2. Further \in CoRounds /\ Further # Step("read links") /\ co_pc # Step("read links")
      BY <1>0, <2>1, CoFurther, CoAt
    <2>3. Step("inputs") \in CoPlaces /\ Step("inputs") # Step("read links")
      BY DEF CoPlaces, Step
    <2>4. co_pc' \in {Further, Step("inputs")}
      BY <1>3 DEF skip_input
    <2> QED BY <1>3, <2>2, <2>3, <2>4, CoMoves DEF skip_input
  <1>4. CASE before_update
    <2>1. co_pc # Step("read links") /\ co_pc' \in CoPlaces /\ co_pc' # Step("read links")
      BY <1>4 DEF before_update, Loop, CoPlaces, Step
    <2> QED BY <1>4, <2>1, CoMoves DEF before_update
  <1> QED BY <1>1, <1>2, <1>3, <1>4

LEMMA CoAccepts ==
  ASSUME CoInv, NEW accepted \in BOOLEAN, handle_new_client(accepted)
  PROVE  CoInv'
  <1> DEFINE free == {k \in Clients : ~co_client[k].enabled}
             k == CHOOSE j \in free : \A l \in free : j <= l
             fds == IF accepted THEN co_ghost.fds + 1 ELSE co_ghost.fds
             fd == IF accepted THEN fds ELSE NoFd
             new == [NoClient EXCEPT !.enabled = TRUE, !.fd = fd, !.since = co_sys.now]
  <1>0. /\ CoTyped /\ co_in # <<>> /\ InputsMatch /\ CoOwned /\ CoWhole /\ CoSilent /\ CoQuiet /\ LinksShown
        /\ co_pc.at = "round" /\ co_pc' = Further
    BY DEF CoInv, handle_new_client, Ready
  <1>1. /\ UNCHANGED <<co_deadline, co_sys, co_cmd>> /\ fds \in Nat /\ fd \in Nat /\ co_ghost.fds \in Nat
    BY <1>0 DEF CoTyped, handle_new_client, NoFd
  <1>2. /\ co_pc' \in CoRounds /\ co_pc' # Step("read links") /\ co_pc'.at = "round"
        /\ co_pc # Step("read links")
    BY <1>0, CoFurther, CoAt
  <1>3. CoQuiet' /\ LinksShown'
    BY <1>0, <1>1, <1>2 DEF CoQuiet, LinksShown
  <1>4. CASE free = {}
    <2>1. co_ghost' = [co_ghost EXCEPT !.fds = fds] /\ co_client' = co_client /\ co_in' = co_in
      BY <1>4 DEF handle_new_client
    <2>2. /\ co_ghost'.open = co_ghost.open /\ co_ghost'.left = co_ghost.left /\ co_ghost'.fds = fds
          /\ co_ghost'.unserved = co_ghost.unserved /\ co_ghost'.heard = co_ghost.heard
      BY <1>0, <2>1 DEF CoTyped
    <2>3. CoTyped'
      <3>1. co_ghost' \in [open : SUBSET Nat, left : SUBSET Nat, unserved : SUBSET Nat, fds : Nat, heard : Nat]
        BY <1>0, <1>1, <2>1 DEF CoTyped
      <3> QED BY <1>0, <1>1, <1>2, <2>1, <3>1 DEF CoTyped
    <2>4. Enabled' = Enabled /\ FdsOf(Enabled)' = FdsOf(Enabled)
      BY <2>1 DEF Enabled, FdsOf
    <2>5. 1 .. co_ghost.fds \subseteq 1 .. fds
      BY <1>1
    <2>6. CoOwned'
      <3> HIDE DEF fds
      <3> QED BY <1>0, <2>1, <2>2, <2>4, <2>5 DEF CoOwned, Own
    <2>7. InputsMatch' /\ CoWhole' /\ CoSilent'
      BY <1>0, <1>1, <1>2, <2>1, <2>2, <2>4 DEF InputsMatch, CoWhole, CoSilent
    <2> QED BY <1>0, <1>3, <2>1, <2>3, <2>6, <2>7 DEF CoInv
  <1>5. CASE free # {}
    <2>1. k \in Clients /\ ~co_client[k].enabled
      <3>1. free \in SUBSET Nat
        BY DEF Clients
      <3>2. \E j \in free : \A l \in free : j <= l
        BY <1>5, <3>1, LeastNatural
      <3> HIDE DEF free
      <3>3. k \in free
        BY <3>2
      <3> QED BY <3>3 DEF free
    <2>2. /\ co_client' = [co_client EXCEPT ![k] = new]
          /\ co_in' = reg_input(k)
          /\ co_ghost' = [co_ghost EXCEPT !.fds = fds, !.open = (@ \cup {fd}) \ {NoFd},
                            !.unserved = IF co_in' = co_in THEN @ \cup {k} ELSE @ \ {k}]
      BY <1>5 DEF handle_new_client
    <2> HIDE DEF k, free, new
    <2>3. /\ new.enabled /\ new.fd = fd /\ new.since = co_sys.now /\ Whole(new)
          /\ new \in [enabled : BOOLEAN, fd : Nat, buf : CoLine, line : CoLine, odd : BOOLEAN, since : Nat]
      <3>1. <<>> \in CoLine /\ co_sys.now \in Nat
        BY <1>0 DEF CoLine, CoTyped
      <3> QED BY <1>1, <3>1 DEF new, NoClient, Whole
    <2>4. /\ co_client'[k] = new /\ \A j \in Clients : j # k => co_client'[j] = co_client[j]
          /\ co_client' \in [Clients -> [enabled : BOOLEAN, fd : Nat, buf : CoLine, line : CoLine, odd : BOOLEAN, since : Nat]]
      <3>1. co_client \in [Clients -> [enabled : BOOLEAN, fd : Nat, buf : CoLine, line : CoLine, odd : BOOLEAN, since : Nat]]
        BY <1>0 DEF CoTyped
      <3> QED BY <2>1, <2>2, <2>3, <3>1
    <2>5. Enabled' = Enabled \cup {k} /\ k \notin Enabled
      BY <2>1, <2>3, <2>4 DEF Enabled
    <2>6. FdsOf(Enabled)' = FdsOf(Enabled) \cup {fd} /\ Enabled \subseteq Clients
      <3>1. Enabled \subseteq Clients
        BY DEF Enabled
      <3>2. \A j \in Enabled : co_client'[j] = co_client[j]
        BY <2>4, <2>5, <3>1
      <3>3. FdsOf(Enabled)' = {co_client'[j].fd : j \in Enabled \cup {k}}
        BY <2>5 DEF FdsOf
      <3>4. co_client'[k].fd = fd
        BY <2>3, <2>4
      <3> HIDE DEF fd
      <3> QED BY <3>1, <3>2, <3>3, <3>4 DEF FdsOf
    <2> DEFINE unserved == IF co_in' = co_in THEN co_ghost.unserved \cup {k} ELSE co_ghost.unserved \ {k}
               open == (co_ghost.open \cup {fd}) \ {NoFd}
    <2>7. /\ co_ghost'.open = open /\ co_ghost'.left = co_ghost.left /\ co_ghost'.fds = fds
          /\ co_ghost'.heard = co_ghost.heard /\ co_ghost'.unserved = unserved
          /\ co_ghost' \in [open : SUBSET Nat, left : SUBSET Nat, unserved : SUBSET Nat, fds : Nat, heard : Nat]
      <3>1. co_ghost \in [open : SUBSET Nat, left : SUBSET Nat, unserved : SUBSET Nat, fds : Nat, heard : Nat]
        BY <1>0 DEF CoTyped
      <3>2. unserved \in SUBSET Nat /\ open \in SUBSET Nat
        BY <1>1, <2>1, <3>1 DEF Clients
      <3>3. co_ghost' = [co_ghost EXCEPT !.fds = fds, !.open = open, !.unserved = unserved]
        BY <2>2
      <3> HIDE DEF unserved, open, fds
      <3> QED BY <1>1, <3>1, <3>2, <3>3
    <2>8. k \in Nat /\ k # Server
      BY <2>1, CoAssumption DEF Clients, Server
    <2>9. /\ co_in' \in Seq(Nat) /\ IsInjective(co_in') /\ co_in' # <<>> /\ co_in'[1] = Server
          /\ Range(co_in) \subseteq Range(co_in') /\ Range(co_in') \subseteq Range(co_in) \cup {k}
          /\ k \in Range(co_in') \/ co_in' = co_in
      <3>1. co_in \in Seq(Nat) /\ IsInjective(co_in) /\ co_in[1] = Server
        BY <1>0 DEF CoTyped, InputsMatch
      <3> QED BY <1>0, <2>2, <2>8, <3>1, RegisteredKeeps
    <2>10. InputsMatch'
      <3>1. \A j \in Enabled : j \in Range(co_in') \/ j \in co_ghost'.unserved
        BY <1>0, <2>5, <2>7, <2>9 DEF InputsMatch
      <3>2. k \in Range(co_in') \/ k \in co_ghost'.unserved
        BY <2>7, <2>9
      <3>3. Range(co_in') \ {Server} \subseteq Enabled \cup {k}
        BY <1>0, <2>9 DEF InputsMatch
      <3> QED BY <2>5, <2>9, <3>1, <3>2, <3>3 DEF InputsMatch
    <2>11. CoOwned'
      <3>1. /\ fd \notin 1 .. co_ghost.fds /\ 1 .. co_ghost.fds \subseteq 1 .. fds
            /\ fd # NoFd => fd \in 1 .. fds
            /\ \A m \in 1 .. co_ghost.fds : m # NoFd
        BY <1>1 DEF NoFd
      <3> HIDE DEF fd, fds
      <3>2. fd \notin Own /\ fd \notin co_ghost.left /\ NoFd \notin co_ghost.left
        BY <1>0, <3>1 DEF CoOwned
      <3>3. \A i, j \in Enabled' : co_client'[i].fd = co_client'[j].fd => i = j \/ co_client'[j].fd = NoFd
        <4> SUFFICES ASSUME NEW i \in Enabled \cup {k}, NEW j \in Enabled \cup {k},
                            co_client'[i].fd = co_client'[j].fd
                     PROVE  i = j \/ co_client'[j].fd = NoFd
          BY <2>5
        <4>1. \A m \in Enabled : co_client'[m] = co_client[m] /\ (co_client[m].fd = NoFd \/ co_client[m].fd # fd)
          BY <2>4, <2>5, <2>6, <3>2 DEF FdsOf, Own
        <4>2. co_client'[k].fd = fd
          BY <2>3, <2>4
        <4> QED BY <1>0, <4>1, <4>2 DEF CoOwned
      <3>4. Own' = Own \cup ({fd} \ {NoFd})
        BY <2>6 DEF Own
      <3> QED BY <1>0, <2>7, <3>1, <3>2, <3>3, <3>4 DEF CoOwned
    <2>12. CoWhole'
      BY <1>0, <1>1, <2>3, <2>4 DEF CoWhole
    <2>13. CoSilent'
      <3>1. \A j \in Enabled : co_client'[j] = co_client[j]
        BY <2>4, <2>5, <2>6
      <3> QED BY <1>0, <1>1, <1>2, <2>3, <2>4, <2>5, <2>7, <3>1 DEF CoSilent
    <2>14. CoTyped'
      BY <1>0, <1>1, <1>2, <2>4, <2>7, <2>9 DEF CoTyped
    <2> QED BY <1>3, <2>9, <2>10, <2>11, <2>12, <2>13, <2>14 DEF CoInv
  <1> QED BY <1>4, <1>5

LEMMA CoGone ==
  ASSUME CoInv, NEW k \in Clients, client_gone(k)
  PROVE  CoInv'
  <1> DEFINE left == co_ghost.left \cup {co_client[k].fd}
  <1>0. /\ CoTyped /\ co_in # <<>> /\ InputsMatch /\ CoOwned /\ CoWhole /\ CoSilent /\ CoQuiet /\ LinksShown
        /\ co_pc.at = "round" /\ co_pc' = Further /\ UNCHANGED <<co_deadline, co_sys, co_cmd>>
    BY DEF CoInv, client_gone, Ready
  <1>1. /\ co_pc' \in CoRounds /\ co_pc' # Step("read links") /\ co_pc'.at = "round"
        /\ co_pc # Step("read links")
    BY <1>0, CoFurther, CoAt
  <1>2. CoQuiet' /\ LinksShown'
    BY <1>0, <1>1 DEF CoQuiet, LinksShown
  <1>3. k \in Nat /\ k # Server
    BY CoAssumption DEF Clients, Server
  <1>4. k \in Range(co_in) /\ k \in Enabled
    <2>1. co_pc.i \in 1 .. Len(co_in) /\ co_in[co_pc.i] = k
      <3>1. co_pc.i \in Nat \ {0}
        BY <1>0, CoAt DEF CoRounds
      <3> QED BY <1>0, <3>1 DEF client_gone, Ready, Current, CoTyped
    <2>2. DOMAIN co_in = 1 .. Len(co_in)
      BY <1>0 DEF CoTyped
    <2>3. k \in Range(co_in)
      BY <2>1, <2>2 DEF Range
    <2> QED BY <1>0, <1>3, <2>3 DEF InputsMatch
  <1>5. co_in' = Without(co_in, k)
    BY DEF client_gone, unreg_input
  <1>6. /\ co_in' \in Seq(Nat) /\ IsInjective(co_in') /\ co_in' # <<>> /\ co_in'[1] = Server
        /\ Range(co_in') = Range(co_in) \ {k}
    <2>1. co_in \in Seq(Nat) /\ IsInjective(co_in) /\ co_in[1] = Server
      BY <1>0 DEF CoTyped, InputsMatch
    <2> QED BY <1>0, <1>3, <1>5, <2>1, WithoutKeeps
  <1>7. co_client' = [co_client EXCEPT ![k].enabled = FALSE]
    BY DEF client_gone
  <1> DEFINE Records == [enabled : BOOLEAN, fd : Nat, buf : CoLine, line : CoLine, odd : BOOLEAN, since : Nat]
  <1>8. co_client \in [Clients -> Records]
    BY <1>0 DEF CoTyped
  <1>9. /\ co_client' \in [Clients -> Records]
        /\ \A j \in Clients : j # k => co_client'[j] = co_client[j]
        /\ co_client'[k] = [co_client[k] EXCEPT !.enabled = FALSE]
    <2>1. [co_client[k] EXCEPT !.enabled = FALSE] \in Records
      BY <1>8
    <2> HIDE DEF Records
    <2> QED BY <1>7, <1>8, <2>1
  <1>10. /\ co_client'[k].enabled = FALSE
         /\ Whole(co_client[k]) => Whole(co_client'[k])
    <2>1. co_client[k] \in Records
      BY <1>8
    <2> QED BY <1>9, <2>1 DEF Whole
  <1>11. Enabled' = Enabled \ {k} /\ Enabled \subseteq Clients
    BY <1>9, <1>10 DEF Enabled
  <1>12. \A j \in Enabled' : j \in Enabled /\ co_client'[j] = co_client[j]
    BY <1>9, <1>11
  <1>13. FdsOf(Enabled)' = FdsOf(Enabled \ {k})
    <2>1. FdsOf(Enabled)' = {co_client'[j].fd : j \in Enabled'}
      BY DEF FdsOf
    <2> QED BY <1>11, <1>12, <2>1 DEF FdsOf
  <1>14. /\ co_ghost'.open = co_ghost.open /\ co_ghost'.left = left /\ co_ghost'.fds = co_ghost.fds
         /\ co_ghost'.heard = co_ghost.heard /\ co_ghost'.unserved = co_ghost.unserved
         /\ co_ghost' \in [open : SUBSET Nat, left : SUBSET Nat, unserved : SUBSET Nat, fds : Nat, heard : Nat]
    <2>1. co_ghost \in [open : SUBSET Nat, left : SUBSET Nat, unserved : SUBSET Nat, fds : Nat, heard : Nat]
      BY <1>0 DEF CoTyped
    <2>2. co_client[k].fd \in Nat
      BY <1>8
    <2>3. left \in SUBSET Nat
      BY <2>1, <2>2
    <2>4. co_ghost' = [co_ghost EXCEPT !.left = left]
      BY DEF client_gone
    <2> HIDE DEF left
    <2> QED BY <2>1, <2>3, <2>4
  <1>15. FdsOf(Enabled) = FdsOf(Enabled \ {k}) \cup {co_client[k].fd}
    BY <1>4 DEF FdsOf
  <1>16. co_client[k].fd \notin FdsOf(Enabled \ {k}) /\ co_client[k].fd # NoFd
    BY <1>0, <1>4 DEF FdsOf, CoOwned, client_gone
  <1>17. CoOwned'
    <2>1. \A i, j \in Enabled' : co_client'[i].fd = co_client'[j].fd => i = j \/ co_client'[j].fd = NoFd
      BY <1>0, <1>12 DEF CoOwned
    <2>2. Own = Own' \cup {co_client[k].fd} /\ co_client[k].fd \notin Own'
      BY <1>13, <1>15, <1>16 DEF Own
    <2>3. Own' \cup left = Own \cup co_ghost.left
      BY <2>2
    <2>4. Own' \cap left = {}
      BY <1>0, <2>2 DEF CoOwned
    <2> HIDE DEF left
    <2> QED BY <1>0, <1>14, <2>1, <2>3, <2>4 DEF CoOwned
  <1>18. InputsMatch'
    <2>1. Range(co_in') \ {Server} \subseteq Enabled'
      BY <1>0, <1>6, <1>11 DEF InputsMatch
    <2>2. \A j \in Enabled' : j \in Range(co_in') \/ j \in co_ghost'.unserved
      BY <1>0, <1>6, <1>11, <1>12, <1>14 DEF InputsMatch
    <2> QED BY <1>6, <2>1, <2>2 DEF InputsMatch
  <1>19. CoWhole'
    BY <1>0, <1>9, <1>10 DEF CoWhole
  <1>20. CoSilent'
    BY <1>0, <1>1, <1>12, <1>14 DEF CoSilent
  <1>21. CoTyped'
    BY <1>0, <1>1, <1>6, <1>9, <1>14 DEF CoTyped
  <1> QED BY <1>2, <1>6, <1>17, <1>18, <1>19, <1>20, <1>21 DEF CoInv

LEMMA CoHears ==
  ASSUME CoInv, NEW k \in Clients, NEW chunk \in CoChunks, handle_client(k, chunk)
  PROVE  CoInv'
  <1> DEFINE c == co_client[k]
             s == Scan(co_client[k], chunk)
             Records == [enabled : BOOLEAN, fd : Nat, buf : CoLine, line : CoLine, odd : BOOLEAN, since : Nat]
  <1>0. /\ CoTyped /\ co_in # <<>> /\ InputsMatch /\ CoOwned /\ CoWhole /\ CoSilent /\ CoQuiet /\ LinksShown
        /\ co_pc.at = "round" /\ UNCHANGED <<co_deadline, co_in>>
    BY DEF CoInv, handle_client, Ready
  <1>1. co_client \in [Clients -> Records] /\ c \in Records /\ co_cmd \in CoCommands
    BY <1>0 DEF CoTyped
  <1>2. /\ s \in CoRead /\ Whole(s) /\ Whole(s.cmd)
        /\ s.buf \in CoLine /\ s.line \in CoLine /\ s.odd \in BOOLEAN /\ s.cmd \in CoCommands /\ s.todo \in Seq(CoSteps)
    <2>1. chunk \in Seq(STRING)
      BY CoAssumption
    <2>2. ReadFrom(c) \in CoRead
      BY <1>1 DEF CoRead, ReadFrom
    <2>3. Whole(c) /\ Whole(co_cmd)
      BY <1>0 DEF CoWhole
    <2>4. ReadFrom(c) \in WholeRead
      BY <2>2, <2>3 DEF WholeRead, Whole, ReadFrom
    <2>5. s \in WholeRead
      BY <2>1, <2>4, ScanWhole
    <2> HIDE DEF s
    <2> QED BY <2>5 DEF WholeRead, CoRead
  <1>3. /\ co_client' = [co_client EXCEPT ![k].buf = s.buf, ![k].line = s.line, ![k].odd = s.odd]
        /\ co_cmd' = s.cmd
        /\ co_sys' = [co_sys EXCEPT !.heartbeat = co_sys.now + CoTimeout]
        /\ co_ghost' = [co_ghost EXCEPT !.heard = co_sys.now]
        /\ co_pc' = IF s.todo = <<>> THEN Further ELSE [at |-> "commands", todo |-> s.todo, back |-> Further]
    BY DEF handle_client
  <1> HIDE DEF s
  <1> DEFINE new == [co_client[k] EXCEPT !.buf = s.buf, !.line = s.line, !.odd = s.odd]
  <1>4. /\ new \in Records /\ Whole(new) /\ new.enabled = c.enabled /\ new.fd = c.fd /\ new.since = c.since
    <2>1. new \in Records
      BY <1>1, <1>2
    <2>2. new.buf = s.buf /\ new.line = s.line /\ new.odd = s.odd /\ new.enabled = c.enabled /\ new.fd = c.fd /\ new.since = c.since
      BY <1>1
    <2> HIDE DEF new
    <2> QED BY <1>2, <2>1, <2>2 DEF Whole
  <1>5. /\ co_client' \in [Clients -> Records] /\ co_client'[k] = new
        /\ \A j \in Clients : j # k => co_client'[j] = co_client[j]
    <2>1. co_client' = [co_client EXCEPT ![k] = new]
      BY <1>1, <1>3
    <2> HIDE DEF new, Records
    <2> QED BY <1>1, <1>4, <2>1
  <1> HIDE DEF new
  <1>6. \A j \in Clients : /\ co_client'[j].enabled = co_client[j].enabled
                           /\ co_client'[j].fd = co_client[j].fd /\ co_client'[j].since = co_client[j].since
    BY <1>4, <1>5
  <1>7. Enabled' = Enabled /\ Enabled \subseteq Clients
    BY <1>6 DEF Enabled
  <1>8. FdsOf(Enabled)' = FdsOf(Enabled)
    <2>1. FdsOf(Enabled)' = {co_client'[j].fd : j \in Enabled}
      BY <1>7 DEF FdsOf
    <2> QED BY <1>6, <1>7, <2>1 DEF FdsOf
  <1>9. /\ co_sys.now \in Nat \ {0} /\ CoTimeout \in Nat
        /\ co_sys'.now = co_sys.now /\ co_sys'.heartbeat = co_sys.now + CoTimeout
        /\ co_sys'.leaving = co_sys.leaving /\ co_sys'.again = co_sys.again /\ co_sys'.running = co_sys.running
        /\ co_sys'.lsc = co_sys.lsc /\ co_sys'.link = co_sys.link /\ co_sys'.shown = co_sys.shown
        /\ co_sys' \in [now : Nat \ {0}, heartbeat : Nat, running : SUBSET Nat, leaving : BOOLEAN, stop : BOOLEAN,
                        again : BOOLEAN, lsc : Nat, link : Nat, shown : Nat]
    <2>1. co_sys \in [now : Nat \ {0}, heartbeat : Nat, running : SUBSET Nat, leaving : BOOLEAN, stop : BOOLEAN,
                      again : BOOLEAN, lsc : Nat, link : Nat, shown : Nat]
      BY <1>0 DEF CoTyped
    <2>2. CoTimeout \in Nat
      BY CoAssumption
    <2>3. co_sys.now \in Nat \ {0} /\ co_sys.now + CoTimeout \in Nat
      BY <2>1, <2>2
    <2> QED BY <1>3, <2>1, <2>2, <2>3
  <1>10. /\ co_ghost'.open = co_ghost.open /\ co_ghost'.left = co_ghost.left /\ co_ghost'.fds = co_ghost.fds
         /\ co_ghost'.heard = co_sys.now /\ co_ghost'.unserved = co_ghost.unserved
         /\ co_ghost' \in [open : SUBSET Nat, left : SUBSET Nat, unserved : SUBSET Nat, fds : Nat, heard : Nat]
    BY <1>0, <1>3, <1>9 DEF CoTyped
  <1>11. co_pc' \in CoRounds \cup CoReading /\ co_pc' # Step("read links") /\ co_pc # Step("read links")
    <2>1. Further \in CoRounds /\ Further # Step("read links") /\ co_pc # Step("read links")
      BY <1>0, CoFurther, CoAt
    <2>2. CASE s.todo = <<>>
      BY <1>3, <2>1, <2>2
    <2>3. CASE s.todo # <<>>
      <3> DEFINE r == [at |-> "commands", todo |-> s.todo, back |-> Further]
      <3>1. co_pc' = r
        BY <1>3, <2>3
      <3> HIDE DEF Further
      <3>2. r \in CoReading /\ r.at = "commands"
        BY <1>2, <2>1, <2>3 DEF CoReading
      <3>3. Step("read links").at = "read links"
        BY DEF Step
      <3> HIDE DEF r
      <3> QED BY <2>1, <3>1, <3>2, <3>3
    <2> QED BY <2>2, <2>3
  <1>12. CoTyped'
    BY <1>0, <1>2, <1>3, <1>5, <1>9, <1>10, <1>11 DEF CoTyped
  <1>13. CoOwned'
    <2>1. \A i, j \in Enabled' : co_client'[i].fd = co_client'[j].fd => i = j \/ co_client'[j].fd = NoFd
      BY <1>0, <1>6, <1>7 DEF CoOwned
    <2> QED BY <1>0, <1>8, <1>10, <2>1 DEF CoOwned, Own
  <1>14. InputsMatch'
    BY <1>0, <1>6, <1>7, <1>10 DEF InputsMatch
  <1>15. CoWhole'
    BY <1>0, <1>2, <1>3, <1>4, <1>5 DEF CoWhole
  <1>16. CoSilent'
    <2>1. CoTimeout # 0 => co_sys.now + CoTimeout # Never /\ co_sys.now < co_sys.now + CoTimeout
      BY <1>9 DEF Never
    <2> QED BY <1>9, <1>10, <2>1 DEF CoSilent
  <1>17. CoQuiet' /\ LinksShown'
    BY <1>0, <1>9, <1>11 DEF CoQuiet, LinksShown
  <1> QED BY <1>0, <1>12, <1>13, <1>14, <1>15, <1>16, <1>17 DEF CoInv

\* A read that fails: the heartbeat counts anew, all else stays.
LEMMA CoFails ==
  ASSUME CoInv, NEW k \in Clients, read_fails(k)
  PROVE  CoInv'
  <1> DEFINE Sys == [now : Nat \ {0}, heartbeat : Nat, running : SUBSET Nat, leaving : BOOLEAN, stop : BOOLEAN,
                     again : BOOLEAN, lsc : Nat, link : Nat, shown : Nat]
             Ghosts == [open : SUBSET Nat, left : SUBSET Nat, unserved : SUBSET Nat, fds : Nat, heard : Nat]
  <1>0. /\ CoTyped /\ co_in # <<>> /\ InputsMatch /\ CoOwned /\ CoWhole /\ CoQuiet /\ LinksShown
        /\ co_pc.at = "round" /\ co_pc' = Further /\ UNCHANGED <<co_deadline, co_in, co_client, co_cmd>>
        /\ co_sys \in Sys /\ co_ghost \in Ghosts
    BY DEF CoInv, CoTyped, read_fails, Ready
  <1>1. /\ co_pc' \in CoRounds /\ co_pc' # Step("read links") /\ co_pc # Step("read links")
    BY <1>0, CoFurther, CoAt
  <1>2. co_sys.now \in Nat \ {0} /\ CoTimeout \in Nat /\ co_sys.now + CoTimeout \in Nat
    BY <1>0, CoAssumption
  <1> DEFINE later == co_sys.now + CoTimeout
             now == co_sys.now
  <1>3. co_sys' = [co_sys EXCEPT !.heartbeat = later] /\ co_ghost' = [co_ghost EXCEPT !.heard = now]
    BY DEF read_fails
  <1>4. /\ CoTimeout # 0 => later # Never /\ now < later
        /\ later \in Nat /\ now \in Nat /\ later = now + CoTimeout
    BY <1>2 DEF Never
  <1> HIDE DEF later
  <1>5. /\ co_sys' \in Sys /\ co_sys'.now = co_sys.now /\ co_sys'.heartbeat = later
        /\ co_sys'.leaving = co_sys.leaving /\ co_sys'.again = co_sys.again /\ co_sys'.running = co_sys.running
        /\ co_sys'.lsc = co_sys.lsc /\ co_sys'.link = co_sys.link /\ co_sys'.shown = co_sys.shown
    BY <1>0, <1>3, <1>4
  <1>6. /\ co_ghost' \in Ghosts /\ co_ghost'.heard = co_sys.now
        /\ co_ghost'.open = co_ghost.open /\ co_ghost'.left = co_ghost.left
        /\ co_ghost'.unserved = co_ghost.unserved /\ co_ghost'.fds = co_ghost.fds
    BY <1>0, <1>3, <1>4
  <1>7. Enabled' = Enabled /\ Own' = Own
    BY <1>0 DEF Enabled, Own, FdsOf
  <1>8. CoTyped'
    BY <1>0, <1>1, <1>5, <1>6 DEF CoTyped
  <1>9. InputsMatch' /\ CoOwned' /\ CoWhole'
    BY <1>0, <1>6, <1>7 DEF InputsMatch, CoOwned, CoWhole
  <1>10. CoSilent'
    BY <1>4, <1>5, <1>6 DEF CoSilent
  <1>11. CoQuiet' /\ LinksShown'
    BY <1>0, <1>1, <1>5 DEF CoQuiet, LinksShown
  <1> QED BY <1>0, <1>8, <1>9, <1>10, <1>11 DEF CoInv

\* Steps that change nothing but the state of the program and the place of the master.
LEMMA CoSysStep ==
  ASSUME CoInv, command_step \/ sigterm_handler \/ lsc_cb \/ multiplexed_input_stats \/ update_link_states
  PROVE  CoInv'
  <1> DEFINE Sys == [now : Nat \ {0}, heartbeat : Nat, running : SUBSET Nat, leaving : BOOLEAN, stop : BOOLEAN,
                     again : BOOLEAN, lsc : Nat, link : Nat, shown : Nat]
             Pcs == CoPlaces \cup CoRounds \cup CoReading
  <1>0. /\ CoTyped /\ CoSilent /\ CoQuiet /\ LinksShown /\ co_sys \in Sys /\ co_pc \in Pcs
        /\ UNCHANGED <<co_deadline, co_in, co_client, co_cmd, co_ghost>>
    BY DEF CoInv, CoTyped, command_step, sigterm_handler, lsc_cb, multiplexed_input_stats, update_link_states
  <1>1. Enabled' = Enabled
    BY <1>0 DEF Enabled
  <1> SUFFICES co_sys' \in Sys /\ co_pc' \in Pcs /\ CoSilent' /\ CoQuiet' /\ LinksShown'
    <2>1. CoTyped' <=> co_sys' \in Sys /\ co_pc' \in Pcs
      BY <1>0 DEF CoTyped
    <2> QED BY <1>0, <2>1, CoElsewhere
  <1>2. /\ {Quit(co_sys)} \subseteq Sys
        /\ Quit(co_sys).leaving /\ (~ co_sys.leaving => Quit(co_sys).running = {})
        /\ co_sys.leaving => Quit(co_sys) = co_sys
        /\ Quit(co_sys).running \in {co_sys.running, {}}
        /\ Quit(co_sys).again = co_sys.again /\ Quit(co_sys).now = co_sys.now /\ Quit(co_sys).heartbeat = co_sys.heartbeat
        /\ Quit(co_sys).lsc = co_sys.lsc /\ Quit(co_sys).link = co_sys.link /\ Quit(co_sys).shown = co_sys.shown
    BY <1>0 DEF Quit
  <1>3. CASE command_step
    <2> DEFINE step == Head(co_pc.todo)
               started == [co_sys EXCEPT !.running = @ \cup {step[2]}, !.again = @ \/ co_sys.leaving]
    <2>1. co_pc.at = "commands" /\ co_pc \in CoReading /\ co_pc # Step("read links")
      BY <1>0, <1>3, CoAt DEF command_step
    <2>2. /\ co_pc.todo \in Seq(CoSteps) /\ co_pc.todo # <<>> /\ co_pc.back \in CoRounds
      BY <2>1 DEF CoReading
    <2>3. step \in CoSteps /\ step[2] \in Nat
      <3>1. step \in CoSteps
        BY <2>2
      <3> HIDE DEF step
      <3> QED BY <3>1 DEF CoSteps
    <2>4. co_pc' \in CoRounds \cup CoReading /\ co_pc' # Step("read links")
      <3>1. \A r \in CoRounds \cup CoReading : r.at \in {"round", "commands"}
        BY DEF CoRounds, CoReading
      <3>2. Step("read links").at = "read links"
        BY DEF Step
      <3>3. CASE Len(co_pc.todo) = 1
        <4>1. co_pc' = co_pc.back
          BY <1>3, <3>3 DEF command_step
        <4> QED BY <2>2, <3>1, <3>2, <4>1
      <3>4. CASE Len(co_pc.todo) # 1
        <4> DEFINE rest == Tail(co_pc.todo)
        <4>1. rest \in Seq(CoSteps) \ {<<>>}
          <5>1. Len(co_pc.todo) \in Nat \ {0, 1}
            BY <2>2, <3>4
          <5>2. rest \in Seq(CoSteps) /\ Len(rest) = Len(co_pc.todo) - 1
            BY <2>2
          <5> HIDE DEF rest
          <5>3. Len(rest) # 0
            BY <5>1, <5>2
          <5>4. rest # <<>>
            BY <5>3
          <5> QED BY <5>2, <5>4
        <4>2. co_pc' = [co_pc EXCEPT !.todo = rest]
          BY <1>3, <3>4 DEF command_step
        <4> HIDE DEF rest
        <4>3. co_pc' \in CoReading
          BY <2>1, <4>1, <4>2 DEF CoReading
        <4> QED BY <3>1, <3>2, <4>3
      <3> QED BY <3>3, <3>4
    <2> HIDE DEF step
    <2>5. /\ started \in Sys /\ started.now = co_sys.now /\ started.heartbeat = co_sys.heartbeat
          /\ started.leaving = co_sys.leaving /\ (started.again <=> co_sys.again \/ co_sys.leaving)
          /\ started.lsc = co_sys.lsc /\ started.link = co_sys.link /\ started.shown = co_sys.shown
      BY <1>0, <2>3
    <2> HIDE DEF started
    <2>6. co_sys' = Quit(co_sys) \/ co_sys' = started
      BY <1>3 DEF command_step, step, started
    <2> HIDE DEF Sys
    <2>7. co_sys' \in Sys /\ co_pc' \in Pcs
      BY <1>2, <2>4, <2>5, <2>6
    <2>8. CoSilent'
      BY <1>0, <1>1, <1>2, <2>1, <2>5, <2>6 DEF CoSilent
    <2>9. CoQuiet'
      BY <1>0, <1>2, <2>5, <2>6 DEF CoQuiet
    <2>10. LinksShown'
      BY <1>0, <1>2, <2>1, <2>4, <2>5, <2>6 DEF LinksShown
    <2> QED BY <2>7, <2>8, <2>9, <2>10
  <1>4. CASE sigterm_handler
    <2>1. co_sys' = Quit(co_sys) /\ co_pc' = co_pc
      BY <1>4 DEF sigterm_handler
    <2> HIDE DEF Sys
    <2>2. co_sys' \in Sys /\ co_pc' \in Pcs
      BY <1>0, <1>2, <2>1
    <2>3. CoSilent'
      BY <1>0, <1>1, <1>2, <2>1 DEF CoSilent
    <2>4. CoQuiet' /\ LinksShown'
      BY <1>0, <1>2, <2>1 DEF CoQuiet, LinksShown
    <2> QED BY <2>2, <2>3, <2>4
  <1>5. CASE lsc_cb
    <2>1. co_sys' = [co_sys EXCEPT !.link = @ + 1, !.lsc = @ + 1] /\ co_pc' = co_pc
      BY <1>5 DEF lsc_cb
    <2> DEFINE one == co_sys.lsc + 1
               link == co_sys.link + 1
    <2>3. one \in Nat /\ one # 0 /\ link \in Nat /\ co_sys' = [co_sys EXCEPT !.link = link, !.lsc = one]
      BY <1>0, <2>1
    <2> HIDE DEF one, link
    <2>2. /\ co_sys' \in Sys /\ co_sys'.lsc # 0
          /\ co_sys'.now = co_sys.now /\ co_sys'.heartbeat = co_sys.heartbeat /\ co_sys'.running = co_sys.running
          /\ co_sys'.leaving = co_sys.leaving /\ co_sys'.again = co_sys.again
      BY <1>0, <2>3
    <2> QED BY <1>0, <1>1, <2>1, <2>2 DEF CoSilent, CoQuiet, LinksShown
  <1>6. CASE multiplexed_input_stats
    <2>1. co_pc' \in {Step("update"), Step("read links")} /\ co_pc = Step("links")
      BY <1>6 DEF multiplexed_input_stats
    <2>2. /\ Step("links") # Step("read links") /\ Step("update") # Step("read links")
          /\ co_pc' \in CoPlaces /\ co_pc'.at # "commands"
      <3>1. Step("links").at = "links" /\ Step("update").at = "update" /\ Step("read links").at = "read links"
        BY DEF Step
      <3>2. Step("links") # Step("read links") /\ Step("update") # Step("read links")
        BY <3>1
      <3>3. co_pc'.at # "commands"
        BY <2>1, <3>1
      <3> QED BY <2>1, <3>2, <3>3 DEF CoPlaces
    <2>3. CASE co_sys.lsc = 0
      <3>1. co_sys' = co_sys /\ co_pc' = Step("update")
        BY <1>6, <2>3 DEF multiplexed_input_stats
      <3> QED BY <1>0, <1>1, <2>1, <2>2, <3>1 DEF CoSilent, CoQuiet, LinksShown
    <2>4. CASE co_sys.lsc # 0
      <3>1. co_sys' = [co_sys EXCEPT !.lsc = @ - 1] /\ co_pc' = Step("read links")
        BY <1>6, <2>4 DEF multiplexed_input_stats
      <3> DEFINE less == co_sys.lsc - 1
      <3>4. co_sys.lsc \in Nat
        BY <1>0
      <3>5. less \in Nat
        BY <2>4, <3>4
      <3>6. co_sys' = [co_sys EXCEPT !.lsc = less]
        BY <3>1
      <3> HIDE DEF less
      <3>2. /\ co_sys' \in Sys
            /\ co_sys'.now = co_sys.now /\ co_sys'.heartbeat = co_sys.heartbeat /\ co_sys'.running = co_sys.running
            /\ co_sys'.leaving = co_sys.leaving /\ co_sys'.again = co_sys.again
        BY <1>0, <3>5, <3>6
      <3> QED BY <1>0, <1>1, <2>2, <3>1, <3>2 DEF CoSilent, CoQuiet, LinksShown
    <2> QED BY <2>3, <2>4
  <1>7. CASE update_link_states
    <2>1. co_sys' = [co_sys EXCEPT !.shown = co_sys.link] /\ co_pc' = Step("update")
      BY <1>7 DEF update_link_states
    <2>2. /\ co_sys' \in Sys /\ co_sys'.shown = co_sys'.link
          /\ co_sys'.now = co_sys.now /\ co_sys'.heartbeat = co_sys.heartbeat /\ co_sys'.running = co_sys.running
          /\ co_sys'.leaving = co_sys.leaving /\ co_sys'.again = co_sys.again
      BY <1>0, <2>1
    <2>3. co_pc' \in CoPlaces /\ co_pc'.at # "commands"
      BY <2>1 DEF CoPlaces, Step
    <2> QED BY <1>0, <1>1, <2>2, <2>3 DEF CoSilent, CoQuiet, LinksShown
  <1> QED BY <1>3, <1>4, <1>5, <1>6, <1>7

LEMMA CoUpdates ==
  ASSUME CoInv, run_update
  PROVE  CoInv'
  <1> DEFINE now == co_sys.now + 1
             ends == CoDuration # 0 /\ now >= CoDuration
             Sys == [now : Nat \ {0}, heartbeat : Nat, running : SUBSET Nat, leaving : BOOLEAN, stop : BOOLEAN,
                     again : BOOLEAN, lsc : Nat, link : Nat, shown : Nat]
  <1>0. /\ CoTyped /\ co_in # <<>> /\ InputsMatch /\ CoOwned /\ CoWhole /\ CoSilent /\ CoQuiet /\ LinksShown
        /\ co_sys \in Sys /\ UNCHANGED <<co_deadline, co_cmd>> /\ co_pc = Step("update")
    BY DEF CoInv, CoTyped, run_update
  <1>1. co_pc # Step("read links") /\ co_pc' \in CoPlaces /\ co_pc' # Step("read links") /\ co_pc'.at # "commands"
    <2>1. \A p : Step(p).at = p
      BY DEF Step
    <2>2. co_pc' \in {Step("exit"), Step("inputs")}
      BY DEF run_update, Loop
    <2> QED BY <1>0, <2>1, <2>2 DEF CoPlaces
  <1>2. now \in Nat \ {0} /\ co_sys.now \in Nat /\ now = co_sys.now + 1 /\ ends \in BOOLEAN
    BY <1>0
  <1>3. CASE Expired(now)
    <2>1. co_sys' = [co_sys EXCEPT !.now = now, !.stop = @ \/ ends, !.running = {}, !.heartbeat = Never] /\ stop_handling_client
      BY <1>3 DEF run_update
    <2> HIDE DEF now, ends
    <2>2. /\ co_sys' \in Sys /\ co_sys'.running = {} /\ co_sys'.heartbeat = Never /\ co_sys'.now = now
          /\ co_sys'.lsc = co_sys.lsc /\ co_sys'.link = co_sys.link /\ co_sys'.shown = co_sys.shown
      BY <1>0, <1>2, <2>1 DEF Never
    <2> DEFINE Records == [enabled : BOOLEAN, fd : Nat, buf : CoLine, line : CoLine, odd : BOOLEAN, since : Nat]
    <2>3. co_client \in [Clients -> Records]
      BY <1>0 DEF CoTyped
    <2>4. co_client' = [k \in Clients |-> [co_client[k] EXCEPT !.enabled = FALSE]]
      BY <2>1 DEF stop_handling_client
    <2>5. \A k \in Clients : /\ [co_client[k] EXCEPT !.enabled = FALSE] \in Records
                             /\ co_client'[k].enabled = FALSE
                             /\ Whole(co_client[k]) => Whole(co_client'[k])
      BY <2>3, <2>4 DEF Whole
    <2>6. co_client' \in [Clients -> Records]
      <3> HIDE DEF Records
      <3> QED BY <2>4, <2>5
    <2>7. Enabled' = {} /\ FdsOf(Enabled)' = {}
      BY <2>5 DEF Enabled, FdsOf
    <2>8. /\ co_in' \in Seq(Nat) /\ co_in' # <<>> /\ IsInjective(co_in')
          /\ co_in'[1] = Server /\ Range(co_in') = {Server}
      BY <2>1, StoppedLeaves
    <2>9. /\ co_ghost'.open = co_ghost.open \ FdsOf(Enabled) /\ co_ghost'.left = co_ghost.left
          /\ co_ghost'.fds = co_ghost.fds /\ co_ghost'.heard = co_ghost.heard
          /\ co_ghost' \in [open : SUBSET Nat, left : SUBSET Nat, unserved : SUBSET Nat, fds : Nat, heard : Nat]
      <3>1. co_ghost \in [open : SUBSET Nat, left : SUBSET Nat, unserved : SUBSET Nat, fds : Nat, heard : Nat]
        BY <1>0 DEF CoTyped
      <3>2. co_ghost' = [co_ghost EXCEPT !.open = @ \ FdsOf(Enabled)]
        BY <2>1 DEF stop_handling_client, FdsOf, Enabled
      <3> QED BY <3>1, <3>2
    <2>10. CoOwned'
      <3>1. 1 .. co_ghost.fds \cap {NoFd} = {}
        BY DEF NoFd
      <3>2. Own' = {} /\ co_ghost.open \ FdsOf(Enabled) = co_ghost.left
        BY <1>0, <2>7, <3>1 DEF CoOwned, Own
      <3> QED BY <1>0, <2>7, <2>9, <3>2 DEF CoOwned
    <2>11. InputsMatch'
      BY <2>7, <2>8 DEF InputsMatch
    <2>12. CoWhole'
      BY <1>0, <2>5 DEF CoWhole
    <2>13. CoSilent'
      <3>1. co_ghost.heard # Never => now >= co_ghost.heard + CoTimeout
        BY <1>0, <1>3 DEF CoSilent, Expired
      <3> QED BY <1>1, <2>2, <2>7, <2>9, <3>1 DEF CoSilent
    <2>14. CoQuiet' /\ LinksShown'
      BY <1>0, <1>1, <2>2 DEF CoQuiet, LinksShown
    <2>15. CoTyped'
      BY <1>0, <1>1, <2>2, <2>6, <2>8, <2>9 DEF CoTyped
    <2> QED BY <2>8, <2>10, <2>11, <2>12, <2>13, <2>14, <2>15 DEF CoInv
  <1>4. CASE ~ Expired(now)
    <2>1. co_sys' = [co_sys EXCEPT !.now = now, !.stop = @ \/ ends] /\ UNCHANGED <<co_client, co_in, co_ghost>>
      BY <1>4 DEF run_update
    <2> HIDE DEF now, ends
    <2>2. /\ co_sys' \in Sys /\ co_sys'.now = now /\ co_sys'.heartbeat = co_sys.heartbeat
          /\ co_sys'.running = co_sys.running /\ co_sys'.leaving = co_sys.leaving /\ co_sys'.again = co_sys.again
          /\ co_sys'.lsc = co_sys.lsc /\ co_sys'.link = co_sys.link /\ co_sys'.shown = co_sys.shown
      BY <1>0, <1>2, <2>1
    <2>3. Enabled' = Enabled
      BY <2>1 DEF Enabled
    <2>4. CoSilent'
      <3>1. co_ghost.heard \in Nat /\ CoTimeout \in Nat /\ co_sys.heartbeat \in Nat
        BY <1>0, CoAssumption DEF CoTyped
      <3>2. CoTimeout # 0 /\ co_sys.heartbeat # Never => now < co_sys.heartbeat
        BY <1>2, <1>4, <3>1 DEF Expired
      <3>3. co_sys.now >= co_ghost.heard + CoTimeout => now >= co_ghost.heard + CoTimeout
        BY <1>2, <3>1 DEF now
      <3> QED BY <1>0, <1>1, <2>1, <2>2, <2>3, <3>2, <3>3 DEF CoSilent
    <2>5. CoQuiet' /\ LinksShown'
      BY <1>0, <1>1, <2>2 DEF CoQuiet, LinksShown
    <2>6. CoTyped'
      BY <1>0, <1>1, <2>1, <2>2 DEF CoTyped
    <2> QED BY <1>0, <2>1, <2>4, <2>5, <2>6, CoElsewhere
  <1> QED BY <1>3, <1>4

LEMMA CoStep == CoInv /\ [CoNext]_co_vars => CoInv'
  <1> SUFFICES ASSUME CoInv, [CoNext]_co_vars PROVE CoInv'
    OBVIOUS
  <1>1. ASSUME NEW k \in Clients, client_gone(k) PROVE CoInv'
    BY <1>1, CoGone
  <1>2. ASSUME NEW k \in Clients, NEW chunk \in CoChunks, handle_client(k, chunk) PROVE CoInv'
    BY <1>2, CoHears
  <1>3. ASSUME NEW ready \in SUBSET Range(co_in), input_proc(ready) PROVE CoInv'
    BY <1>3, CoMovesStep
  <1>4. CASE input_proc_until \/ skip_input \/ before_update
    BY <1>4, CoMovesStep
  <1>5. CASE command_step \/ sigterm_handler \/ lsc_cb \/ multiplexed_input_stats \/ update_link_states
    BY <1>5, CoSysStep
  <1>6. ASSUME NEW accepted \in BOOLEAN, handle_new_client(accepted) PROVE CoInv'
    BY <1>6, CoAccepts
  <1>9. ASSUME NEW k \in Clients, read_fails(k) PROVE CoInv'
    BY <1>9, CoFails
  <1>7. CASE run_update
    BY <1>7, CoUpdates
  <1>8. CASE UNCHANGED co_vars
    <2>1. UNCHANGED <<co_deadline, co_in, co_client, co_pc, co_sys, co_cmd, co_ghost>>
      BY <1>8 DEF co_vars
    <2>2. Enabled' = Enabled
      BY <2>1 DEF Enabled
    <2>3. CoTyped' /\ CoSilent' /\ CoQuiet' /\ LinksShown'
      BY <2>1, <2>2 DEF CoInv, CoTyped, CoSilent, CoQuiet, LinksShown
    <2> QED BY <2>1, <2>3, CoElsewhere
  <1> QED BY <1>1, <1>2, <1>3, <1>4, <1>5, <1>6, <1>7, <1>8, <1>9 DEF CoNext

LEMMA CoInvSound == CoInv => ConsoleSound
  <1> SUFFICES ASSUME CoInv PROVE ConsoleSound
    OBVIOUS
  <1>1. DescriptorsOwned
    <2>1. NoFd \notin co_ghost.left
      BY DEF CoInv, CoOwned, NoFd
    <2> QED BY <2>1 DEF CoInv, CoOwned, Own, DescriptorsOwned
  <1>2. CommandsWhole
    BY DEF CoInv, CoWhole, Whole, CommandsWhole, Enabled
  <1>3. SilenceStops
    <2>1. co_sys.now \in Nat /\ co_ghost.heard \in Nat /\ CoTimeout \in Nat
      BY CoAssumption DEF CoInv, CoTyped
    <2> QED BY <2>1 DEF CoInv, CoSilent, SilenceStops
  <1>4. QuitStops
    BY DEF CoInv, CoQuiet, QuitStops
  <1> QED BY <1>1, <1>2, <1>3, <1>4 DEF CoInv, ConsoleSound

\* However signals, changes of the link and clients come between the steps of the master:
\* a client that is listened to is one that is there, and owns its descriptor; a command is
\* the line a client sent; no core runs after a silence or a quit, unless started since; and
\* the links shown are those of the last change that was looked at.
THEOREM ConsoleStaysSound == CoSpec => []ConsoleSound
  <1>1. CoSpec => []CoInv
    BY CoStart, CoStep, PTL DEF CoSpec
  <1> QED BY <1>1, CoInvSound, PTL

=============================================================================
