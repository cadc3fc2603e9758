---------------------------- MODULE CoreControl ----------------------------
(***************************************************************************)
(* Starting and stopping the tasks of worker cores: the master thread      *)
(* (start_cores, stop_cores and the cmd_* functions of commands.c), the    *)
(* one-slot message of each core (struct lconf_msg), the handler of that   *)
(* message (lconf_do_flags, msg_start and msg_stop of lconf.c) and the     *)
(* polling loop of the worker (tsc_term and thread_generic).               *)
(*                                                                         *)
(* The master is a single thread, so at most one command is in progress;   *)
(* the workers run concurrently with it and with each other.  A step of    *)
(* the model is a stretch of code between two accesses to shared state.    *)
(***************************************************************************)
EXTENDS Integers, Sequences

CONSTANTS
  Cores,        \* the worker cores
  n_tasks_all,  \* number of tasks configured on each core
  FM,           \* <<core, task>> whose mode has start_first/stop_last (fm)
  CoreLists,    \* the core lists a command may carry
  TaskArgs,     \* the task arguments a command may carry (-1: all)
  Timeouts,     \* TRUE: wait_command_handled may give up
  EalFinished   \* TRUE: a returned lcore stays FINISHED until waited for

ASSUME CoreControlAssumption ==
  /\ n_tasks_all \in [Cores -> Nat \ {0}]
  /\ FM \subseteq Cores \X Nat
  /\ CoreLists \subseteq Seq(Cores)
  /\ TaskArgs \subseteq Nat \cup {-1}
  /\ Timeouts \in BOOLEAN
  /\ EalFinished \in BOOLEAN

(***************************************************************************)
(* An entry of the worker's local array tasks[] that was never assigned.   *)
(***************************************************************************)
Garbage == -2

VARIABLES
  msg,              \* lconf->msg: [req, type, task_id]
  tasks_run,        \* lconf->tasks_run[0 .. n_tasks_run - 1], as task ids
  task_is_running,  \* the tasks whose lconf->task_is_running[] is set
  flag_running,     \* LCONF_FLAG_RUNNING of lconf->flags
  dpi_opaque,       \* the core's shared DPI thread exists (handle_fm.c)
  lcore,            \* state of the lcore in DPDK's EAL
  wpc,              \* where the worker is in thread_generic
  wtasks,           \* the worker's local tasks[0 .. n_tasks_run - 1]
  pc,               \* where the master is in its command
  op,               \* the command: "start", "stop" or "other"
  arg,              \* its task argument
  todo,             \* cores its first loop has still to visit
  posted            \* started_cores / stopped_cores still to be waited for

coreVars   == <<msg, tasks_run, task_is_running, dpi_opaque>>
workerVars == <<lcore, wpc, wtasks>>
masterVars == <<pc, op, arg, todo, posted>>
vars == <<msg, tasks_run, task_is_running, flag_running, dpi_opaque,
          lcore, wpc, wtasks, pc, op, arg, todo, posted>>

Tasks(c)  == 0 .. (n_tasks_all[c] - 1)
n_tasks_run(c) == Len(tasks_run[c])
Idle(c)   == ~ msg[c].req

Init ==
  /\ msg = [c \in Cores |-> [req |-> FALSE, type |-> "STOP", task_id |-> 0]]
  /\ tasks_run = [c \in Cores |-> <<>>]
  /\ task_is_running = [c \in Cores |-> {}]
  /\ flag_running = [c \in Cores |-> FALSE]
  /\ dpi_opaque = [c \in Cores |-> FALSE]
  /\ lcore = [c \in Cores |-> "WAIT"]
  /\ wpc = [c \in Cores |-> "loop"]
  /\ wtasks = [c \in Cores |-> <<>>]
  /\ pc = "idle" /\ op = "other" /\ arg = 0
  /\ todo = <<>> /\ posted = <<>>

-----------------------------------------------------------------------------
(***************************************************************************)
(* The arrays of msg_start and msg_stop.                                   *)
(***************************************************************************)

\* Mutant: the task is added at the end.
AppendTask(s, t) == Append(s, t)

\* tasks_run after task t is inserted: the scan from the end stops at the
\* first entry not above t, and every entry above t has moved up by one.
InsertTask(s, t) ==
  LET p == CHOOSE p \in 0 .. Len(s) :
              /\ p > 0 => s[p] <= t
              /\ \A i \in (p + 1) .. Len(s) : s[i] > t
  IN  [i \in 1 .. Len(s) + 1 |-> IF i <= p THEN s[i]
                                 ELSE IF i = p + 1 THEN t ELSE s[i - 1]]

\* tasks_run after the entry of task t is overwritten by its successors.
RemoveTask(s, t) ==
  LET p == CHOOSE p \in 1 .. Len(s) : s[p] = t
  IN  [i \in 1 .. Len(s) - 1 |-> IF i < p THEN s[i] ELSE s[i + 1]]

Holds(s, t) == \E i \in 1 .. Len(s) : s[i] = t
InRun(c, t) == Holds(tasks_run[c], t)
RunSet(c) == {tasks_run[c][i] : i \in 1 .. n_tasks_run(c)}

msg_start_all(c) ==
  /\ tasks_run' = [tasks_run EXCEPT ![c] = [i \in 1 .. n_tasks_all[c] |-> i - 1]]
  /\ task_is_running' = [task_is_running EXCEPT ![c] = Tasks(c)]
  /\ dpi_opaque' = [dpi_opaque EXCEPT ![c] =
       @ \/ (n_tasks_run(c) = 0 /\ \E t \in Tasks(c) : <<c, t>> \in FM)]

msg_start_one(c, t) ==
  IF t >= n_tasks_all[c] \/ (n_tasks_run(c) > 0 /\ t \in task_is_running[c])
  THEN UNCHANGED <<tasks_run, task_is_running, dpi_opaque>>
  ELSE /\ tasks_run' = [tasks_run EXCEPT ![c] = InsertTask(@, t)]
       /\ task_is_running' = [task_is_running EXCEPT ![c] = @ \cup {t}]
       /\ dpi_opaque' = [dpi_opaque EXCEPT ![c] =
            @ \/ (n_tasks_run(c) = 0 /\ <<c, t>> \in FM)]

\* stop_last is called on the last task the loop found running.
LastRunning(c, t) ==
  /\ t \in task_is_running[c]
  /\ \A u \in task_is_running[c] : u <= t

msg_stop_all(c) ==
  /\ tasks_run' = [tasks_run EXCEPT ![c] = <<>>]
  /\ task_is_running' = [task_is_running EXCEPT ![c] = {}]
  /\ dpi_opaque' = [dpi_opaque EXCEPT ![c] =
       @ /\ ~ \E t \in Tasks(c) : LastRunning(c, t) /\ <<c, t>> \in FM]

\* Mutant: stop_last is called for whichever task is stopped.
msg_stop_one_last(c, t) ==
  IF ~ InRun(c, t)
  THEN UNCHANGED <<tasks_run, task_is_running, dpi_opaque>>
  ELSE /\ tasks_run' = [tasks_run EXCEPT ![c] = RemoveTask(@, t)]
       /\ task_is_running' = [task_is_running EXCEPT ![c] = @ \ {t}]
       /\ dpi_opaque' = [dpi_opaque EXCEPT ![c] = @ /\ <<c, t>> \notin FM]

msg_stop_one(c, t) ==
  IF ~ InRun(c, t)
  THEN UNCHANGED <<tasks_run, task_is_running, dpi_opaque>>
  ELSE /\ tasks_run' = [tasks_run EXCEPT ![c] = RemoveTask(@, t)]
       /\ task_is_running' = [task_is_running EXCEPT ![c] = @ \ {t}]
       /\ dpi_opaque' = [dpi_opaque EXCEPT ![c] =
            @ /\ ~ (n_tasks_run(c) = 1 /\ <<c, t>> \in FM)]

\* Mutant: an early return leaves the request of a STOP set.
unset_req_not_stop(c) == msg' = [msg EXCEPT ![c].req = @ /\ msg[c].type = "STOP"]
lconf_unset_req(c) == msg' = [msg EXCEPT ![c].req = FALSE]

\* lconf_do_flags: dispatch on the message, then lconf_unset_req.  Messages
\* other than START and STOP change no task set (module Hooks has them).
lconf_do_flags(c) ==
  LET t == msg[c].task_id IN
  /\ CASE msg[c].type = "STOP"  -> IF t = -1 THEN msg_stop_all(c)
                                             ELSE msg_stop_one(c, t)
       [] msg[c].type = "START" -> IF t = -1 THEN msg_start_all(c)
                                             ELSE msg_start_one(c, t)
       [] OTHER -> UNCHANGED <<tasks_run, task_is_running, dpi_opaque>>
  /\ lconf_unset_req(c)

-----------------------------------------------------------------------------
(***************************************************************************)
(* The worker: thread_generic.                                             *)
(***************************************************************************)

\* tsc_term returns -2 after these.  Mutant: only after a STOP.
ReloadsAfterStop(type) == type = "STOP"
Reloads(type) == type \in {"START", "STOP"}

\* tsc_term: poll the slot, handle the message; START and STOP make it
\* return -2 after flushing the queues.
tsc_term(c) ==
  /\ lcore[c] = "RUNNING" /\ wpc[c] = "loop"
  /\ msg[c].req
  /\ lconf_do_flags(c)
  /\ wpc' = [wpc EXCEPT ![c] =
       IF Reloads(msg[c].type) THEN "reload" ELSE "loop"]
  /\ UNCHANGED <<flag_running, lcore, wtasks, masterVars>>

TasksLeft(c) == n_tasks_run(c) > 0

\* Back in thread_generic: return when nothing runs, else copy tasks_run.
Reload(c) ==
  /\ lcore[c] = "RUNNING" /\ wpc[c] = "reload"
  /\ wtasks' = [wtasks EXCEPT ![c] = tasks_run[c]]
  /\ wpc' = [wpc EXCEPT ![c] = "loop"]
  /\ lcore' = [lcore EXCEPT ![c] =
       IF TasksLeft(c) THEN "RUNNING"
       ELSE IF EalFinished THEN "FINISHED" ELSE "WAIT"]
  /\ UNCHANGED <<coreVars, flag_running, masterVars>>

Worker(c) == tsc_term(c) \/ Reload(c)

-----------------------------------------------------------------------------
(***************************************************************************)
(* The master.                                                             *)
(***************************************************************************)

\* A command arrives while the master runs its main loop.
Command(o, cs, t) ==
  /\ pc = "idle"
  /\ op' = o /\ arg' = t /\ todo' = cs /\ posted' = <<>>
  /\ pc' = IF o = "other" THEN "wait" ELSE "check"
  /\ UNCHANGED <<coreVars, workerVars, flag_running>>

start_command == \E cs \in CoreLists, t \in TaskArgs : Command("start", cs, t)
stop_command  == \E cs \in CoreLists, t \in TaskArgs : Command("stop", cs, t)
other_command == \E c \in Cores, t \in TaskArgs :
                    /\ t \in Tasks(c)
                    /\ Command("other", <<c>>, t)

\* First loop, the conditions read before wait_command_handled.
Eligible(c) ==
  /\ arg < n_tasks_all[c]
  /\ op = "start" => n_tasks_run(c) # n_tasks_all[c]
  /\ op = "stop"  => n_tasks_run(c) # 0

Check ==
  /\ pc = "check" /\ todo # <<>>
  /\ IF Eligible(Head(todo))
     THEN pc' = "wait" /\ UNCHANGED todo
     ELSE pc' = "check" /\ todo' = Tail(todo)
  /\ UNCHANGED <<coreVars, workerVars, flag_running, op, arg, posted>>

\* wait_command_handled before a message is written.  Mutant: no wait.
NoWait(c) == TRUE
Free(c) == Idle(c)

PostMsg(c, type) ==
  msg' = [msg EXCEPT ![c] = [req |-> TRUE, type |-> type, task_id |-> arg]]

start_post ==
  LET c == Head(todo) IN
  /\ pc = "wait" /\ op = "start" /\ Free(c)
  /\ PostMsg(c, "START")
  /\ flag_running' = [flag_running EXCEPT ![c] = TRUE]
  /\ posted' = Append(posted, c)
  /\ pc' = "launch"
  /\ UNCHANGED <<tasks_run, task_is_running, dpi_opaque, workerVars, op, arg, todo>>

\* rte_eal_remote_launch: refused (its result is ignored) unless the lcore
\* is waiting.  thread_generic starts with n_tasks_run = lconf->n_tasks_run
\* and an unassigned tasks[].
start_launch ==
  LET c == Head(todo) IN
  /\ pc = "launch"
  /\ IF lcore[c] = "WAIT"
     THEN /\ lcore' = [lcore EXCEPT ![c] = "RUNNING"]
          /\ wpc' = [wpc EXCEPT ![c] = "loop"]
          /\ wtasks' = [wtasks EXCEPT ![c] =
                          [i \in 1 .. n_tasks_run(c) |-> Garbage]]
     ELSE UNCHANGED workerVars
  /\ pc' = "check" /\ todo' = Tail(todo)
  /\ UNCHANGED <<coreVars, flag_running, op, arg, posted>>

stop_post ==
  LET c == Head(todo) IN
  /\ pc = "wait" /\ op = "stop" /\ Free(c)
  /\ PostMsg(c, "STOP")
  /\ posted' = Append(posted, c)
  /\ pc' = "check" /\ todo' = Tail(todo)
  /\ UNCHANGED <<tasks_run, task_is_running, dpi_opaque, flag_running, workerVars, op, arg>>

\* cmd_dump, cmd_trace, cmd_rx_distr_start, ...: one core, no second loop.
other_post ==
  LET c == Head(todo) IN
  /\ pc = "wait" /\ op = "other" /\ Free(c)
  /\ PostMsg(c, "OTHER")
  /\ pc' = "self"
  /\ UNCHANGED <<tasks_run, task_is_running, dpi_opaque, flag_running, workerVars,
                 op, arg, todo, posted>>

\* ... and the master handles the message itself when nothing runs there.
\* Mutant: it leaves the message to a worker.
other_not_self ==
  /\ pc = "self" /\ pc' = "idle" /\ todo' = <<>>
  /\ UNCHANGED <<coreVars, workerVars, flag_running, op, arg, posted>>

other_self ==
  LET c == Head(todo) IN
  /\ pc = "self"
  /\ IF n_tasks_run(c) = 0 THEN lconf_do_flags(c) ELSE UNCHANGED coreVars
  /\ pc' = "idle" /\ todo' = <<>>
  /\ UNCHANGED <<workerVars, flag_running, op, arg, posted>>

SecondLoop ==
  /\ pc = "check" /\ todo = <<>>
  /\ pc' = "ack"
  /\ UNCHANGED <<coreVars, workerVars, flag_running, op, arg, todo, posted>>

\* stop_cores waits for a thread whose last task was stopped.  Mutant: it
\* does not.
JoinsNever(c) == FALSE
Joins(c) == op = "stop" /\ n_tasks_run(c) = 0

Ack ==
  /\ pc = "ack" /\ posted # <<>> /\ Idle(Head(posted))
  /\ IF Joins(Head(posted))
     THEN pc' = "join" /\ UNCHANGED posted
     ELSE pc' = "ack" /\ posted' = Tail(posted)
  /\ UNCHANGED <<coreVars, workerVars, flag_running, op, arg, todo>>

FlagCleared(c) == [flag_running EXCEPT ![c] = FALSE]

\* rte_eal_wait_lcore returns once the lcore function has returned.
stop_join ==
  LET c == Head(posted) IN
  /\ pc = "join" /\ lcore[c] # "RUNNING"
  /\ lcore' = [lcore EXCEPT ![c] = "WAIT"]
  /\ flag_running' = FlagCleared(c)
  /\ pc' = "ack" /\ posted' = Tail(posted)
  /\ UNCHANGED <<coreVars, wpc, wtasks, op, arg, todo>>

Done ==
  /\ pc = "ack" /\ posted = <<>>
  /\ pc' = "idle"
  /\ UNCHANGED <<coreVars, workerVars, flag_running, op, arg, todo, posted>>

\* wait_command_handled gives up: start_cores / stop_cores / cmd_* return.
Timeout ==
  /\ Timeouts
  /\ \/ pc = "wait" /\ ~ Idle(Head(todo))
     \/ pc = "ack" /\ posted # <<>> /\ ~ Idle(Head(posted))
  /\ pc' = "idle" /\ todo' = <<>> /\ posted' = <<>>
  /\ UNCHANGED <<coreVars, workerVars, flag_running, op, arg>>

InCommand == \/ Check \/ start_post \/ start_launch \/ stop_post \/ other_post
             \/ other_self \/ SecondLoop \/ Ack \/ stop_join \/ Done \/ Timeout

Next ==
  \/ start_command \/ stop_command \/ other_command
  \/ InCommand
  \/ \E c \in Cores : Worker(c)

Spec == Init /\ [][Next]_vars

\* A worker polls its slot for ever and the master thread always runs on;
\* nothing makes an operator type a command.
FairSpec == Spec /\ WF_vars(InCommand) /\ \A c \in Cores : WF_vars(Worker(c))

-----------------------------------------------------------------------------
(***************************************************************************)
(* Properties.                                                             *)
(***************************************************************************)

MsgTypes == {"START", "STOP", "OTHER"}

\* Types of all variables.
TypeOK ==
  /\ msg \in [Cores -> [req : BOOLEAN, type : MsgTypes, task_id : Nat \cup {-1}]]
  /\ tasks_run \in [Cores -> Seq(Nat)]
  /\ task_is_running \in [Cores -> SUBSET Nat]
  /\ flag_running \in [Cores -> BOOLEAN]
  /\ dpi_opaque \in [Cores -> BOOLEAN]
  /\ lcore \in [Cores -> {"WAIT", "RUNNING", "FINISHED"}]
  /\ wpc \in [Cores -> {"loop", "reload"}]
  /\ wtasks \in [Cores -> Seq(Nat \cup {Garbage})]
  /\ pc \in {"idle", "check", "wait", "launch", "self", "ack", "join"}
  /\ op \in {"start", "stop", "other"}
  /\ arg \in Nat \cup {-1}
  /\ todo \in Seq(Cores)
  /\ posted \in Seq(Cores)
  /\ pc \in {"wait", "launch", "self"} => todo # <<>>
  /\ pc = "join" => posted # <<>>

\* The run list of a core is strictly sorted and holds exactly the tasks
\* whose task_is_running is set: no start or stop, in any order, duplicates,
\* loses or misplaces an entry (msg_start's insertion, msg_stop's removal).
Sorted(s) == \A i, j \in 1 .. Len(s) : i < j => s[i] < s[j]
RunListConsistent ==
  \A c \in Cores :
    /\ task_is_running[c] \subseteq Tasks(c)
    /\ Sorted(tasks_run[c])
    /\ RunSet(c) = task_is_running[c]

\* "This is empty when the core is stopped" (lconf.h, tasks_run): a core
\* whose thread does not run has no running task, whatever was timed out.
StoppedCoreIsEmpty ==
  \A c \in Cores : lcore[c] # "RUNNING" => tasks_run[c] = <<>>

\* The worker polls exactly the started tasks: its private copy is never
\* older than the run list when it polls, and the uninitialised array with
\* which it enters the loop is never read.
WorkerPollsRunList ==
  \A c \in Cores :
    lcore[c] = "RUNNING" /\ wpc[c] = "loop" => wtasks[c] = tasks_run[c]

\* When the master handles a message itself, the worker of that core is not
\* polling: lconf_do_flags never runs on two threads for one core.
SingleHandler ==
  pc = "self" /\ n_tasks_run(Head(todo)) = 0 =>
    ~ (lcore[Head(todo)] = "RUNNING" /\ wpc[Head(todo)] = "loop")

\* The worker and its run list agree, whether it runs or not.
WorkerSettled == StoppedCoreIsEmpty /\ WorkerPollsRunList

\* Once the message a start or stop posted to a core has been consumed, the
\* core is in the state the command asked for, until the command returns.
CommandDone(c) ==
  IF op = "start"
  THEN IF arg = -1 THEN n_tasks_run(c) = n_tasks_all[c] ELSE InRun(c, arg)
  ELSE IF arg = -1 THEN n_tasks_run(c) = 0 ELSE ~ InRun(c, arg)
ConsumedMeansDone ==
  \A i \in 1 .. Len(posted) :
    pc # "idle" /\ Idle(posted[i]) => CommandDone(posted[i])

\* A message in a slot has a worker that will poll it: the worker runs and
\* is not about to return, or the master is about to launch it or to handle
\* the message itself.  Needs every wait to last until the message is
\* handled (Timeouts = FALSE).
SlotServed ==
  \A c \in Cores :
    msg[c].req =>
      \/ lcore[c] = "RUNNING" /\ (wpc[c] = "reload" => tasks_run[c] # <<>>)
      \/ pc = "launch" /\ Head(todo) = c /\ lcore[c] = "WAIT"
      \/ pc = "self" /\ Head(todo) = c

\* LCONF_FLAG_RUNNING tells, between commands, whether the worker runs.
RunningFlagAccurate ==
  pc = "idle" => \A c \in Cores : flag_running[c] <=> lcore[c] = "RUNNING"

\* Both: what a command reads of a core before it posts to it is true.
SlotWatched == SlotServed /\ RunningFlagAccurate

\* handle_fm.c start: PROX_PANIC(task->dpi_opaque == NULL): a running fm
\* task has the DPI thread that start_first of its core creates.
EngineReady ==
  \A c \in Cores : \A t \in task_is_running[c] : <<c, t>> \in FM => dpi_opaque[c]

\* What starts and stops have done, at any time: an answered one has taken
\* effect, and a running fm task has its engine.
CommandsEffective == ConsumedMeansDone /\ EngineReady

\* Every command returns: no wait for a message or for a thread is endless.
CommandReturns == pc # "idle" ~> pc = "idle"

\* "Set by master core (if not set), unset by worker after consumption."
\* (lconf.h, struct lconf_msg): a posted message is consumed.
MsgConsumed == \A c \in Cores : msg[c].req ~> ~ msg[c].req

-----------------------------------------------------------------------------
(***************************************************************************)
(* The inductive invariant from which the safety properties are proved in  *)
(* CoreControl_proofs.                                                     *)
(***************************************************************************)

\* A polling worker without tasks has been launched for a START it has yet
\* to read; nobody can overwrite that message before it does.
StartPending ==
  \A c \in Cores :
    lcore[c] = "RUNNING" /\ wpc[c] = "loop" /\ tasks_run[c] = <<>> =>
      msg[c].req /\ msg[c].type = "START"

\* The master launches a worker only for a START it has just posted, which
\* is pending as long as the core has no task.
LaunchPending ==
  pc = "launch" =>
    /\ msg[Head(todo)].type = "START"
    /\ tasks_run[Head(todo)] = <<>> => msg[Head(todo)].req

\* start_cores lets no START with an invalid task through.
StartValid ==
  /\ \A c \in Cores :
       msg[c].req /\ msg[c].type = "START" => msg[c].task_id < n_tasks_all[c]
  /\ pc = "wait" /\ op = "start" => arg < n_tasks_all[Head(todo)]

SelfPosted == pc = "self" => msg[Head(todo)].type = "OTHER"

IInv ==
  /\ TypeOK /\ RunListConsistent /\ StoppedCoreIsEmpty /\ WorkerPollsRunList
  /\ StartPending /\ LaunchPending /\ StartValid /\ SelfPosted

(***************************************************************************)
(* What CommandsEffective needs besides.                                   *)
(***************************************************************************)

\* What the configuration must satisfy: on one core all tasks have a mode
\* with start_first and stop_last, or none has.
UniformFM ==
  \A c \in Cores : \A t, u \in Tasks(c) : <<c, t>> \in FM => <<c, u>> \in FM

\* A core the command waits for has its message in the slot, or has done
\* what it says.
PostedOrDone(c) ==
  IF Idle(c) THEN CommandDone(c)
  ELSE /\ msg[c].type = (IF op = "start" THEN "START" ELSE "STOP")
       /\ msg[c].task_id = arg

\* Commands without a second loop wait for no core.
AllPostedOrDone ==
  /\ \A i \in 1 .. Len(posted) : PostedOrDone(posted[i])
  /\ op = "other" => posted = <<>>
  /\ pc = "self" => op = "other"

EInv == AllPostedOrDone /\ EngineReady

(***************************************************************************)
(* What SlotWatched needs besides, when no wait is given up.               *)
(***************************************************************************)

\* No core list names a core twice.
Distinct(s) == \A i, j \in 1 .. Len(s) : i # j => s[i] # s[j]
NoDuplicates == \A cs \in CoreLists : Distinct(cs)

Running(c) == lcore[c] = "RUNNING"
Waiting    == {posted[i] : i \in 1 .. Len(posted)}
Served(c)  == pc = "self" /\ Head(todo) = c

\* A core no start or stop has touched since the last one returned.
Settled(c) ==
  /\ flag_running[c] <=> Running(c)
  /\ Running(c) <=> tasks_run[c] # <<>>
  /\ lcore[c] # "FINISHED"
  /\ msg[c].req => msg[c].type = "OTHER" /\ (Running(c) \/ Served(c))

\* A core start_cores waits for: its thread runs, or is about to be launched.
Starting(c) ==
  /\ flag_running[c] /\ lcore[c] # "FINISHED"
  /\ msg[c].req => msg[c].type = "START"
  /\ ~ Running(c) => pc = "launch" /\ Head(todo) = c
  /\ tasks_run[c] = <<>> => msg[c].req /\ (Running(c) => wpc[c] = "loop")

\* A core stop_cores waits for: its thread returns only after the last task
\* was stopped, and then with an empty slot.
Stopping(c) ==
  /\ flag_running[c]
  /\ msg[c].req => msg[c].type = "STOP"
  /\ tasks_run[c] # <<>> => Running(c)
  /\ tasks_run[c] = <<>> => ~ msg[c].req /\ (Running(c) => wpc[c] = "reload")

\* The master names each core once: those to visit, and those waited for.
Visits ==
  /\ Distinct(todo) /\ Distinct(posted)
  /\ \A i \in 1 .. Len(todo) : todo[i] \in Waiting <=> (pc = "launch" /\ i = 1)
  /\ pc = "idle" => posted = <<>>
  /\ pc \in {"ack", "join"} => todo = <<>>
  /\ pc = "join" => op = "stop" /\ ~ msg[Head(posted)].req /\ tasks_run[Head(posted)] = <<>>
  /\ pc = "launch" => op = "start"
  /\ pc = "self" => op = "other"
  /\ pc = "wait" /\ op = "stop" => tasks_run[Head(todo)] # <<>>
  /\ op = "other" => posted = <<>> /\ pc \in {"wait", "self", "idle"}

Watched(c) ==
  IF c \notin Waiting THEN Settled(c)
  ELSE IF op = "start" THEN Starting(c) ELSE Stopping(c)

WInv == Visits /\ \A c \in Cores : Watched(c)

-----------------------------------------------------------------------------
(***************************************************************************)
(* Refinement of TaskControl: the set of running tasks is the contents of  *)
(* the run list, the request is the message while req is set.              *)
(***************************************************************************)
RunSets == [c \in Cores |-> RunSet(c)]
Pending == [c \in Cores |->
  IF msg[c].req THEN [type |-> msg[c].type, task_id |-> msg[c].task_id]
  ELSE [type |-> "NONE", task_id |-> 0]]

Abstract == INSTANCE TaskControl WITH running <- RunSets, request <- Pending

\* The arrays behave as sets and the slot as a one-place request: a message
\* is never overwritten before it is consumed, never applied twice, and the
\* run list changes only when it is applied.
ImplementsTaskControl == Abstract!Spec

=============================================================================
