------------------------------- MODULE Hooks -------------------------------
(***************************************************************************)
(* The debugging and counting functions that messages install in front of  *)
(* the receive and transmit functions of a task: the stack of receive      *)
(* functions (task_base.h), the single tx_pkt_orig slot (lconf_do_flags),  *)
(* the functions themselves (rx_pkt.c, tx_pkt.c) and the commands of the   *)
(* master that ask for them (commands.c).                                  *)
(*                                                                         *)
(* One core with one task.  In an L3 task the slot is aux->tx_pkt_l2, in   *)
(* any other task it is tx_pkt; both are used the same way, so the model   *)
(* has one slot.  The packets printed and the buckets are left out.        *)
(***************************************************************************)
EXTENDS Integers, Sequences, SequencesExt, FiniteSets

CONSTANTS
  Commands,      \* the message types the operator asks for
  Vals,          \* packet counts given to dump, dump_rx, dump_tx
  BurstSizes,    \* packets of one receive or transmit call
  RxOrigs,       \* receive functions a task may be configured with
  TxOrigs,       \* transmit functions a task may be configured with
  MAX_STACKED_RX_FUNCTIONS,
  Patient        \* TRUE: each command is given once the last is handled

ASSUME HooksAssumption ==
  /\ Vals \subseteq Nat /\ BurstSizes \subseteq Nat \ {0}
  /\ RxOrigs \subseteq {"rx", "dummy"} /\ RxOrigs # {}
  /\ TxOrigs \subseteq {"tx", "drop_all"} /\ TxOrigs # {}
  /\ MAX_STACKED_RX_FUNCTIONS \in Nat \ {0}
  /\ Patient \in BOOLEAN

NULL == "NULL"

\* The messages LCONF_MSG_<d>_<f>_START and _STOP and the flag
\* LCONF_FLAG_<d>_<f>_ACTIVE, for d in RX, TX and f in DISTR, BW.
Starts == [RX |-> [DISTR |-> "RX_DISTR_START", BW |-> "RX_BW_START"],
           TX |-> [DISTR |-> "TX_DISTR_START", BW |-> "TX_BW_START"]]
Stops  == [RX |-> [DISTR |-> "RX_DISTR_STOP", BW |-> "RX_BW_STOP"],
           TX |-> [DISTR |-> "TX_DISTR_STOP", BW |-> "TX_BW_STOP"]]
Start(d, f)  == Starts[d][f]
Stop(d, f)   == Stops[d][f]
Active(d, f) == <<d, f>>

NoCommand == [type |-> NULL, val |-> 0]

\* The contents of a consumed message are never read again.
MsgTaken == [req |-> FALSE, type |-> NULL, val |-> 0]

VARIABLES
  msg,          \* lconf->msg: [req, type, val]
  cmd,          \* the command for which the master waits on the slot
  rx,           \* rx_pkt, then aux->rx_pkt_prev[0 .. rx_prev_count - 1]
  tx,           \* the transmit slot: tx_pkt, or aux->tx_pkt_l2
  tx_pkt_orig,
  n_print_rx, n_print_tx, n_trace, cur_trace,   \* task_rt_dump
  flags,        \* the LCONF_FLAG_..._ACTIVE set in lconf->flags
  bulk          \* the task is in handle_bulk, with packets to transmit

taskVars == <<rx, tx, tx_pkt_orig, n_print_rx, n_print_tx, n_trace, cur_trace>>
hook_vars == <<msg, cmd, rx, tx, tx_pkt_orig, n_print_rx, n_print_tx, n_trace,
               cur_trace, flags, bulk>>

HookInit ==
  /\ msg = MsgTaken /\ cmd = NoCommand
  /\ rx \in {<<f>> : f \in RxOrigs}
  /\ tx \in TxOrigs /\ tx_pkt_orig = NULL
  /\ n_print_rx = 0 /\ n_print_tx = 0 /\ n_trace = 0 /\ cur_trace = 0
  /\ flags = {} /\ bulk = FALSE

AtMost(m, n) == IF m < n THEN m ELSE n

-----------------------------------------------------------------------------
(***************************************************************************)
(* The stack of receive functions.                                         *)
(***************************************************************************)

\* A full stack ignores the addition.
task_base_add_rx_pkt_function(s, f) ==
  IF Len(s) - 1 = MAX_STACKED_RX_FUNCTIONS THEN s ELSE <<f>> \o s

\* Mutant: the topmost function is removed, whichever it is.
DelTop(s, f) == IF Len(s) > 1 THEN Tail(s) ELSE s

\* Removes the topmost f; the original function is never asked for.
task_base_del_rx_pkt_function(s, f) ==
  IF Len(s) > 1 /\ Contains(s, f)
  THEN RemoveAt(s, CHOOSE i \in 1 .. Len(s) :
                     s[i] = f /\ \A j \in 1 .. (i - 1) : s[j] # f)
  ELSE s

original_rx(s) == s[Len(s)]

\* Mutant: rx_pkt_dump stays installed.
AfterRxStays(t, f, n) ==
  IF f = "dump" THEN [t EXCEPT !.n_print_rx = @ - AtMost(n, @)] ELSE t

\* What one function on the stack does when the functions below it have
\* returned n packets; t holds the stack and the counters.
After_rx(t, f, n) ==
  CASE f = "dump" ->
         LET left == t.n_print_rx - AtMost(n, t.n_print_rx) IN
         [t EXCEPT !.n_print_rx = left,
                   !.rx = IF left = 0 THEN task_base_del_rx_pkt_function(@, "dump")
                          ELSE @]
    [] f = "trace" ->
         LET seen == AtMost(n, t.n_trace) IN
         [t EXCEPT !.n_trace = @ - seen, !.cur_trace = @ + seen]
    [] OTHER -> t

\* All of them, innermost first; rx_pkt_trace clears cur_trace on entry.
HookReceive(n) ==
  LET before == [rx |-> rx, n_print_rx |-> n_print_rx, n_trace |-> n_trace,
                 cur_trace |-> IF Contains(rx, "trace") THEN 0 ELSE cur_trace]
      after[i \in 0 .. Len(rx)] ==
        IF i = 0 THEN before ELSE After_rx(after[i - 1], rx[Len(rx) + 1 - i], n)
  IN  IF n = 0 THEN before ELSE after[Len(rx)]

call_rx_pkt(n) ==
  /\ original_rx(rx) = "dummy" => n = 1
  /\ LET t == HookReceive(n) IN
     /\ rx' = t.rx /\ n_print_rx' = t.n_print_rx
     /\ n_trace' = t.n_trace /\ cur_trace' = t.cur_trace
  /\ bulk' = (n > 0)
  /\ UNCHANGED <<msg, cmd, tx, tx_pkt_orig, n_print_tx, flags>>

-----------------------------------------------------------------------------
(***************************************************************************)
(* The transmit slot.                                                      *)
(***************************************************************************)

\* Every installed function calls tx_pkt_orig: the call returns only when
\* the slot or tx_pkt_orig is the configured function.
Returns == tx \in TxOrigs \/ tx_pkt_orig \in TxOrigs

Restore == tx' = tx_pkt_orig /\ tx_pkt_orig' = NULL

\* No function, or one that only counts, is installed.
tx_pkt_plain ==
  /\ tx \notin {"dump", "trace"}
  /\ UNCHANGED <<rx, tx, tx_pkt_orig, n_print_tx, n_trace, cur_trace>>

tx_pkt_dump(n) ==
  /\ tx = "dump"
  /\ n_print_tx' = n_print_tx - AtMost(n, n_print_tx)
  /\ IF n_print_tx' = 0 THEN Restore ELSE UNCHANGED <<tx, tx_pkt_orig>>
  /\ UNCHANGED <<rx, n_trace, cur_trace>>

\* Nothing received since tracing was asked for: dump instead.
tx_pkt_trace_dump(n) ==
  /\ tx = "trace" /\ cur_trace = 0
  /\ IF n_trace < n
     THEN n_trace' = 0 /\ rx' = task_base_del_rx_pkt_function(rx, "trace")
     ELSE n_trace' = n_trace - n /\ UNCHANGED rx
  /\ IF n_trace <= n THEN Restore ELSE UNCHANGED <<tx, tx_pkt_orig>>
  /\ n_print_tx' = 0 /\ UNCHANGED cur_trace

\* tx_pkt_trace and unset_trace.
tx_pkt_trace ==
  /\ tx = "trace" /\ cur_trace # 0
  /\ IF n_trace = 0
     THEN /\ Restore /\ cur_trace' = 0
          /\ rx' = task_base_del_rx_pkt_function(rx, "trace")
     ELSE UNCHANGED <<rx, tx, tx_pkt_orig, cur_trace>>
  /\ UNCHANGED <<n_print_tx, n_trace>>

call_tx_pkt(n) ==
  /\ bulk /\ Returns
  /\ tx_pkt_plain \/ tx_pkt_dump(n) \/ tx_pkt_trace_dump(n) \/ tx_pkt_trace
  /\ UNCHANGED <<msg, cmd, n_print_rx, flags, bulk>>

-----------------------------------------------------------------------------
(***************************************************************************)
(* lconf_do_flags, for the messages that install and remove functions.     *)
(***************************************************************************)

\* Mutant: dump and trace do not look either.
InstallOver(f) == tx' = f /\ tx_pkt_orig' = tx

\* dump and trace replace what was installed ...
InstallTx(f) ==
  /\ tx' = f
  /\ tx_pkt_orig' = IF tx_pkt_orig # NULL THEN tx_pkt_orig ELSE tx

\* ... counting does not look.
StackTx(f) == tx' = f /\ tx_pkt_orig' = tx

RemoveTx(flag) ==
  IF tx_pkt_orig # NULL THEN Restore /\ flags' = flags \ {flag}
  ELSE UNCHANGED <<tx, tx_pkt_orig, flags>>

\* A trace of a task that drops everything becomes a dump_rx.
Type == IF msg.type = "TRACE" /\ tx = "drop_all" THEN "DUMP_RX" ELSE msg.type

DumpRx ==
  /\ Type \in {"DUMP", "DUMP_RX"} /\ msg.val > 0
  /\ n_print_rx' = msg.val
  /\ rx' = task_base_add_rx_pkt_function(rx, "dump")
  /\ IF Type = "DUMP" THEN n_print_tx' = msg.val /\ InstallTx("dump")
     ELSE UNCHANGED <<n_print_tx, tx, tx_pkt_orig>>
  /\ UNCHANGED <<n_trace, flags>>

DumpTx ==
  /\ \/ Type = "DUMP_TX"
     \/ Type = "TRACE" /\ original_rx(rx) = "dummy"
  /\ msg.val > 0
  /\ n_print_tx' = msg.val /\ InstallTx("dump")
  /\ UNCHANGED <<rx, n_print_rx, n_trace, flags>>

Trace ==
  /\ Type = "TRACE" /\ original_rx(rx) # "dummy" /\ msg.val > 0
  /\ n_trace' = msg.val
  /\ rx' = task_base_add_rx_pkt_function(rx, "trace")
  /\ InstallTx("trace")
  /\ UNCHANGED <<n_print_rx, n_print_tx, flags>>

\* RX_DISTR_START and RX_BW_START, RX_DISTR_STOP and RX_BW_STOP.
CountRx(f) ==
  /\ \/ /\ Type = Start("RX", f)
        /\ rx' = task_base_add_rx_pkt_function(rx, f)
        /\ flags' = flags \cup {Active("RX", f)}
     \/ /\ Type = Stop("RX", f)
        /\ rx' = task_base_del_rx_pkt_function(rx, f)
        /\ flags' = flags \ {Active("RX", f)}
  /\ UNCHANGED <<tx, tx_pkt_orig, n_print_rx, n_print_tx, n_trace>>

\* TX_DISTR_START and TX_BW_START, TX_DISTR_STOP and TX_BW_STOP.
CountTx(f) ==
  /\ \/ Type = Start("TX", f) /\ StackTx(f) /\ flags' = flags \cup {Active("TX", f)}
     \/ Type = Stop("TX", f) /\ RemoveTx(Active("TX", f))
  /\ UNCHANGED <<rx, n_print_rx, n_print_tx, n_trace>>

\* RX_DISTR_RESET, TX_DISTR_RESET, or a count of zero packets.
NoEffect ==
  /\ \/ Type \in {"RX_DISTR_RESET", "TX_DISTR_RESET"}
     \/ Type \in {"DUMP", "DUMP_RX", "DUMP_TX", "TRACE"} /\ msg.val = 0
  /\ UNCHANGED <<rx, tx, tx_pkt_orig, n_print_rx, n_print_tx, n_trace, flags>>

lconf_do_flags ==
  /\ msg.req
  /\ \/ DumpRx \/ DumpTx \/ Trace \/ NoEffect
     \/ \E f \in {"DISTR", "BW"} : CountRx(f) \/ CountTx(f)
  /\ msg' = MsgTaken
  /\ bulk' = FALSE
  /\ UNCHANGED <<cmd, cur_trace>>

-----------------------------------------------------------------------------
(***************************************************************************)
(* The master: the flag is read, then the slot is waited for.              *)
(***************************************************************************)

Allowed(type) ==
  \A d \in {"RX", "TX"}, f \in {"DISTR", "BW"} :
    /\ type = Start(d, f) => Active(d, f) \notin flags
    /\ type = Stop(d, f)  => Active(d, f) \in flags

Counted == {"DUMP", "DUMP_RX", "DUMP_TX", "TRACE"}

\* The next command is given when the last one is posted, or when
\* wait_command_handled has given up on it, which leaves no other trace.
command ==
  /\ cmd = NoCommand \/ msg.req
  /\ Patient => ~ msg.req
  /\ \E type \in Commands :
       /\ Allowed(type)
       /\ \E v \in (IF type \in Counted THEN Vals ELSE {0}) :
            cmd' = [type |-> type, val |-> v]
  /\ UNCHANGED <<msg, taskVars, flags, bulk>>

post ==
  /\ cmd # NoCommand /\ ~ msg.req
  /\ msg' = [req |-> TRUE, type |-> cmd.type, val |-> cmd.val]
  /\ cmd' = NoCommand
  /\ UNCHANGED <<taskVars, flags, bulk>>

HookNext ==
  \/ command \/ post
  \/ lconf_do_flags
  \/ \E n \in BurstSizes \cup {0} : call_rx_pkt(n)
  \/ \E n \in BurstSizes : call_tx_pkt(n)

HookSpec == HookInit /\ [][HookNext]_hook_vars

\* The task is polled and packets keep arriving.
HookFairSpec ==
  /\ HookSpec
  /\ WF_hook_vars(lconf_do_flags)
  /\ WF_hook_vars(\E n \in BurstSizes : call_rx_pkt(n))

-----------------------------------------------------------------------------
(***************************************************************************)
(* Properties.                                                             *)
(***************************************************************************)

\* Types of all variables; the stack holds at most MAX_STACKED_RX_FUNCTIONS
\* functions above the configured one, which stays at its bottom and is the
\* only one of its kind.
Kinds == {"dump", "trace", "DISTR", "BW"}
HookTypeOK ==
  /\ Len(rx) \in 1 .. (MAX_STACKED_RX_FUNCTIONS + 1)
  /\ rx[Len(rx)] \in RxOrigs /\ \A k \in 1 .. (Len(rx) - 1) : rx[k] \in Kinds
  /\ tx \in TxOrigs \cup Kinds
  /\ tx_pkt_orig \in TxOrigs \cup Kinds \cup {NULL}
  /\ {n_print_rx, n_print_tx, n_trace, cur_trace} \subseteq Nat
  /\ flags \subseteq {"RX", "TX"} \X {"DISTR", "BW"}
  /\ bulk \in BOOLEAN

CountOf(f) == Cardinality({k \in 1 .. Len(rx) : rx[k] = f})

\* A flag that is clear has no counting function left behind, and one that
\* is set has at most one: holds when every command waits for the last.
RxCountersMatchFlags ==
  /\ CountOf("DISTR") <= IF Active("RX", "DISTR") \in flags THEN 1 ELSE 0
  /\ CountOf("BW") <= IF Active("RX", "BW") \in flags THEN 1 ELSE 0

\* rx distr stop: "Stop gathering statistical distribution of received
\* packets" (cmd_parser.c): once it is handled, nothing gathers.
StopMeansStopped ==
  [][lconf_do_flags /\ Type = Stop("RX", "DISTR") =>
       CountOf("DISTR")' = 0]_hook_vars

\* "When the number of packets to dump falls back to 0, the original
\* (optimized) rx function is restored" (rx_pkt_dump), as packets arrive.
DumpEnds == n_print_rx = 0 ~> (n_print_rx > 0 \/ CountOf("dump") = 0)

\* Whatever is installed, in any order, the transmit call reaches the
\* configured function, except once counting was started over another
\* installed function.
OnlyCountingLosesTransmit ==
  [][Returns /\ ~ Returns' =>
       /\ lconf_do_flags /\ Type \in {Start("TX", "DISTR"), Start("TX", "BW")}
       /\ tx_pkt_orig # NULL]_hook_vars

-----------------------------------------------------------------------------
(***************************************************************************)
(* An inductive invariant, for commands that wait for the last: the stack  *)
(* has a counting function at most once, and only while its flag is set;   *)
(* a command that was allowed still is when it is handled.                 *)
(***************************************************************************)
StackOK(s) ==
  /\ s \in Seq(RxOrigs \cup Kinds) /\ s # <<>>
  /\ s[Len(s)] \in RxOrigs /\ \A k \in 1 .. (Len(s) - 1) : s[k] \in Kinds

Once(s, f)   == \A j, k \in 1 .. Len(s) : s[j] = f /\ s[k] = f => j = k
Absent(s, f) == \A k \in 1 .. Len(s) : s[k] # f

Follows(s, F) ==
  /\ StackOK(s)
  /\ \A f \in {"DISTR", "BW"} : Once(s, f) /\ (Active("RX", f) \notin F => Absent(s, f))

HookInv ==
  /\ Follows(rx, flags)
  /\ cmd # NoCommand => ~ msg.req /\ Allowed(cmd.type)
  /\ msg.req => Allowed(msg.type)
=============================================================================
