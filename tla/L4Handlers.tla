----------------------------- MODULE L4Handlers -----------------------------
(***************************************************************************)
(* The handlers of the L4 generator (handle_genl4.c): which packets they   *)
(* process and send, call after call, when the token bucket refuses one.   *)
(*                                                                         *)
(* The server stores what it receives in a queue (fqueue.h), processes it  *)
(* window by window (handle_gen_queued) and sends what timers call for     *)
(* (handle_gen_scheduled).  Either part may be cut off by the bucket after *)
(* it has processed a packet; the packet is kept for the next call, by the *)
(* queue in its window and by the timers in mbuf_saved, and one flag,      *)
(* cancelled, says so for both.  The client has no queue and is never cut  *)
(* off; both take the packets they create from new_mbufs.                  *)
(*                                                                         *)
(* Received packets are numbered in the order they arrive.  Whether a      *)
(* packet is answered, swallowed or dropped makes no difference here.      *)
(***************************************************************************)
EXTENDS Integers, Sequences, SequencesExt

CONSTANTS
  L4Burst,      \* MAX_PKT_BURST
  QueueSize,    \* entries of the fqueue, a power of two
  MaxReceived,  \* bound: packets received
  Roles         \* "server", "client": the task that runs

ASSUME L4HandlersAssumption ==
  /\ L4Burst \in Nat \ {0} /\ QueueSize \in Nat \ {0} /\ MaxReceived \in Nat
  /\ Roles \subseteq {"server", "client"}

VARIABLES
  role,
  sv    \* the state of the task, a record

l4h_vars == <<role, sv>>

Slots == 1 .. L4Burst

\* new_mbufs: the slots that hold a packet of the task's own; one that was
\* sent, or is saved elsewhere, still has its pointer in the array.
L4HInit ==
  /\ role \in Roles
  /\ sv = [fqueue |-> <<>>, window |-> <<>>, cancelled |-> FALSE, mbuf_saved |-> FALSE,
           handle_state |-> "queued", owned |-> {}, n_new_mbufs |-> 0,
           received |-> 0, processed |-> <<>>, sent |-> {}, overflowed |-> {},
           wrong |-> FALSE, stopped |-> FALSE]

-----------------------------------------------------------------------------
(***************************************************************************)
(* The packets a task creates.                                             *)
(***************************************************************************)

\* Mutant: the packet that was cut off is still counted.
UsedUpSent(s, n, cut) == [s EXCEPT !.n_new_mbufs = @ - n]
UsedUp(s, n, cut) == [s EXCEPT !.n_new_mbufs = @ - (n + IF cut THEN 1 ELSE 0)]

\* refill_mbufs writes to the first slots, as many as are missing; a packet
\* that was there would be lost.
refill_mbufs(s) ==
  LET fresh == 1 .. (L4Burst - s.n_new_mbufs) IN
  [s EXCEPT !.n_new_mbufs = L4Burst, !.owned = @ \cup fresh,
            !.wrong = @ \/ fresh \cap s.owned # {}]

\* The first n slots are sent; with cut, the next packet is saved.
SendNew(s, n, cut) ==
  LET used == 1 .. (n + IF cut THEN 1 ELSE 0) IN
  [UsedUp(s, n, cut) EXCEPT
     !.owned = @ \ used, !.wrong = @ \/ ~ (used \subseteq s.owned),
     !.cancelled = cut, !.mbuf_saved = cut]

-----------------------------------------------------------------------------
(***************************************************************************)
(* The two parts of the server's handler.  Each gives the states it may    *)
(* leave and its return value.                                             *)
(***************************************************************************)

Ret(s, r) == [state |-> s, ret |-> r]

\* fqueue_get, when the window is used up.
Fetched(s) ==
  IF s.window # <<>> THEN s
  ELSE LET n == Min({L4Burst, Len(s.fqueue)}) IN
       [s EXCEPT !.window = SubSeq(s.fqueue, 1, n), !.fqueue = SubSeq(@, n + 1, Len(@))]

\* Mutant: the packet that was kept is processed again.
FirstToProcessAll(s) == 1
FirstToProcess(s) == IF s.cancelled THEN 2 ELSE 1

\* Packets of the window up to the last are processed, those up to the n-th
\* sent; the window begins with the one after it.
Processed(s, last, n) ==
  LET w == s.window  from == FirstToProcess(s) IN
  [s EXCEPT !.processed = @ \o SubSeq(w, from, last),
            !.sent = @ \cup Range(SubSeq(w, 1, n)),
            !.wrong = @ \/ Range(SubSeq(w, 1, n)) \cap s.sent # {} \/ from > Len(w) + 1,
            !.window = SubSeq(w, n + 1, Len(w)), !.cancelled = last > n]

handle_gen_queued(s) ==
  LET f == Fetched(s)  from == FirstToProcess(f)  len == Len(f.window) IN
  {Ret(Processed(f, len, len), 0)}
    \cup {Ret(Processed(f, k, k - 1), -1) : k \in from .. len}
    \cup (IF s.cancelled THEN {Ret(f, -1)} ELSE {})

\* The saved packet is sent; its pointer stays.
Resumed(s) ==
  IF s.cancelled
  THEN [s EXCEPT !.cancelled = FALSE, !.mbuf_saved = FALSE, !.wrong = @ \/ ~ s.mbuf_saved]
  ELSE s

\* The pool of packets may be exhausted; any number of timers has expired.
handle_gen_scheduled(s) ==
  LET r == Resumed(s)  f == refill_mbufs(r) IN
  {Ret(r, -1)}
    \cup {Ret(SendNew(f, n, FALSE), 0) : n \in 0 .. L4Burst}
    \cup {Ret(SendNew(f, n, TRUE), -1) : n \in 0 .. (L4Burst - 1)}
    \cup (IF s.cancelled THEN {Ret(s, -1)} ELSE {})

\* Mutant: the part that was cut off does not go first at the next call.
SwitchedNever(s, first, second) == s
Switched(s, first, second) == [s EXCEPT !.handle_state = IF second.ret # 0 THEN first ELSE @]

\* One part, and if it was not cut off the other.
Parts(s) ==
  IF s.handle_state = "queued"
  THEN UNION {IF a.ret # 0 THEN {a.state}
              ELSE {Switched(b.state, "scheduled", b) : b \in handle_gen_scheduled(a.state)}
              : a \in handle_gen_queued(s)}
  ELSE UNION {IF a.ret # 0 THEN {a.state}
              ELSE {Switched(b.state, "queued", b) : b \in handle_gen_queued(a.state)}
              : a \in handle_gen_scheduled(s)}

\* fqueue_put stores what it has room for; the rest is dropped.
Stored(s, n) ==
  LET new == [i \in 1 .. n |-> s.received + i]
      fit == Min({n, QueueSize - 1 - Len(s.fqueue)})
  IN [s EXCEPT !.received = @ + n, !.fqueue = @ \o SubSeq(new, 1, fit),
               !.overflowed = @ \cup Range(SubSeq(new, fit + 1, n))]

handle_gen_bulk(n) ==
  /\ role = "server" /\ ~ sv.stopped /\ sv.received + n <= MaxReceived
  /\ \E s \in Parts(Stored(sv, n)) : sv' = s
  /\ UNCHANGED role

\* The client: timers that have expired, then new connections, both only if
\* the slots can be filled.
handle_gen_bulk_client ==
  /\ role = "client" /\ UNCHANGED role
  /\ \E n, new \in 0 .. L4Burst, refill \in BOOLEAN :
       LET a == IF refill THEN SendNew(refill_mbufs(sv), n, FALSE) ELSE sv IN
       sv' \in {a, SendNew(refill_mbufs(a), new, FALSE)}

\* stop_task_gen_server: the timers' packet, as cancelled says, is dropped,
\* then what is in the window and in the queue.  The loop that does it does
\* not move the window on: with a packet there it drops the same ones for ever.
stop_task_gen_server ==
  /\ role = "server" /\ ~ sv.stopped
  /\ sv' = [sv EXCEPT !.stopped = TRUE, !.cancelled = FALSE, !.mbuf_saved = FALSE,
                      !.wrong = @ \/ (sv.cancelled /\ ~ sv.mbuf_saved)
                                  \/ Fetched(sv).window # <<>>]
  /\ UNCHANGED role

\* start_task_gen_server: the bucket is empty.  The task starts again only
\* when its stop has returned.
start_task_gen_server ==
  /\ sv.stopped /\ Fetched(sv).window = <<>>
  /\ sv' = [sv EXCEPT !.stopped = FALSE] /\ UNCHANGED role

L4HNext ==
  \/ \E n \in 0 .. L4Burst : handle_gen_bulk(n)
  \/ handle_gen_bulk_client
  \/ stop_task_gen_server
  \/ start_task_gen_server

L4HSpec == L4HInit /\ [][L4HNext]_l4h_vars

-----------------------------------------------------------------------------
(***************************************************************************)
(* Properties.                                                             *)
(***************************************************************************)

Increasing(q) == \A i, j \in 1 .. Len(q) : i < j => q[i] < q[j]

\* Every packet is given to its connection once and in the order it arrived,
\* however often the handler is cut off, and every one that is neither kept
\* nor lost for want of room is sent.
ServedInOrder ==
  LET all == Range(sv.processed) \cup Range(sv.window) \cup Range(sv.fqueue) IN
  /\ Increasing(sv.processed \o (IF sv.cancelled /\ ~ sv.mbuf_saved THEN Tail(sv.window) ELSE sv.window)
                  \o sv.fqueue)
  /\ all \cup sv.overflowed = 1 .. sv.received /\ all \cap sv.overflowed = {}
  /\ Range(sv.processed) \ Range(sv.window) = sv.sent

\* The part that was cut off, and no other, goes on with the packet that was
\* kept.
ResumedByOwner ==
  sv.cancelled => sv.handle_state = (IF sv.mbuf_saved THEN "scheduled" ELSE "queued")

\* No packet is sent twice, sent after it was given away, or lost, except by
\* a stop while packets wait (stop_task_gen_server).
PacketsOwned == sv.wrong => sv.stopped /\ Fetched(sv).window # <<>>

ServerSound == PacketsOwned /\ (~ sv.wrong => ServedInOrder /\ ResumedByOwner)

\* "The mbuf that is currently been processed (and which has been cancelled)
\* is saved in task->mbuf_saved" (handle_gen_scheduled): a stop drops it, and
\* what else waits, once.
StopDropsOnce == ~ sv.wrong

-----------------------------------------------------------------------------
(***************************************************************************)
(* An inductive invariant.  The packets that were stored form one line:    *)
(* those sent, then the window, then the queue.                            *)
(***************************************************************************)
ServerState ==
  [fqueue : Seq(Nat), window : Seq(Nat), cancelled : BOOLEAN, mbuf_saved : BOOLEAN,
   handle_state : {"queued", "scheduled"}, owned : SUBSET Nat, n_new_mbufs : 0 .. L4Burst,
   received : Nat, processed : Seq(Nat), sent : SUBSET Nat, overflowed : SUBSET Nat,
   wrong : BOOLEAN, stopped : BOOLEAN]

\* The packet that was cut off is the first of the window, and processed.
KeptByQueue(s) == s.cancelled /\ ~ s.mbuf_saved
Done(s) == IF KeptByQueue(s) THEN SubSeq(s.processed, 1, Len(s.processed) - 1) ELSE s.processed

InLine(s, done) ==
  LET line == done \o (s.window \o s.fqueue) IN
  /\ KeptByQueue(s) => s.window # <<>>
  /\ s.processed = done \o (IF KeptByQueue(s) THEN <<s.window[1]>> ELSE <<>>)
  /\ s.sent = Range(done)
  /\ Increasing(line)
  /\ Range(line) \cup s.overflowed = 1 .. s.received /\ Range(line) \cap s.overflowed = {}

\* The packets of the task's own that were not used are the last ones.
OwnedLast(s) == s.owned = (L4Burst - s.n_new_mbufs + 1) .. L4Burst

ServerInv ==
  /\ sv \in ServerState /\ Len(sv.fqueue) < QueueSize
  /\ role = "client" => ~ sv.stopped /\ ~ sv.cancelled
  /\ PacketsOwned
  /\ ~ sv.wrong => /\ InLine(sv, Done(sv)) /\ OwnedLast(sv) /\ ResumedByOwner
                   /\ sv.mbuf_saved => sv.cancelled
=============================================================================
