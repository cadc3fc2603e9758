------------------------------ MODULE TxBuffer ------------------------------
(***************************************************************************)
(* Buffering of outgoing packets in the working set of a task (struct      *)
(* ws_mbuf): a task with several outputs, or one that prefers throughput   *)
(* to latency, collects the packets for each output in a ring of           *)
(* 2 * MAX_PKT_BURST places and sends them MAX_PKT_BURST at a time; a      *)
(* timer flushes what waits too long (tx_pkt.c, lconf_flush_all_queues).   *)
(*                                                                         *)
(* The ring of output 0 is also where the task receives: the packets of a  *)
(* burst are written behind its producer index and are then buffered in    *)
(* place.  The task runs in one thread; the steps below are those of its   *)
(* loops.  What the driver refuses is freed or offered again (drop, no     *)
(* drop): either way the packets have been handed over.                    *)
(***************************************************************************)
EXTENDS Integers, Sequences

CONSTANTS
  MAX_PKT_BURST,  \* 64
  IndexRange,     \* 2^16: prod and cons are 16-bit
  nb_txports,     \* outputs of the task
  Packets,
  Marked          \* bound: packets of which at most one is in the task

Outs == 0 .. (nb_txports - 1)
RingSize == 2 * MAX_PKT_BURST
Places == 0 .. (3 * MAX_PKT_BURST - 1)

ASSUME TxBufferAssumption ==
  /\ MAX_PKT_BURST \in Nat \ {0} /\ MAX_PKT_BURST % 2 = 0
  /\ IndexRange \in Nat \ {0} /\ IndexRange % RingSize = 0
  /\ nb_txports \in Nat \ {0}
  /\ "dead" \notin Packets /\ Marked \subseteq Packets

\* A pointer to a packet that was handed over, dropped or copied away.
Dead == "dead"

VARIABLES
  tx_pkt,     \* the task's transmit function
  align,      \* 2 when the task receives from a port, 1 from a ring
  prod, cons, \* ws_mbuf->idx[].prod, .cons
  mbuf,       \* ws_mbuf->mbuf[]
  start, n,   \* the packets received and not yet passed to tx_pkt
  piece,      \* those of the current call that are still to be buffered
  i,          \* the output its second loop has reached
  tx_flush,   \* TBASE_FLAG_TX_FLUSH
  handed      \* what the last step handed to the driver

task == <<tx_pkt, align>>
vars == <<tx_pkt, align, prod, cons, mbuf, start, n, piece, i, tx_flush, handed>>

Nothing == [o \in Outs |-> <<>>]

Init ==
  /\ tx_pkt \in {"tx_pkt_hw", "hw1_thrpt_opt"} /\ align \in {1, 2}
  /\ prod = [o \in Outs |-> 0] /\ cons = [o \in Outs |-> 0]
  /\ mbuf = [o \in Outs |-> [p \in Places |-> Dead]]
  /\ start = 0 /\ n = 0 /\ piece = 0 /\ i = nb_txports
  /\ tx_flush = FALSE /\ handed = Nothing

\* Mutant: a mask for one burst instead of two.
OneBurstSlot(index) == index % MAX_PKT_BURST
Slot(index) == index % RingSize
Waiting(o) == (prod[o] - cons[o]) % IndexRange

\* Between two calls of the transmit function; between two bulks.
Between == piece = 0 /\ i = nb_txports
Idle == Between /\ n = 0

\* The packets of a contiguous part of the ring of o.
Part(o, from, count) == [k \in 1 .. count |-> mbuf[o][from + k - 1]]
Kill(m, from, count) ==
  [p \in Places |-> IF p \in from .. (from + count - 1) THEN Dead ELSE m[p]]

Buffered(o) == Part(o, Slot(cons[o]), Waiting(o))

-----------------------------------------------------------------------------
\* Mutant: RTE_ALIGN_FLOOR instead of RTE_ALIGN_CEIL.
AlignedDown == Slot(IF align = 2 /\ prod[0] % 2 = 1 THEN prod[0] - 1 ELSE prod[0])

\* rx_pkt_hw_param, rx_pkt_hw1_param: from the next even index on; rx_pkt_sw
\* and rx_pkt_self: from the producer index on.
RxStart == Slot(IF align = 2 /\ prod[0] % 2 = 1 THEN prod[0] + 1 ELSE prod[0])

Bursts == UNION {[1 .. m -> Packets] : m \in 1 .. MAX_PKT_BURST}
AtMostOne(burst) ==
  \A k \in DOMAIN burst : burst[k] \in Marked =>
    /\ \A o \in Outs : \A p \in Places : mbuf[o][p] \notin Marked
    /\ \A j \in DOMAIN burst \ {k} : burst[j] \notin Marked

rx_pkt ==
  /\ Idle
  /\ \E burst \in Bursts :
       /\ AtMostOne(burst)
       /\ n' = Len(burst)
       /\ start' = RxStart
       /\ mbuf' = [mbuf EXCEPT ![0] =
            [p \in Places |->
               IF p \in RxStart .. (RxStart + Len(burst) - 1)
               THEN burst[p - RxStart + 1] ELSE @[p]]]
  /\ handed' = Nothing
  /\ UNCHANGED <<task, prod, cons, piece, i, tx_flush>>

\* A call of tx_pkt: for the whole burst or, from tx_pkt_l3, for a piece.
call(k) ==
  /\ Between /\ k \in 1 .. n
  /\ tx_pkt = "hw1_thrpt_opt" => k # MAX_PKT_BURST
  /\ piece' = k /\ i' = 0 /\ handed' = Nothing
  /\ UNCHANGED <<task, prod, cons, mbuf, start, n, tx_flush>>

\* An index after one more packet: uint16_t.
Inc(index) == (index + 1) % IndexRange

Taken == start' = start + 1 /\ n' = n - 1 /\ piece' = piece - 1

buf_pkt_single(o) ==
  /\ piece > 0
  /\ tx_pkt = "hw1_thrpt_opt" => o = 0
  /\ mbuf' = LET taken == [mbuf EXCEPT ![0][start] = Dead]
             IN  [taken EXCEPT ![o][Slot(prod[o])] = mbuf[0][start]]
  /\ prod' = [prod EXCEPT ![o] = Inc(@)]
  /\ Taken /\ handed' = Nothing
  /\ UNCHANGED <<task, cons, i, tx_flush>>

discard ==
  /\ piece > 0 /\ tx_pkt # "hw1_thrpt_opt"
  /\ mbuf' = [mbuf EXCEPT ![0][start] = Dead]
  /\ Taken /\ handed' = Nothing
  /\ UNCHANGED <<task, prod, cons, i, tx_flush>>

\* A burst that leaves shows that the outputs are busy.  Mutant: any call
\* does.
NotMarked(o) == FALSE
StillMarked(o) == tx_flush /\ Waiting(o) < MAX_PKT_BURST

\* The second loop of tx_pkt_hw and its variants, one output.
send ==
  /\ piece = 0 /\ i < nb_txports
  /\ tx_flush' = StillMarked(i)
  /\ IF Waiting(i) >= MAX_PKT_BURST
     THEN /\ cons' = [cons EXCEPT ![i] = (@ + MAX_PKT_BURST) % IndexRange]
          /\ handed' = [Nothing EXCEPT ![i] = Part(i, Slot(cons[i]), MAX_PKT_BURST)]
          /\ mbuf' = [mbuf EXCEPT ![i] = Kill(@, Slot(cons[i]), MAX_PKT_BURST)]
     ELSE handed' = Nothing /\ UNCHANGED <<cons, mbuf>>
  /\ i' = i + 1
  /\ UNCHANGED <<task, prod, start, n, piece>>

\* tx_pkt_never_discard_hw1_thrpt_opt with a full burst: what was queued is
\* sent first, then the burst from where it was received.
thrpt_opt ==
  /\ tx_pkt = "hw1_thrpt_opt" /\ Between /\ n = MAX_PKT_BURST
  /\ handed' = [Nothing EXCEPT ![0] = Buffered(0) \o Part(0, start, n)]
  /\ mbuf' = [mbuf EXCEPT ![0] =
       Kill(Kill(@, Slot(cons[0]), Waiting(0)), start, n)]
  /\ IF Waiting(0) > 0
     THEN /\ tx_flush' = FALSE
          /\ prod' = [prod EXCEPT ![0] = 0] /\ cons' = [cons EXCEPT ![0] = 0]
     ELSE UNCHANGED <<tx_flush, prod, cons>>
  /\ n' = 0
  /\ UNCHANGED <<task, start, piece, i>>

\* lconf_flush_all_queues, called by the drain timer and after a START or a
\* STOP: the first call marks the task, the next one flushes (flush_queues_hw
\* and its variants), unless a burst was sent in between.
Flushed(o) == prod[o] # cons[o]
Emptied(index) == [o \in Outs |-> IF Flushed(o) THEN 0 ELSE index[o]]

lconf_flush_all_queues ==
  /\ Idle
  /\ tx_flush' = ~ tx_flush
  /\ IF tx_flush
     THEN /\ prod' = Emptied(prod) /\ cons' = Emptied(cons)
          /\ handed' = [o \in Outs |-> IF Flushed(o) THEN Buffered(o) ELSE <<>>]
          /\ mbuf' = [o \in Outs |->
               IF Flushed(o) THEN Kill(mbuf[o], Slot(cons[o]), Waiting(o)) ELSE mbuf[o]]
     ELSE handed' = Nothing /\ UNCHANGED <<prod, cons, mbuf>>
  /\ UNCHANGED <<task, start, n, piece, i>>

tx_steps == \/ \E k \in 1 .. MAX_PKT_BURST : call(k)
            \/ \E o \in Outs : buf_pkt_single(o)
            \/ discard \/ send \/ thrpt_opt

Next == rx_pkt \/ tx_steps \/ lconf_flush_all_queues

Spec == Init /\ [][Next]_vars

\* The task is run to the end of its bulk, and the drain timer is served
\* between two bulks, whether packets arrive or not.
FairSpec == Spec /\ WF_vars(tx_steps) /\ SF_vars(lconf_flush_all_queues)

-----------------------------------------------------------------------------
(***************************************************************************)
(* Properties.                                                             *)
(***************************************************************************)

\* Types of all variables.
TypeOK ==
  /\ prod \in [Outs -> 0 .. (IndexRange - 1)] /\ cons \in [Outs -> 0 .. (IndexRange - 1)]
  /\ mbuf \in [Outs -> [Places -> Packets \cup {Dead}]]
  /\ start \in Nat /\ n \in 0 .. MAX_PKT_BURST /\ piece \in 0 .. n
  /\ i \in 0 .. nb_txports
  /\ tx_flush \in BOOLEAN

\* What the buffering rests on: consumption is by whole bursts, so that a
\* burst never wraps (the driver is given a plain array); less than a burst
\* waits between two calls and never more than the ring holds; and the area
\* a full receive burst may take holds no packet that waits to be sent.
WaitingAt(o) == {Slot(cons[o] + k) : k \in 0 .. (Waiting(o) - 1)}
RingSafe ==
  /\ \A o \in Outs :
       /\ cons[o] % MAX_PKT_BURST = 0
       /\ Waiting(o) < RingSize
       /\ Between => Waiting(o) < MAX_PKT_BURST
  /\ Idle => WaitingAt(0) \cap (RxStart .. (RxStart + MAX_PKT_BURST - 1)) = {}

\* A waiting packet does not wait for ever unless bursts keep being sent
\* ("only run on low load (when no bulk was sent within last drain_timeout)",
\* lconf.h).
BulkSent == \E o \in Outs : Len(handed[o]) >= MAX_PKT_BURST
DrainedOrBusy == (\A o \in Outs : []<>(Waiting(o) = 0)) \/ []<>BulkSent

-----------------------------------------------------------------------------
(***************************************************************************)
(* The inductive invariant from which RingSafe is proved in                *)
(* TxBuffer_proofs: what waits and what the call has still to buffer fit   *)
(* in the ring, and each output the second loop has passed has less than a *)
(* burst left.                                                             *)
(***************************************************************************)
CallProgress == /\ piece > 0 => i = 0
                /\ start + n < 3 * MAX_PKT_BURST
WholeBursts == \A o \in Outs : cons[o] % MAX_PKT_BURST = 0
RoomLeft == \A o \in Outs : /\ Waiting(o) + piece < RingSize
                            /\ o < i => Waiting(o) < MAX_PKT_BURST
IInv == TypeOK /\ CallProgress /\ WholeBursts /\ RoomLeft

\* The burst stays ahead of what waits in the ring of output 0: behind the
\* place where the next packet is put, also where that is counted without the
\* wrap, or, received at the start of the ring while packets wait in its second
\* half, before the first of these.
WaitEnd == Slot(cons[0]) + Waiting(0)
BurstAhead ==
  n > 0 => \/ start >= WaitEnd
           \/ start + n <= Slot(cons[0]) /\ start >= WaitEnd - RingSize

-----------------------------------------------------------------------------
(***************************************************************************)
(* Refinement of TxQueues: the queue of an output is the part of its ring  *)
(* between cons and prod.                                                  *)
(***************************************************************************)
Queues == [o \in Outs |->
  [k \in 1 .. Waiting(o) |-> mbuf[o][Slot(cons[o] + k - 1)]]]

Abstract == INSTANCE TxQueues
  WITH burst <- Part(0, start, n), queue <- Queues

\* Buffering in place, the wrap of the ring and of its indices, and flushing
\* neither lose, repeat, misdirect nor reorder a packet.
ImplementsTxQueues == Abstract!Spec

=============================================================================
