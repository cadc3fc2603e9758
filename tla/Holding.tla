------------------------------- MODULE Holding -------------------------------
(***************************************************************************)
(* The tasks that keep packets between two calls, or hand one packet to    *)
(* many: aggreg (handle_aggregator.c), esp_enc and esp_dec towards their   *)
(* crypto device (handle_esp.c), qos (handle_qos.c), dump (handle_dump.c)  *)
(* and mirror (handle_mirror.c).  ho_mode says which one the task is.      *)
(*                                                                         *)
(* A packet is a number in the order of arrival.  ho_left counts how often *)
(* it was passed on or freed.  The output, the scheduler and the crypto    *)
(* device take as many packets as they have room for: any number.          *)
(***************************************************************************)
EXTENDS Integers, Sequences, SequencesExt, FiniteSets

CONSTANTS HoPackets,   \* bound on the packets that arrive
          HoBurst,     \* MAX_PKT_BURST
          HoLength,    \* BUFFER_LENGTH, which is what a uint8_t can count
          HoOps,       \* crypto operations in the pool
          HoDests,     \* n_dests of mirror
          HoMultiplier \* multiplier of mirror

ASSUME HoAssumption == /\ HoPackets \in Nat /\ HoBurst \in Nat \ {0} /\ HoLength \in Nat \ {0} /\ HoOps \in Nat
                       /\ HoDests \in Nat \ {0} /\ HoMultiplier \in Nat \ {0}

VARIABLES
  ho_mode,
  ho_n,        \* packets that have arrived
  ho_left,     \* how often each of them was sent or freed
  ho_prio,     \* priority[]: the ring of each priority
  ho_wrapped,  \* a full ring was sent at once
  ho_ops,      \* ops_burst[0 .. len): packets that wait to be enqueued
  ho_dev,      \* packets in the crypto device or the scheduler
  ho_count,    \* pkts_in_flight, nb_buffered_pkts
  ho_pool,     \* free crypto operations
  ho_mbufs,    \* mbufs[] of dump
  ho_todo,     \* packets mirror has still to send, one number per time
  ho_refs,     \* refcnt of each packet
  ho_out       \* references the tasks behind mirror hold
ho_agg == <<ho_prio, ho_wrapped>>
ho_esp == <<ho_ops, ho_pool>>
ho_dv == <<ho_dev, ho_count>>
ho_mir == <<ho_todo, ho_refs, ho_out>>
ho_vars == <<ho_mode, ho_n, ho_left, ho_agg, ho_esp, ho_dv, ho_mbufs, ho_mir>>

Priorities == 0 .. 2
Arriving(n) == [k \in 1 .. n |-> ho_n + k]
Count(ps, p) == Cardinality({k \in DOMAIN ps : ps[k] = p})
Leave(left, ps) == [p \in DOMAIN left |-> left[p] + Count(ps, p)]

HoInit ==
  /\ ho_mode \in {"aggreg", "esp", "qos", "dump", "mirror"}
  /\ ho_n = 0 /\ ho_left = [p \in 1 .. HoPackets |-> 0]
  /\ ho_prio = [i \in Priorities |-> [buffer |-> [k \in 0 .. HoLength - 1 |-> 0], pkt_pos |-> 0, pkt_nb |-> 0]]
  /\ ho_wrapped = FALSE
  /\ ho_ops = <<>> /\ ho_dev = {} /\ ho_count = 0 /\ ho_pool = HoOps /\ ho_mbufs = <<>>
  /\ ho_todo = <<>> /\ ho_refs = [p \in 1 .. HoPackets |-> 1] /\ ho_out = [p \in 1 .. HoPackets |-> 0]

----------------------------------------------------------------------------
\* detect_l3_priority: the higher of the eight code points has the higher
\* priority, no code point that of the layer below; the next one after the
\* lowest is OUT_DISCARD.  The code point is below MAX_PRIORITIES + 1.
PriorityOf(dscp, below) == IF dscp = 0 THEN below ELSE Cardinality(Priorities) - dscp - 1
\* handle_aggregator: without an IPv4 header the priority is 0; the VLAN
\* priorities of QinQ are cut off when they are converted, and 0 too.
PacketPriorities == {0} \cup {PriorityOf(d, b) : d \in 0 .. Cardinality(Priorities), b \in {0, Cardinality(Priorities) - 1}}

\* buffer_packet
BufferPacket(r, p) ==
  [buffer |-> [r.buffer EXCEPT ![r.pkt_pos] = p],
   pkt_pos |-> (r.pkt_pos + 1) % HoLength, pkt_nb |-> r.pkt_nb + 1]
Buffer(s, p, i) ==
  IF i = -1 THEN [s EXCEPT !.gone = Append(@, p)]
  ELSE IF s.prio[i].pkt_nb < HoLength THEN [s EXCEPT !.prio[i] = BufferPacket(@, p)]
  ELSE [s EXCEPT !.gone = Append(@, p)]
Buffered(n, is) ==
  LET filled[k \in 0 .. n] ==
        IF k = 0 THEN [prio |-> ho_prio, gone |-> <<>>] ELSE Buffer(filled[k - 1], ho_n + k, is[k])
  IN filled[n]

\* One ring is sent in one call of tx_pkt_try, or in two when it wraps: where
\* the first call starts, and with how many packets.
\* Mutant: sent from the start of the ring, not from the oldest packet.
FirstPart_start(r) ==
  IF r.pkt_pos > r.pkt_nb THEN [at |-> 0, n |-> r.pkt_nb]
  ELSE [at |-> HoLength + r.pkt_pos - r.pkt_nb, n |-> r.pkt_nb - r.pkt_pos]
FirstPart(r) ==
  IF r.pkt_pos > r.pkt_nb THEN [at |-> r.pkt_pos - r.pkt_nb, n |-> r.pkt_nb]
  ELSE [at |-> HoLength + r.pkt_pos - r.pkt_nb, n |-> r.pkt_nb - r.pkt_pos]
TryTx(n, room) == IF n < room THEN n ELSE room
\* n is a uint8_t.
Sent8(k) == k % HoLength
RingPart(r, at, n) == [k \in 1 .. n |-> r.buffer[at + k - 1]]
FirstSent(r, room) == TryTx(FirstPart(r).n, room)
SecondSent(r, room) ==
  IF r.pkt_pos <= r.pkt_nb /\ Sent8(FirstSent(r, room)) = FirstPart(r).n
  THEN TryTx(r.pkt_pos, room - FirstSent(r, room)) ELSE 0
Shorten(s, i, k1, k2) ==
  LET r == s.prio[i]
      n == Sent8(k1 + k2)
  IN [prio |-> [s.prio EXCEPT ![i].pkt_nb = @ - n], room |-> s.room - k1 - k2,
      stop |-> r.pkt_nb > n, wrapped |-> s.wrapped \/ n # k1 + k2,
      gone |-> s.gone \o RingPart(r, FirstPart(r).at, k1) \o RingPart(r, 0, k2)]
SendRing(s, i) ==
  IF s.stop \/ s.prio[i].pkt_nb = 0 THEN s
  ELSE Shorten(s, i, FirstSent(s.prio[i], s.room), SecondSent(s.prio[i], s.room))

\* handle_aggregator_bulk: what does not fit is freed, then the rings are sent in
\* the order of priority until one of them is not emptied.  After a full ring was
\* sent at once the rings hold packets that are gone: the model ends there.
HoAggregate(n) ==
  /\ ho_mode = "aggreg" /\ ~ho_wrapped
  /\ \E is \in [1 .. n -> PacketPriorities] : \E room \in 0 .. 2 * HoLength :
       LET filled == Buffered(n, is)
           start == [prio |-> filled.prio, gone |-> filled.gone, room |-> room, stop |-> FALSE, wrapped |-> ho_wrapped]
           end == SendRing(SendRing(SendRing(start, 0), 1), 2)
       IN ho_prio' = end.prio /\ ho_wrapped' = end.wrapped /\ ho_left' = Leave(ho_left, end.gone)
  /\ UNCHANGED <<ho_esp, ho_dv, ho_mbufs, ho_mir>>

----------------------------------------------------------------------------
\* crypto_send_burst: what the device does not take is discarded.
SendBurst(s, k) ==
  [dev |-> s.dev \cup ToSet(SubSeq(s.ops, 1, k)), ops |-> <<>>,
   gone |-> s.gone \o SubSeq(s.ops, k + 1, Len(s.ops)),
   count |-> s.count + k, pool |-> s.pool + Len(s.ops) - k]
\* A packet the handler takes is prepared; a full burst is enqueued at once.
Prepare(s, p, room) ==
  LET t == [s EXCEPT !.ops = Append(@, p), !.pool = @ - 1]
  IN IF Len(t.ops) = HoBurst THEN SendBurst(t, TryTx(HoBurst, room)) ELSE t

\* A packet without the headers the handler expects is discarded.
EspBase == [dev |-> ho_dev, ops |-> ho_ops, count |-> ho_count, pool |-> ho_pool, gone |-> <<>>]
Prepared(n, bad, room) ==
  LET taken[k \in 0 .. n] ==
        IF k = 0 THEN EspBase
        ELSE IF k \in bad THEN [taken[k - 1] EXCEPT !.gone = Append(@, ho_n + k)]
        ELSE Prepare(taken[k - 1], ho_n + k, room)
  IN taken[n]

\* handle_esp_bulk: all or none of the operations of a burst are allocated; a
\* call without packets enqueues what waits; finished packets are dequeued until
\* there are none.
EspEnd(n, bad, room) ==
  IF n > ho_pool THEN [EspBase EXCEPT !.gone = Arriving(n)]
  ELSE IF n = 0 /\ ho_ops # <<>> THEN SendBurst(EspBase, TryTx(Len(ho_ops), room))
  ELSE Prepared(n, bad, room)
HoEsp(n) ==
  /\ ho_mode = "esp"
  /\ \E room \in 0 .. HoBurst : \E bad \in SUBSET (1 .. n) :
       LET end == EspEnd(n, bad, room)
       IN \E done \in SUBSET end.dev :
            /\ end.count = 0 => done = {}
            /\ ho_dev' = end.dev \ done /\ ho_ops' = end.ops
            /\ ho_count' = end.count - Cardinality(done)
            /\ ho_pool' = end.pool + Cardinality(done)
            /\ ho_left' = Leave(ho_left, end.gone \o SetToSeq(done))
  /\ UNCHANGED <<ho_agg, ho_mbufs, ho_mir>>

\* handle_qos_bulk: the scheduler frees what it has no room for.
HoQos(n) ==
  /\ ho_mode = "qos"
  /\ \E taken \in SUBSET (ho_n + 1 .. ho_n + n) :
       LET dev == ho_dev \cup taken
           count == ho_count + Cardinality(taken)
       IN \E sent \in SUBSET dev :
            /\ Cardinality(sent) <= HoBurst /\ (count = 0 => sent = {})
            /\ ho_dev' = dev \ sent
            /\ ho_count' = count - Cardinality(sent)
            /\ ho_left' = Leave(ho_left, SetToSeq(sent \cup ((ho_n + 1 .. ho_n + n) \ taken)))
  /\ UNCHANGED <<ho_agg, ho_esp, ho_mbufs, ho_mir>>

----------------------------------------------------------------------------
\* handle_dump_bulk, buffer_packets: n_pkts is the room for the file, here twice
\* a burst and one.
DumpSize == 2 * HoBurst + 1
HoDump(n) ==
  /\ ho_mode = "dump"
  /\ LET k == TryTx(n, DumpSize - Len(ho_mbufs)) IN
       /\ ho_mbufs' = ho_mbufs \o SubSeq(Arriving(n), 1, k)
       /\ ho_left' = Leave(ho_left, SubSeq(Arriving(n), k + 1, n))
  /\ UNCHANGED <<ho_agg, ho_esp, ho_dv, ho_mir>>

\* stop: in bursts while there is more than a burst, then the rest.
Flushed(ps) ==
  LET full == (Len(ps) - 1) \div HoBurst
      burst(k) == SubSeq(ps, (k - 1) * HoBurst + 1, k * HoBurst)
  IN FlattenSeq([k \in 1 .. full |-> burst(k)]) \o SubSeq(ps, full * HoBurst + 1, Len(ps))
HoStop ==
  /\ ho_mode = "dump" /\ ho_mbufs # <<>>
  /\ ho_mbufs' = <<>> /\ ho_left' = Leave(ho_left, Flushed(ho_mbufs))
  /\ UNCHANGED <<ho_mode, ho_n, ho_agg, ho_esp, ho_dv, ho_mir>>

----------------------------------------------------------------------------
\* handle_mirror_bulk: the references are made first, then the burst is sent once
\* for every destination and multiple.
\* Mutant: a reference for every destination only.
Copies_dests == HoDests
Copies == HoDests * HoMultiplier
HoMirror(n) ==
  /\ ho_mode = "mirror" /\ ho_todo = <<>> /\ n > 0
  /\ ho_refs' = [p \in DOMAIN ho_refs |-> IF p \in ToSet(Arriving(n)) THEN ho_refs[p] + Copies - 1 ELSE ho_refs[p]]
  /\ ho_todo' = FlattenSeq([c \in 1 .. HoDests * HoMultiplier |-> Arriving(n)])
  /\ UNCHANGED <<ho_left, ho_agg, ho_esp, ho_dv, ho_mbufs, ho_out>>
HoMirrorSend ==
  /\ ho_todo # <<>> /\ ho_todo' = Tail(ho_todo)
  /\ ho_out' = [ho_out EXCEPT ![Head(ho_todo)] = @ + 1]
  /\ UNCHANGED <<ho_mode, ho_n, ho_left, ho_agg, ho_esp, ho_dv, ho_mbufs, ho_refs>>
\* A task behind the mirror, on any core, frees its reference; the last one frees
\* the packet.
HoFree(p) ==
  /\ ho_out[p] > 0 /\ ho_out' = [ho_out EXCEPT ![p] = @ - 1]
  /\ ho_refs' = [ho_refs EXCEPT ![p] = @ - 1]
  /\ ho_left' = IF ho_refs[p] = 1 THEN Leave(ho_left, <<p>>) ELSE ho_left
  /\ UNCHANGED <<ho_mode, ho_n, ho_agg, ho_esp, ho_dv, ho_mbufs, ho_todo>>

HoHandle(n) ==
  /\ ho_n + n <= HoPackets /\ ho_n' = ho_n + n
  /\ HoAggregate(n) \/ HoEsp(n) \/ HoQos(n) \/ HoDump(n) \/ HoMirror(n)
  /\ UNCHANGED ho_mode

HoNext ==
  \/ \E n \in 0 .. HoBurst : HoHandle(n)
  \/ HoStop \/ HoMirrorSend
  \/ \E p \in 1 .. HoPackets : HoFree(p)

HoSpec == HoInit /\ [][HoNext]_ho_vars

----------------------------------------------------------------------------
\* Where a packet is held: what a ring holds lies behind pkt_pos.
Contents(r) == [k \in 1 .. r.pkt_nb |-> r.buffer[(r.pkt_pos - r.pkt_nb + k - 1) % HoLength]]
InRings(p) == Count(Contents(ho_prio[0]), p) + Count(Contents(ho_prio[1]), p) + Count(Contents(ho_prio[2]), p)
HeldTimes(p) == InRings(p) + Count(ho_ops, p) + Cardinality({p} \cap ho_dev) + Count(ho_mbufs, p)

\* A packet is held or has left, never both and never twice, and the counters the
\* handlers go by agree with what the device holds, whatever was refused on the
\* way: but for an aggregator that sent a full ring at once, whose uint8_t says
\* that it sent nothing.
EachLeavesOnce ==
  ho_mode # "mirror" /\ ~ho_wrapped =>
    /\ \A p \in 1 .. ho_n : HeldTimes(p) + ho_left[p] = 1
    /\ ho_count = Cardinality(ho_dev)
    /\ ho_mode = "esp" => ho_pool + Len(ho_ops) + ho_count = HoOps

\* A packet is not freed while mirror has still to send it or a task behind it
\* holds it, however fast the others free theirs, and it is freed in the end.
MirroredAlive ==
  ho_mode = "mirror" =>
    \A p \in 1 .. ho_n :
      ho_left[p] = IF p \in ToSet(ho_todo) \/ ho_out[p] > 0 THEN 0 ELSE 1

HoldingSound == EachLeavesOnce /\ MirroredAlive

----------------------------------------------------------------------------
(* The inductive invariant.                                                  *)
HoIds == 1 .. HoPackets
HoNumbers == 0 .. HoPackets
HoRings ==
  [buffer : [0 .. HoLength - 1 -> HoNumbers], pkt_pos : 0 .. HoLength - 1, pkt_nb : 0 .. HoLength]
HoTypeOK ==
  /\ ho_n \in 0 .. HoPackets /\ ho_left \in [1 .. HoPackets -> Nat]
  /\ ho_prio \in [Priorities -> HoRings]
  /\ ho_ops \in Seq(HoIds)
  /\ ho_dev \in SUBSET HoIds /\ ho_count = Cardinality(ho_dev) /\ ho_pool \in Int
  /\ ho_mbufs \in Seq(HoIds) /\ Len(ho_mbufs) <= DumpSize
  /\ ho_todo \in Seq(HoIds)
  /\ ho_refs \in [1 .. HoPackets -> Nat] /\ ho_out \in [1 .. HoPackets -> Nat]

\* What the modes the task does not have would use is as at the start.
OtherModesIdle ==
  /\ ho_mode \in {"aggreg", "esp", "qos", "dump", "mirror"}
  /\ ho_wrapped \in BOOLEAN /\ (ho_mode # "aggreg" => ~ho_wrapped)
  /\ ho_mode # "mirror" => ho_todo = <<>> /\ \A p \in 1 .. HoPackets : ho_out[p] = 0

\* A packet that has arrived is held or has left, one that has not is nowhere.
Accounted ==
  /\ \A p \in 1 .. HoPackets : HeldTimes(p) + ho_left[p] = IF p <= ho_n THEN 1 ELSE 0
  /\ ho_mode = "esp" => ho_pool + Len(ho_ops) + ho_count = HoOps

\* The references to a packet are those mirror has still to send and those behind it.
Referenced(p) ==
  IF p <= ho_n
  THEN ho_refs[p] = Count(ho_todo, p) + ho_out[p] /\ ho_left[p] = (IF ho_refs[p] = 0 THEN 1 ELSE 0)
  ELSE ho_refs[p] = 1 /\ Count(ho_todo, p) = 0 /\ ho_out[p] = 0 /\ ho_left[p] = 0
AllReferenced == \A p \in 1 .. HoPackets : Referenced(p)

HoldInv ==
  /\ OtherModesIdle
  /\ ~ho_wrapped => HoTypeOK /\ IF ho_mode = "mirror" THEN AllReferenced ELSE Accounted
=============================================================================
