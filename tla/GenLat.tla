------------------------------- MODULE GenLat -------------------------------
(***************************************************************************)
(* Packet ids from the generator to the latency task: handle_gen.c numbers *)
(* the packets it sends and takes the numbers of refused packets back; the *)
(* network loses, reorders and duplicates packets; handle_lat.c counts     *)
(* duplicates, misordered packets and, with early_loss_detect (eld.h), the *)
(* packets lost: a table with one place per packet id modulo its size,     *)
(* which holds the higher bits of the last id at that place.               *)
(***************************************************************************)
EXTENDS Integers, Sequences, FiniteSets, FiniteSetsExt, SequencesExt

CONSTANTS
  QueueSlots,   \* PACKET_QUEUE_SIZE
  QueueIds,     \* QUEUE_ID_SIZE
  GenBurst,     \* packets of one transmission
  GenL3s,       \* whether tx_pkt_l3 sends the packets
  MaxIndex,     \* bound: packets numbered
  MaxWire,      \* bound: packets under way
  MaxLost,      \* bound: packets lost, less than QueueIds at one place
  MaxDup        \* bound: packets duplicated

ASSUME GenLatAssumption ==
  /\ {QueueSlots, QueueIds, GenBurst} \subseteq Nat \ {0}
  /\ GenL3s \subseteq BOOLEAN
  /\ MaxLost \in 0 .. (QueueIds - 1) /\ MaxIndex \in 0 .. QueueSlots * QueueIds

VARIABLES
  gen_l3,           \* the generator is in L3 mode
  pkt_queue_index,  \* the next packet id
  handed,           \* ids of the packets handed to the network
  wire,             \* those under way
  dups,             \* duplicates the network made
  got,              \* ids received
  eld,              \* [entries, last_pkt_idx]
  lat_test,         \* [lost, duplicate, mis_ordered, extent]
  previous_packet,  \* the last id received, 0 at first
  reported          \* the packets lost, with those counted at the stop, or -1

gl_vars == <<gen_l3, pkt_queue_index, handed, wire, dups, got, eld, lat_test,
             previous_packet, reported>>

Slot(id) == id % QueueSlots
Queue(id) == id \div QueueSlots

\* early_loss_detect_reset
NoEntries == [entries |-> [i \in 0 .. (QueueSlots - 1) |-> -1], last_pkt_idx |-> 0]
NoTest == [lost |-> 0, duplicate |-> 0, mis_ordered |-> 0, extent |-> 0]

GlInit ==
  /\ gen_l3 \in GenL3s
  /\ pkt_queue_index = 0 /\ handed = {} /\ wire = <<>> /\ dups = 0 /\ got = {}
  /\ eld = NoEntries /\ lat_test = NoTest /\ previous_packet = 0 /\ reported = -1

-----------------------------------------------------------------------------
(***************************************************************************)
(* The generator and the network.                                          *)
(***************************************************************************)

\* Mutant: the numbers of refused packets are not taken back.
IndexOn(n, ret) == pkt_queue_index + n
Index(n, ret) == pkt_queue_index + n - ret

\* handle_gen_bulk sends n packets, of which tx_pkt says that ret were
\* refused: the last ones, or, in L3 mode, some of those before a packet
\* without MAC address, and others of which it does not say anything.
Ids(n) == [i \in 1 .. n |-> pkt_queue_index + i - 1]
Without(ids, gone) == LET kept == SetToSortSeq(DOMAIN ids \ gone, <) IN [k \in DOMAIN kept |-> ids[kept[k]]]
Accepted(n, ret) ==
  {Ids(n - ret)} \cup
    (IF gen_l3 THEN {Without(Ids(n), gone) : gone \in {g \in SUBSET (1 .. n) : ret <= Cardinality(g)}} ELSE {})
GenSend(n) ==
  /\ reported = -1 /\ pkt_queue_index + n <= MaxIndex
  /\ \E ret \in 0 .. n : \E left \in Accepted(n, ret) :
       /\ Len(wire \o left) <= MaxWire
       /\ wire' = wire \o left /\ handed' = handed \cup ToSet(left)
       /\ pkt_queue_index' = Index(n, ret)
  /\ UNCHANGED <<gen_l3, dups, got, eld, lat_test, previous_packet, reported>>

Lost == handed \ (got \cup ToSet(wire))
WireLoses ==
  /\ wire # <<>> /\ Cardinality(Lost) < MaxLost
  /\ wire' = Tail(wire)
  /\ UNCHANGED <<gen_l3, pkt_queue_index, handed, dups, got, eld, lat_test, previous_packet, reported>>
WireDuplicates ==
  /\ wire # <<>> /\ dups < MaxDup /\ Len(wire) < MaxWire
  /\ dups' = dups + 1 /\ wire' = <<Head(wire)>> \o wire
  /\ UNCHANGED <<gen_l3, pkt_queue_index, handed, got, eld, lat_test, previous_packet, reported>>

-----------------------------------------------------------------------------
(***************************************************************************)
(* The latency task.                                                       *)
(***************************************************************************)

\* Mutant: the packet itself is counted too.
MissedAndIt(new, old) == IF new = old THEN 0 ELSE (new - old) % QueueIds
\* early_loss_detect_add: the ids left out at this place.
Missed(new, old) == IF new = old THEN 0 ELSE (new - old - 1) % QueueIds

\* handle_lat_bulk, for one packet.  Packets are not delayed for longer than
\* it takes to send QueueSlots packets.
Receive_lat(i) ==
  LET id == wire[i]
      old == eld.entries[Slot(id)]
      late == id < previous_packet
  IN /\ reported = -1 /\ \A x \in got : x - id < QueueSlots
     /\ wire' = SubSeq(wire, 1, i - 1) \o SubSeq(wire, i + 1, Len(wire))
     /\ got' = got \cup {id}
     /\ lat_test' = [lost |-> lat_test.lost + Missed(Queue(id), old),
                     duplicate |-> lat_test.duplicate + (IF old = Queue(id) THEN 1 ELSE 0),
                     mis_ordered |-> lat_test.mis_ordered + (IF late THEN 1 ELSE 0),
                     extent |-> lat_test.extent + (IF late THEN previous_packet - id ELSE 0)]
     /\ eld' = [entries |-> [eld.entries EXCEPT ![Slot(id)] = Queue(id)], last_pkt_idx |-> id]
     /\ previous_packet' = id
     /\ UNCHANGED <<gen_l3, pkt_queue_index, handed, dups, reported>>

\* Mutant: packets received out of order are counted as lost.
Remaining_all(q, i, before) == IF before THEN (q - eld.entries[i]) % QueueIds
                                         ELSE (q - eld.entries[i] - 1) % QueueIds
\* early_loss_detect_count_remaining_loss, for one place before or after that
\* of the last packet.
Remaining_loss(q, i, before) ==
  IF before THEN (IF eld.entries[i] = q + 1 THEN 0 ELSE (q - eld.entries[i]) % QueueIds)
            ELSE (IF eld.entries[i] = q THEN 0 ELSE (q - eld.entries[i] - 1) % QueueIds)

\* The places after that of the last packet, all of them if it is the last, and
\* those before it.
Remaining_at(i) ==
  LET last == eld.last_pkt_idx
  IN (IF i >= Slot(last + 1) THEN Remaining_loss(Queue(last), i, FALSE) ELSE 0)
     + (IF i < Slot(last) THEN Remaining_loss(Queue(last), i, TRUE) ELSE 0)
count_remaining_loss ==
  LET n_loss_total[i \in 0 .. QueueSlots] ==
        IF i = 0 THEN 0 ELSE n_loss_total[i - 1] + Remaining_at(i - 1)
  IN n_loss_total[QueueSlots]

\* lat_stop: what remains is counted, and the counter reset.
lat_stop ==
  /\ reported = -1 /\ got # {}
  /\ reported' = lat_test.lost + count_remaining_loss
  /\ lat_test' = [lat_test EXCEPT !.lost = 0]
  /\ eld' = [NoEntries EXCEPT !.last_pkt_idx = eld.last_pkt_idx] /\ previous_packet' = 0
  /\ UNCHANGED <<gen_l3, pkt_queue_index, handed, wire, dups, got>>

\* Both tasks start again, the generator with packet 0.
Restart ==
  /\ reported # -1
  /\ pkt_queue_index' = 0 /\ handed' = {} /\ wire' = <<>> /\ dups' = 0 /\ got' = {}
  /\ reported' = -1 /\ lat_test' = NoTest
  /\ UNCHANGED <<gen_l3, eld, previous_packet>>

GlNext ==
  \/ \E n \in 1 .. GenBurst : GenSend(n)
  \/ WireLoses \/ WireDuplicates
  \/ \E i \in 1 .. Len(wire) : Receive_lat(i)
  \/ lat_stop \/ Restart

GlSpec == GlInit /\ [][GlNext]_gl_vars

-----------------------------------------------------------------------------
(***************************************************************************)
(* Properties.                                                             *)
(***************************************************************************)

NotReceived(id) == id \in handed /\ id \notin got

\* "non-sent packets will not be considered as lost by the receiver"
\* (handle_gen_bulk): what is counted as lost while packets come in is what
\* the network lost or still delays of those at a place where a later one
\* came, without counting anything twice.
CountedLost ==
  ~ gen_l3 /\ reported = -1 =>
    lat_test.lost = Cardinality({id \in handed \ got :
                                   \E x \in got : x > id /\ Slot(x) = Slot(id)})

\* After the stop, all packets missing before the last one received are
\* counted, unless that was one of the last place, whose table is searched
\* twice, or ids are about to wrap.
ReportedLost ==
  LET last == eld.last_pkt_idx IN
  ~ gen_l3 /\ reported # -1 /\ Slot(last) # QueueSlots - 1 /\ Queue(last) # QueueIds - 1 =>
    reported = Cardinality({id \in handed \ got : id < last})

\* Duplicates are counted, except those that come when a later packet has
\* taken their place.
DuplicatesCounted == ~ gen_l3 => lat_test.duplicate <= dups

IdsSound == CountedLost /\ ReportedLost /\ DuplicatesCounted

-----------------------------------------------------------------------------
(***************************************************************************)
(* The inductive invariant, for a generator that is told which packets were*)
(* refused.                                                                *)
(***************************************************************************)

GlTypeOK ==
  /\ pkt_queue_index \in 0 .. MaxIndex /\ handed = 0 .. (pkt_queue_index - 1)
  /\ wire \in Seq(handed) /\ got \in SUBSET handed /\ dups \in Nat
  /\ eld.entries \in [0 .. (QueueSlots - 1) -> -1 .. (QueueIds - 1)] /\ eld.last_pkt_idx \in Nat
  /\ lat_test.lost \in Int /\ lat_test.duplicate \in Nat

\* A place holds the last id received there: a packet is not as late as a later one
\* of its place.
Latest(i) ==
  /\ eld.entries[i] # -1 => \E x \in got : Slot(x) = i /\ Queue(x) = eld.entries[i]
  /\ \A x \in got : Slot(x) = i => Queue(x) <= eld.entries[i]
EntriesInv ==
  IF reported = -1
  THEN /\ \A i \in 0 .. (QueueSlots - 1) : Latest(i)
       /\ got # {} => eld.last_pkt_idx \in got
       /\ \A x \in got : x - eld.last_pkt_idx < QueueSlots
  ELSE \A i \in 0 .. (QueueSlots - 1) : eld.entries[i] = -1
\* A packet is under way once, but for the duplicates that were not counted yet.
DupsInv == Len(wire) + lat_test.duplicate <= dups + Cardinality(ToSet(wire) \ got)
IdsInv == ~ gen_l3 => GlTypeOK /\ EntriesInv /\ DupsInv /\ CountedLost /\ ReportedLost
=============================================================================
