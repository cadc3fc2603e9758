--------------------------------- MODULE Bng ---------------------------------
(***************************************************************************)
(* The border network gateway: a pair of load balancers (handle_lb_qinq.c  *)
(* upstream, handle_lb_net.c downstream) and the workers between them.     *)
(* Upstream, qinqdecapv4 finds the tunnel of a subscriber line, learns the *)
(* equipment (CPE) behind it and puts the packet into the tunnel; down-    *)
(* stream, qinqencapv4 of the same core finds in that table which line and *)
(* MAC address a packet from the tunnel is for.  Entries time out.         *)
(*                                                                         *)
(* What is learned upstream is only of use downstream if both balancers    *)
(* give a tunnel to one worker.  A line is an outer and an inner tag.  The *)
(* balancers' lut and indexed_table modes are left out: flow_iter_next     *)
(* reads iter->data, which nothing sets, and finds no flow.                *)
(***************************************************************************)
EXTENDS Integers, Sequences, SequencesExt, FiniteSets, Functions

CONSTANTS BngTunnels,   \* get_qinq_gre_map: a function from lines to gre_id
          BngUnknown,   \* lines that are not in the map
          BngIps,       \* addresses of CPEs
          BngMacs,      \* their MAC addresses
          BngWorkers,   \* nb_worker_threads
          BngBuckets,   \* n_buckets of cpe_table, a power of two
          BngDepth,     \* entries of a bucket, and what get_bucket_key8 looks at: 4
          BngExtended,  \* buckets by which a full bucket can be extended
          BngTimeout,   \* cpe_timeout
          BngLearns,    \* how CPEs are learned: subset of {"always", "fast path", "control"}
          BngRing,      \* bound on the ARP packets that wait
          BngTime       \* bound on the time

ASSUME BngAssumption ==
  /\ BngWorkers \in Nat \ {0} /\ BngBuckets \in Nat \ {0} /\ BngDepth \in Nat \ {0} /\ BngExtended \in Nat
  /\ BngTimeout \in Nat \ {0} /\ BngTime \in Nat
  /\ BngIps \subseteq Nat /\ BngMacs \subseteq Nat
  /\ IsInjective(BngTunnels) /\ BngUnknown \cap DOMAIN BngTunnels = {}
  /\ \A line \in DOMAIN BngTunnels : BngTunnels[line] \in Nat

VARIABLES
  bng_learn,  \* runtime_flags: TASK_CTRL_HANDLE_ARP, TASK_FP_HANDLE_ARP or neither
  bng_cpe,    \* cpe_table of each worker: the slots of each bucket and its extensions
  bng_index,  \* bucket_index of each worker
  bng_arp,    \* ARP packets in the ring towards arp_update of each worker
  bng_now,    \* the time
  bng_ran,    \* the workers whose period function ran since it changed
  bng_known   \* history: what was last learned for a key, and until when it counts
bng_vars == <<bng_learn, bng_cpe, bng_index, bng_arp, bng_now, bng_ran, bng_known>>

BngThreads == 0 .. BngWorkers - 1
Lines == DOMAIN BngTunnels
Keys == BngIps \X Range(BngTunnels)
Vacant == <<>>

BngInit ==
  /\ bng_learn \in BngLearns
  /\ bng_cpe = [w \in BngThreads |-> [b \in 0 .. BngBuckets - 1 |-> [i \in 1 .. BngDepth |-> Vacant]]]
  /\ bng_index = [w \in BngThreads |-> 0] /\ bng_arp = [w \in BngThreads |-> <<>>]
  /\ bng_now = 1 /\ bng_ran = {} /\ bng_known = <<>>

----------------------------------------------------------------------------
\* worker_from_mask.  Mutant: tunnels are counted from one.
WorkerFromMask_one(val) == (val - 1) % BngWorkers
WorkerFromMask(val) == val % BngWorkers

\* init_qinq_gre_table: the lines whose tunnels the worker has.
LinesOf(w) == {line \in Lines : BngTunnels[line] % BngWorkers = w}
\* init_task_lb_qinq asks the workers for their lines; the table is 0 elsewhere.
WorkerTable(line) == IF line \in Lines THEN CHOOSE w \in BngThreads : line \in LinesOf(w) ELSE 0

\* The hash table of DPDK, with keys of eight bytes: a key is replaced where it
\* is, else added in the first free slot, else in a new extension.
Bucket(key) == (key[1] + key[2]) % BngBuckets
SlotsOf(t, key) == {i \in DOMAIN t[Bucket(key)] : t[Bucket(key)][i] # Vacant /\ t[Bucket(key)][i].key = key}
FindCpe(t, key) == {t[Bucket(key)][i] : i \in SlotsOf(t, key)}
FreeSlots(slots) == {i \in DOMAIN slots : slots[i] = Vacant}
RoomFor(t, key) ==
  SlotsOf(t, key) # {} \/ FreeSlots(t[Bucket(key)]) # {} \/ Len(t[Bucket(key)]) < BngDepth * (1 + BngExtended)
AddCpe(t, e) ==
  LET slots == t[Bucket(e.key)]
      at == IF SlotsOf(t, e.key) # {} THEN SlotsOf(t, e.key) ELSE FreeSlots(slots)
      i == CHOOSE i \in at : \A j \in at : i <= j
  IN [t EXCEPT ![Bucket(e.key)] =
        IF at # {} THEN [slots EXCEPT ![i] = e]
        ELSE slots \o [k \in 1 .. BngDepth |-> IF k = 1 THEN e ELSE Vacant]]
\* An extension that becomes empty is unlinked: what the first k parts leave.
Part(slots, k) == SubSeq(slots, (k - 1) * BngDepth + 1, k * BngDepth)
InUse(part) == \E i \in 1 .. BngDepth : part[i] # Vacant
Unlinked(slots) ==
  LET linked[k \in 0 .. Len(slots) \div BngDepth] ==
        IF k = 0 THEN <<>>
        ELSE IF k = 1 \/ InUse(Part(slots, k)) THEN linked[k - 1] \o Part(slots, k)
        ELSE linked[k - 1]
  IN linked[Len(slots) \div BngDepth]

\* extract_key_data, extract_key_data_arp, add_cpe_entry.
Learn(w, line, ip, mac) ==
  LET key == <<ip, BngTunnels[line]>>
      e == [key |-> key, line |-> line, mac |-> mac, tsc |-> bng_now + BngTimeout]
  IN IF RoomFor(bng_cpe[w], key)
     THEN /\ bng_cpe' = [bng_cpe EXCEPT ![w] = AddCpe(@, e)]
          /\ bng_known' = [k \in DOMAIN bng_known \cup {key} |-> IF k = key THEN e ELSE bng_known[k]]
     ELSE UNCHANGED <<bng_cpe, bng_known>>

\* handle_lb_qinq, then handle_qinq_decap4_bulk or arp_update of the worker.
\* A line the worker does not have is discarded; an ARP packet is only told from
\* the others when a flag says that it is what CPEs are learned from.
BngUpstream(line, ip, mac, arp) ==
  LET w == WorkerTable(line) IN
  /\ CASE arp /\ bng_learn = "control" ->
            /\ Len(bng_arp[w]) < BngRing
            /\ bng_arp' = [bng_arp EXCEPT ![w] = Append(@, [line |-> line, ip |-> ip, mac |-> mac])]
            /\ UNCHANGED <<bng_cpe, bng_known>>
       [] line \in LinesOf(w) /\ (bng_learn = "always" \/ (arp /\ bng_learn = "fast path")) ->
            Learn(w, line, ip, mac) /\ UNCHANGED bng_arp
       [] OTHER -> UNCHANGED <<bng_cpe, bng_known, bng_arp>>
  /\ UNCHANGED <<bng_learn, bng_index, bng_now, bng_ran>>

\* tsc_ctrl hands an ARP packet to arp_update.
BngArpUpdate(w) ==
  /\ bng_arp[w] # <<>> /\ bng_arp' = [bng_arp EXCEPT ![w] = Tail(@)]
  /\ LET p == Head(bng_arp[w]) IN
       IF p.line \in LinesOf(w) THEN Learn(w, p.line, p.ip, p.mac) ELSE UNCHANGED <<bng_cpe, bng_known>>
  /\ UNCHANGED <<bng_learn, bng_index, bng_now, bng_ran>>

\* The command that adds an entry, to every worker it names: str_to_arp_msg
\* takes over four bytes of the MAC address (a negative number), arp_update_from_msg adds it.
BngArpMsg(line, ip, mac) ==
  /\ Learn(WorkerTable(line), line, ip, -mac)
  /\ UNCHANGED <<bng_learn, bng_arp, bng_index, bng_now, bng_ran>>

\* check_expire_cpe, get_bucket_key8: one bucket at a time, and of it the first
\* BngDepth entries.  Mutant: entries that expire later in this round go as well.
Expired_early(e) == e.tsc < bng_now + BngBuckets
Expired(e) == e.tsc < bng_now
Examined(slots) ==
  {i \in DOMAIN slots : slots[i] # Vacant /\ Cardinality({j \in 1 .. i : slots[j] # Vacant}) <= BngDepth}
BngExpire(w) ==
  LET b == bng_index[w]
      slots == bng_cpe[w][b]
  IN /\ w \notin bng_ran /\ bng_ran' = bng_ran \cup {w}
     /\ bng_cpe' = [bng_cpe EXCEPT ![w][b] =
          Unlinked([i \in DOMAIN slots |-> IF i \in Examined(slots) /\ Expired(slots[i]) THEN Vacant ELSE slots[i]])]
     /\ bng_index' = [bng_index EXCEPT ![w] = (@ + 1) % BngBuckets]
     /\ UNCHANGED <<bng_learn, bng_arp, bng_now, bng_known>>

\* Time passes; the period function of every worker runs in between.
BngTick ==
  /\ bng_now < BngTime /\ bng_ran = BngThreads
  /\ bng_now' = bng_now + 1 /\ bng_ran' = {}
  /\ UNCHANGED <<bng_learn, bng_cpe, bng_index, bng_arp, bng_known>>

BngNext ==
  \/ \E line \in Lines \cup BngUnknown, ip \in BngIps, mac \in BngMacs, arp \in BOOLEAN :
       BngUpstream(line, ip, mac, arp)
  \/ \E w \in BngThreads : BngArpUpdate(w) \/ BngExpire(w)
  \/ \E line \in Lines, ip \in BngIps, mac \in BngMacs : BngArpMsg(line, ip, mac)
  \/ BngTick

BngSpec == BngInit /\ [][BngNext]_bng_vars

----------------------------------------------------------------------------
\* handle_lb_net, lb_ip4; handle_qinq_encap4_bulk, restore_cpe: the entry that
\* gives a packet from the tunnel its tags and MAC address, if there is one.
Downstream(key) == FindCpe(bng_cpe[WorkerFromMask(key[2])], key)

\* A CPE that was heard of less than a timeout ago is reached through its tunnel,
\* on the line and at the MAC address it last used; nothing else is reached
\* through it, whichever worker, bucket or extension the entry is in.
LearnedLeadsBack ==
  \A key \in Keys :
    /\ Downstream(key) \subseteq (IF key \in DOMAIN bng_known THEN {bng_known[key]} ELSE {})
    /\ key \in DOMAIN bng_known /\ bng_known[key].tsc >= bng_now => Downstream(key) # {}

\* An entry in the bucket itself goes within one round after its time; one in an
\* extension may stay as long as the entries before it.
StaleGoes ==
  \A w \in BngThreads : \A b \in 0 .. BngBuckets - 1 : \A i \in 1 .. BngDepth :
    bng_cpe[w][b][i] # Vacant => bng_now <= bng_cpe[w][b][i].tsc + BngBuckets

BngSound == LearnedLeadsBack /\ StaleGoes

----------------------------------------------------------------------------
(* The inductive invariant.                                                  *)
Macs == BngMacs \cup {-mac : mac \in BngMacs}
CpeEntries == [key : Keys, line : Lines, mac : Macs, tsc : Nat]
Slots == CpeEntries \cup {Vacant}
ArpPackets == [line : Lines \cup BngUnknown, ip : BngIps, mac : BngMacs]
Buckets == 0 .. BngBuckets - 1

\* The slots of a bucket come in parts of BngDepth, and no two have one key.
WellLinked(slots) ==
  /\ slots \in Seq(Slots) /\ Len(slots) >= BngDepth /\ Len(slots) % BngDepth = 0
  /\ \A i, j \in DOMAIN slots :
       slots[i] # Vacant /\ slots[j] # Vacant /\ slots[i].key = slots[j].key => i = j

BngTypes ==
  /\ bng_learn \in BngLearns /\ bng_now \in Nat \ {0} /\ bng_ran \subseteq BngThreads
  /\ bng_index \in [BngThreads -> Buckets]
  /\ bng_arp \in [BngThreads -> Seq(ArpPackets)]
  /\ bng_cpe \in [BngThreads -> [Buckets -> Seq(Slots)]]
  /\ \A w \in BngThreads, b \in Buckets : WellLinked(bng_cpe[w][b])
  /\ DOMAIN bng_known \subseteq Keys
  /\ \A key \in DOMAIN bng_known : bng_known[key] \in CpeEntries /\ bng_known[key].key = key

\* An entry is where its key says, and what was last learned for the key.
Placed(w, b, e) ==
  /\ b = Bucket(e.key) /\ w = WorkerFromMask(e.key[2])
  /\ e.key \in DOMAIN bng_known /\ e = bng_known[e.key]
EntriesKnown ==
  \A w \in BngThreads, b \in Buckets : \A i \in DOMAIN bng_cpe[w][b] :
    bng_cpe[w][b][i] # Vacant => Placed(w, b, bng_cpe[w][b][i])
KnownEntered ==
  \A key \in DOMAIN bng_known : bng_known[key].tsc >= bng_now => Downstream(key) # {}

\* How many steps of its period function are left until the worker looks at the
\* bucket, and that what the bucket itself holds was not stale the last time.
Until(w, b) == ((b - bng_index[w]) % BngBuckets) + (IF w \in bng_ran THEN 1 ELSE 0)
FreshAtVisit ==
  \A w \in BngThreads, b \in Buckets : \A i \in 1 .. BngDepth :
    bng_cpe[w][b][i] # Vacant => bng_now + Until(w, b) <= bng_cpe[w][b][i].tsc + BngBuckets

BngInv == BngTypes /\ EntriesKnown /\ KnownEntered /\ FreshAtVisit
=============================================================================
