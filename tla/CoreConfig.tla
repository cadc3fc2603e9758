----------------------------- MODULE CoreConfig -----------------------------
(***************************************************************************)
(* The [core] sections of the configuration file: get_core_cfg of          *)
(* prox_args.c turns one line after the other into fields of the task that *)
(* the last "task" line named, and prox_read_config_file and               *)
(* prox_setup_rte then check the whole and resolve what had to wait for    *)
(* the devices.  A line is a record [core, opt, val]: the text of a value  *)
(* is what the functions of parse_utils.c make of it (module Texts).       *)
(* The lines a file may hold come in themes, so that those whose order     *)
(* matters meet; cc_seen keeps the lines read so far.                      *)
(***************************************************************************)
EXTENDS Integers, Sequences, FiniteSets, SequencesExt, FiniteSetsExt

CONSTANTS CcCores,     \* core numbers that have a [core] section
          CcTasks,     \* MAX_TASKS_PER_CORE
          CcThemes,    \* theme -> set of lines
          CcMaxLines,  \* bound on the lines of a file
          CcPortId,    \* port name -> number, of the [port] sections
          CcDevices,   \* port name -> number, of the devices found later
          CcInits,     \* the registered <<mode, sub mode>> pairs
          CcRouting,   \* modes with TASK_FEATURE_ROUTING
          CcClassify,  \* modes with TASK_FEATURE_CLASSIFY
          CcSetMax,    \* places of a core_task_set and MAX_WT_PER_LB
          CcPlaces,    \* places of rand_str, range and dpi_engine_args
          CcImix,      \* MAX_IMIX_PKTS
          CcBits,      \* bits of a word of the core mask
          CcDim,       \* words of the core mask, PROX_CM_DIM
          Bad,         \* a value its parser refuses
          Nowhere,     \* no mode, no colour
          Discard      \* OUT_DISCARD

ASSUME CcAssumption ==
  /\ CcTasks \in Nat \ {0} /\ CcSetMax \in Nat \ {0} /\ CcPlaces \in Nat
  /\ CcBits \in Nat \ {0} /\ CcDim \in Nat \ {0}
  /\ CcCores \subseteq 0 .. CcBits * CcDim - 1

VARIABLES cc_phase,     \* "reading", "accepted", "ready", "refused", "crashed", "overrun"
          cc_theme, cc_seen, cc_secondary,
          cc_core,      \* per core: n_tasks_all and active_task
          cc_targ,      \* per core and task: task_args
          cc_glob,      \* prox_cfg: master, flags, core mask
          cc_deferred   \* deferred_port

cc_vars == <<cc_phase, cc_theme, cc_seen, cc_secondary, cc_core, cc_targ, cc_glob, cc_deferred>>

Protos == {"ipv4", "arp", "ipv6"}

\* set_task_defaults
Targ0 ==
  [mode |-> Nowhere, init |-> Nowhere, sub |-> "", flags |-> {"drop", "qinq"},
   runtime |-> {"tx crc"}, rx |-> <<Discard>>, nb_rxports |-> 0, tx |-> <<Discard>>,
   nb_txports |-> 0, mapping |-> [p \in Range(CcPortId) |-> p],
   sets |-> [p \in Protos |-> <<>>], nb_txrings |-> 0, nb_workers |-> 0,
   macs |-> {}, delay |-> 0, gateway |-> 0, local |-> 0, prefix |-> 0,
   count |-> [o \in {"random", "range", "dpi engine arg"} |-> 0],
   imix |-> <<>>, plain |-> <<>>]

CcInit ==
  /\ cc_phase = "reading" /\ cc_theme \in DOMAIN CcThemes /\ cc_seen = <<>>
  /\ cc_secondary \in BOOLEAN
  /\ cc_core = [c \in CcCores |-> [n |-> 0, active |-> 0]]
  /\ cc_targ = [c \in CcCores |-> [t \in 0 .. CcTasks - 1 |-> Targ0]]
  /\ cc_glob = [master |-> CcBits * CcDim, flags |-> {"wait on quit"}, mask |-> {}]
  /\ cc_deferred = <<>>

-----------------------------------------------------------------------------
(* What a line can come to.                                                *)

Targ(l) == cc_targ[l.core][cc_core[l.core].active]

Stop(how) == cc_phase' = how /\ UNCHANGED <<cc_core, cc_targ, cc_glob, cc_deferred>>
CoreRefused == Stop("refused")

Become(l, r) ==
  cc_targ' = [cc_targ EXCEPT ![l.core][cc_core[l.core].active] = r]

Store(l, r) == Become(l, r) /\ UNCHANGED <<cc_phase, cc_core, cc_glob, cc_deferred>>

StoreIf(ok, l, r) == IF ok THEN Store(l, r) ELSE CoreRefused

Announce(l, r, f) ==
  /\ Become(l, r) /\ cc_glob' = [cc_glob EXCEPT !.flags = @ \cup {f}]
  /\ UNCHANGED <<cc_phase, cc_core, cc_deferred>>

Set(s, o, on) == IF on = "yes" THEN s \cup {o} ELSE s \ {o}

\* A list of port names: every name must be that of a [port] section
KnownPorts(names) == \A i \in DOMAIN names : names[i] \in DOMAIN CcPortId
PortIds(names) == [i \in DOMAIN names |-> CcPortId[names[i]]]

\* The first places of an array are written, those behind keep their value
Overlay(a, s) == [i \in 1 .. Max({Len(a), Len(s)}) |-> IF i <= Len(s) THEN s[i] ELSE a[i]]

\* core_task_set_add gives no error to parse_task_set: what does not fit is left out
Cut(list) == SubSeq(list, 1, Min({Len(list), CcSetMax}))

-----------------------------------------------------------------------------
(* Tasks and modes.                                                        *)

task(l) ==
  /\ l.opt = "task"
  /\ IF l.val >= CcTasks \/ l.val # cc_core[l.core].n THEN CoreRefused
     ELSE /\ cc_core' = [cc_core EXCEPT ![l.core] = [n |-> l.val + 1, active |-> l.val]]
          /\ UNCHANGED <<cc_phase, cc_targ, cc_glob, cc_deferred>>

to_task_init(m, s) == IF <<m, s>> \in CcInits THEN [mode |-> m, sub |-> s] ELSE Nowhere

mode(l) ==
  /\ l.opt = "mode"
  /\ LET init == to_task_init(l.val, "")
         r == [Targ(l) EXCEPT !.mode = l.val, !.init = init]
         core == cc_core[l.core]
     IN  CASE l.val = "master" /\ (core.n > 1 \/ core.active # 0) -> CoreRefused
           [] l.val = "master" /\ ~(core.n > 1 \/ core.active # 0) ->
                /\ Become(l, r)
                /\ cc_core' = [cc_core EXCEPT ![l.core] = [n |-> 1, active |-> 0]]
                /\ cc_glob' = [cc_glob EXCEPT !.master = l.core]
                /\ UNCHANGED <<cc_phase, cc_deferred>>
           [] l.val # "master" -> StoreIf(init # Nowhere, l, r)

\* l3 and ndp are sub modes of every mode; the pointer to the mode is not checked
sub_mode(l) ==
  /\ l.opt = "sub mode"
  /\ IF Targ(l).init = Nowhere THEN Stop("crashed")
     ELSE LET m == Targ(l).init.mode
              own == to_task_init(m, l.val)
              init == IF own = Nowhere /\ l.val \in {"l3", "ndp"} THEN to_task_init(m, "") ELSE own
              r == [Targ(l) EXCEPT !.init = init, !.sub = l.val]
          IN  CASE init = Nowhere -> CoreRefused
                [] init # Nowhere /\ l.val \in {"l3", "ndp"} ->
                     Announce(l, [r EXCEPT !.flags = @ \cup {l.val}], l.val)
                [] OTHER -> Store(l, r)

\* An IPv6 address of its own, or being a router, turns neighbour discovery on
ndp_by_address(l) ==
  /\ l.opt \in {"ipv6 router", "global ipv6", "local ipv6"}
  /\ LET r == [Targ(l) EXCEPT !.flags = @ \cup {"ndp"}, !.sub = "ndp"]
     IN  CASE l.val = Bad /\ l.opt # "ipv6 router" -> CoreRefused
           [] l.opt = "ipv6 router" /\ l.val # "yes" -> Store(l, Targ(l))
           [] OTHER -> Announce(l, r, "ndp")

-----------------------------------------------------------------------------
(* Ports.                                                                  *)

\* The name of a device of another process is looked up when the devices are known
Later(l, rx) ==
  IF cc_secondary /\ Len(cc_deferred) < Cardinality(DOMAIN CcPortId \cup DOMAIN CcDevices)
  THEN /\ cc_deferred' = Append(cc_deferred, [core |-> l.core, task |-> cc_core[l.core].active,
                                              name |-> l.val[1], rx |-> rx])
       /\ UNCHANGED <<cc_phase, cc_core, cc_targ, cc_glob>>
  ELSE CoreRefused

tx_port(l) ==
  /\ l.opt = "tx port"
  /\ CASE Targ(l).nb_txports > 0 -> CoreRefused
       [] Targ(l).nb_txports = 0 /\ ~KnownPorts(l.val) -> Later(l, FALSE)
       [] OTHER -> Store(l, [Targ(l) EXCEPT !.tx = Overlay(@, PortIds(l.val)),
                                            !.nb_txports = Len(l.val),
                                            !.nb_workers = IF Len(l.val) > 1 THEN Len(l.val) ELSE @])

rx_port(l) ==
  /\ l.opt = "rx port"
  /\ CASE "rx ring" \in Targ(l).flags -> CoreRefused
       [] "rx ring" \notin Targ(l).flags /\ ~KnownPorts(l.val) -> Later(l, TRUE)
       [] OTHER -> Store(l, [Targ(l) EXCEPT !.rx = Overlay(@, PortIds(l.val)),
                                            !.nb_rxports = @ + Len(l.val)])

\* Mutant: rings are accepted beside a port.
rx_ring_anyhow(l) ==
  /\ l.opt = "rx ring"
  /\ StoreIf(l.val \in {"yes", "no"}, l, [Targ(l) EXCEPT !.flags = Set(@, "rx ring", l.val)])
rx_ring(l) ==
  /\ l.opt = "rx ring"
  /\ StoreIf(l.val \in {"yes", "no"} /\ ~(l.val = "yes" /\ Targ(l).rx[1] # Discard),
             l, [Targ(l) EXCEPT !.flags = Set(@, "rx ring", l.val)])

tx_ports_from_routing_table(l) ==
  /\ l.opt = "tx ports from routing table"
  /\ IF Targ(l).init = Nowhere THEN Stop("crashed")
     ELSE StoreIf(Targ(l).init.mode \in CcRouting /\ KnownPorts(l.val), l,
                  [Targ(l) EXCEPT !.tx = IF KnownPorts(l.val) THEN Overlay(@, PortIds(l.val)) ELSE @,
                                  !.nb_txports = @ + Len(l.val),
                                  !.runtime = @ \cup {"routing"}])

\* parse_remap: groups of port names; it returns -1 at a name that is not known,
\* and the ports before that name are mapped by then
RemapKnown(remap) == \A i \in DOMAIN remap : \A p \in remap[i] : p \in DOMAIN CcPortId
parse_remap(mapping, remap) ==
  LET stop == IF RemapKnown(remap) THEN Len(remap) + 1
              ELSE Min({i \in DOMAIN remap : \E p \in remap[i] : p \notin DOMAIN CcPortId})
      groups(p) == {i \in 1 .. stop - 1 : \E n \in remap[i] : CcPortId[n] = p}
  IN  [p \in DOMAIN mapping |-> IF groups(p) = {} THEN mapping[p] ELSE Max(groups(p))]

\* -1 also stands for "no remap="
tx_ports_from_cpe_table(l) ==
  /\ l.opt = "tx ports from cpe table"
  /\ LET given == l.remap # <<>> /\ RemapKnown(l.remap)
         after == parse_remap(Targ(l).mapping, l.remap)
         ids == PortIds(l.val)
         own(p) == {i \in DOMAIN ids : ids[i] = p}
     IN  IF ~KnownPorts(l.val) \/ (given /\ Len(l.val) # Len(l.remap)) THEN CoreRefused
         ELSE Store(l, [Targ(l) EXCEPT
                !.tx = Overlay(@, ids), !.nb_txports = Len(l.val),
                !.mapping = [p \in DOMAIN @ |-> IF ~given /\ own(p) # {} THEN Max(own(p)) ELSE after[p]]])

-----------------------------------------------------------------------------
(* Receiving cores.                                                        *)

tx_cores_from_routing_table(l) ==
  /\ l.opt = "tx cores from routing table"
  /\ IF Targ(l).init = Nowhere THEN Stop("crashed")
     ELSE StoreIf(Targ(l).init.mode \in CcRouting, l,
                  [Targ(l) EXCEPT !.sets["ipv4"] = Cut(l.val), !.nb_workers = Len(Cut(l.val)),
                                  !.nb_txrings = Len(Cut(l.val)), !.runtime = @ \cup {"routing"}])

tx_cores_from_cpe_table(l) ==
  /\ l.opt = "tx cores from cpe table"
  /\ StoreIf(l.remap # <<>> /\ RemapKnown(l.remap) /\ Len(l.remap) = Len(Cut(l.val)), l,
             [Targ(l) EXCEPT !.sets["ipv4"] = Cut(l.val), !.nb_txrings = Len(Cut(l.val)),
                             !.mapping = parse_remap(@, l.remap)])

\* The number after task= is checked and then used for nothing
tx_cores(l) ==
  /\ l.opt = "tx cores"
  /\ StoreIf(l.suffix < CcTasks, l,
             [Targ(l) EXCEPT !.sets[l.proto] = Cut(l.val), !.nb_workers = Len(Cut(l.val)),
                             !.nb_txrings = @ + Len(Cut(l.val))])

-----------------------------------------------------------------------------
(* Addresses.                                                              *)

gateway_ipv4(l) ==
  /\ l.opt = "gateway ipv4"
  /\ StoreIf(l.val # Bad, l, [Targ(l) EXCEPT !.gateway = l.val, !.prefix = IF Targ(l).local # 0 THEN 32 ELSE @])

\* A prefix that is too long is not refused: the address is read again without it
local_ipv4(l) ==
  /\ l.opt = "local ipv4"
  /\ StoreIf(l.val # Bad, l,
             [Targ(l) EXCEPT !.local = l.val,
                !.prefix = IF l.prefix \in 0 .. 32 THEN l.prefix ELSE IF Targ(l).gateway # 0 THEN 32 ELSE 0])

\* "no", "packet" (and "hw" for the source), or an address
mac_line(l) ==
  /\ l.opt \in {"dst mac", "src mac"}
  /\ StoreIf(l.val # Bad /\ ~(l.opt = "dst mac" /\ l.val = "hw"), l,
             [Targ(l) EXCEPT !.macs = IF l.val = "packet" THEN @ ELSE @ \cup {<<l.opt, l.val>>}])

-----------------------------------------------------------------------------
(* Lines that count, or that come in a list.                               *)

delay(l) ==
  /\ l.opt \in {"delay ms", "delay us"}
  /\ StoreIf(Targ(l).delay = 0 /\ l.val # Bad, l,
             [Targ(l) EXCEPT !.delay = IF l.opt = "delay ms" THEN l.val * 1000 ELSE l.val])

\* The place is taken before anything is known of it
counted(l) ==
  /\ l.opt \in {"random", "range", "dpi engine arg"}
  /\ IF Targ(l).count[l.opt] >= CcPlaces THEN Stop("overrun")
     ELSE StoreIf(l.val # Bad, l, [Targ(l) EXCEPT !.count[l.opt] = @ + 1])

offset_line(l) ==
  /\ l.opt \in {"range_offset", "rand_offset"}
  /\ LET of == IF l.opt = "range_offset" THEN "range" ELSE "random"
     IN  StoreIf(Targ(l).count[of] > 0 /\ l.val # Bad, l,
                 [Targ(l) EXCEPT !.plain = (<<l.opt, Targ(l).count[of]>> :> l.val) @@ @])

\* Sizes up to the first that is no number; one more than there are places is an error
imix(l) ==
  /\ l.opt = "imix"
  /\ LET wrong == {i \in DOMAIN l.val : l.val[i] = Bad}
         good == IF wrong = {} THEN Len(l.val) ELSE Min(wrong) - 1
     IN  StoreIf(~(good >= CcImix /\ Len(l.val) > CcImix), l,
                 [Targ(l) EXCEPT !.imix = SubSeq(l.val, 1, Min({good, CcImix}))])

police_action(l) ==
  /\ l.opt = "police action"
  /\ CASE l.out = Nowhere -> Stop("crashed")
       [] l.out # Nowhere /\ Bad \in {l.in, l.out, l.val} -> CoreRefused
       [] l.out # Nowhere /\ Bad \notin {l.in, l.out, l.val} /\ "drop" \in {l.in, l.out} -> Stop("overrun")
       [] OTHER -> Store(l, [Targ(l) EXCEPT !.plain = (<<l.opt, l.in, l.out>> :> l.val) @@ @])

-----------------------------------------------------------------------------
(* Lines that set one field.                                               *)

\* One number; these are the options whose order with others does not matter
LatencyOptions == {"accuracy limit nsec", "latency bucket size", "latency buffer size", "loss buffer size",
                   "accuracy pos", "signature", "signature pos", "lat pos", "packet id pos", "flow id pos",
                   "packet id in flow pos", "flow count"}
LoadOptions == {"concur conn", "max setup rate", "pkt size", "min bulk size", "max bulk size"}
TableOptions == {"users", "mark green", "mark yellow", "mark red"}
SizeOptions == {"ring size", "mempool size", "mbuf size", "memcache size", "byte offset"}
TimeoutOptions == {"random delay us", "cpe table timeout ms"}
ArpOptions == {"arp timeout", "arp update time", "number of packets", "store size"}
SubportOptions == {"queue size", "subport tb rate", "subport tb size", "subport tc rate",
                   "subport tc period", "subport tc 0 rate", "subport tc 1 rate", "subport tc 2 rate", "subport tc 3 rate"}
PipeOptions == {"pipe tb rate", "pipe tb size", "pipe tc rate", "pipe tc period",
                "pipe tc 0 rate", "pipe tc 1 rate", "pipe tc 2 rate", "pipe tc 3 rate"}
MeterOptions == {"qinq tag", "cir", "cbs", "pir", "pbs", "ebs"}
FlowOptions == {"flow table size", "max rules", "tunnel hop limit", "lookup port mask"}
AddressOptions == {"igmp ipv4", "remote ipv4", "gateway ipv6", "router prefix"}
LcoreOptions == {"name", "cache set", "ether type"}
EngineOptions == {"bps", "mempool name", "dpi engine", "pcap file"}
StringOptions == {"nat table", "rules", "route table", "dscp", "tun_bindings", "cpe table", "user table", "streams"}

Classes(who) == {<<who, n>> : n \in 0 .. 3}

\* The fields a line of these writes: some options are two names of one field, and
\* the rate of all traffic classes writes that of each
Fields(o) ==
  CASE o \in {"private", "use src ip"} -> {<<"use_src">>}
    [] o \in {"untag mpls", "add mpls"} -> {<<"mpls tagging">>}
    [] o \in {"probability", "proba no drop"} -> {<<"probability_no_drop">>}
    [] o \in {"pkt size", "pkt inline"} -> {<<"pkt_size">>}
    [] o = "subport tc rate" -> Classes("subport")
    [] o = "pipe tc rate" -> Classes("pipe")
    [] o = "subport tc 1 rate" -> {<<"subport", 1>>}
    [] o = "pipe tc 1 rate" -> {<<"pipe", 1>>}
    [] OTHER -> {<<o>>}

Write(l) == [f \in Fields(l.opt) |-> l.val] @@ Targ(l).plain

Plain ==
  LatencyOptions \cup LoadOptions \cup TableOptions \cup SizeOptions \cup TimeoutOptions \cup ArpOptions
    \cup SubportOptions \cup PipeOptions \cup MeterOptions \cup FlowOptions \cup StringOptions
    \cup AddressOptions \cup LcoreOptions \cup EngineOptions

plain_line(l) ==
  /\ l.opt \in Plain
  /\ StoreIf(l.val # Bad, l, [Targ(l) EXCEPT !.plain = Write(l)])

\* parse_flag and parse_bool
ArpFlags == {"handle arp", "fast path handle arp", "do not forward geneve"}
NatFlags == {"private", "use src ip"}
TaskFlags == {"drop", "qinq", "Unsollicited NA", "local lpm", "loop"}
MplsFlags == {"untag mpls", "add mpls"}
flag_line(l) ==
  /\ l.opt \in ArpFlags \cup NatFlags \cup TaskFlags \cup MplsFlags \cup {"keep src mac", "mark", "tx crc"}
  /\ StoreIf(l.val \in {"yes", "no"}, l,
             IF l.opt = "drop" THEN [Targ(l) EXCEPT !.flags = Set(@, "drop", l.val)]
             ELSE [Targ(l) EXCEPT !.plain = Write(l)])

\* Percentages above 0; the frequency and the number of pipes are checked as well
Percentages == {"probability", "proba no drop"}
checked_line(l) ==
  /\ l.opt \in Percentages \cup {"ctrl path polling frequency", "pipes"}
  /\ StoreIf(l.val # Bad /\ l.val # 0 /\ (l.opt \in Percentages => l.val <= 100)
               /\ (l.opt = "pipes" => l.val \in {1, 2, 4, 8}),
             l, [Targ(l) EXCEPT !.plain = Write(l)])

\* proba delay and proba duplicate may be 0
share_line(l) ==
  /\ l.opt \in {"proba delay", "proba duplicate"}
  /\ StoreIf(l.val # Bad /\ l.val <= 100, l, [Targ(l) EXCEPT !.plain = Write(l)])

\* An odd number of digits, a letter or too long a packet is refused
pkt_inline(l) ==
  /\ l.opt = "pkt inline"
  /\ StoreIf(l.val # Bad, l, [Targ(l) EXCEPT !.plain = Write(l)])

\* What is wrong with these is not reported
unchecked_line(l) ==
  /\ l.opt \in {"irq debug", "multiplier", "mirror size"}
  /\ Store(l, IF l.val = Bad THEN Targ(l) ELSE [Targ(l) EXCEPT !.plain = Write(l)])

classify(l) ==
  /\ l.opt = "classify"
  /\ IF Targ(l).init = Nowhere THEN Stop("crashed")
     ELSE StoreIf(Targ(l).init.mode \in CcClassify /\ l.val \in {"yes", "no"}, l,
                  [Targ(l) EXCEPT !.runtime = Set(@, "classify", l.val)])

deprecated_or_unknown(l) == l.opt \in {"do sig", "lat", "network side", "unheard of"} /\ CoreRefused

\* [defaults]: that section is read before the [core] sections wherever it stands
get_defaults_cfg(l) ==
  /\ l.opt \in {"default mempool size", "default memcache size", "default qinq tag"}
  /\ \A i \in DOMAIN cc_seen : cc_seen[i].opt \in {"default mempool size", "default memcache size", "default qinq tag"}
  /\ LET f == CASE l.opt = "default mempool size" -> "mempool size"
                [] l.opt = "default memcache size" -> "memcache size"
                [] OTHER -> "qinq tag"
     IN  IF l.val = Bad /\ f # "qinq tag" THEN CoreRefused
         ELSE /\ cc_targ' = [c \in CcCores |-> [t \in 0 .. CcTasks - 1 |->
                   IF l.val = Bad THEN cc_targ[c][t] ELSE [cc_targ[c][t] EXCEPT !.plain = (<<f>> :> l.val) @@ @]]]
              /\ UNCHANGED <<cc_phase, cc_core, cc_glob, cc_deferred>>

get_core_cfg(l) ==
  \/ task(l) \/ mode(l) \/ sub_mode(l) \/ ndp_by_address(l)
  \/ tx_port(l) \/ rx_port(l) \/ rx_ring(l)
  \/ tx_ports_from_routing_table(l) \/ tx_ports_from_cpe_table(l)
  \/ tx_cores_from_routing_table(l) \/ tx_cores_from_cpe_table(l) \/ tx_cores(l)
  \/ gateway_ipv4(l) \/ local_ipv4(l) \/ mac_line(l)
  \/ delay(l) \/ counted(l) \/ offset_line(l) \/ imix(l) \/ police_action(l)
  \/ plain_line(l) \/ flag_line(l) \/ checked_line(l) \/ share_line(l) \/ pkt_inline(l)
  \/ unchecked_line(l) \/ classify(l) \/ deprecated_or_unknown(l)

ReadLine ==
  /\ cc_phase = "reading" /\ Len(cc_seen) < CcMaxLines
  /\ \E l \in CcThemes[cc_theme] : /\ get_defaults_cfg(l) \/ get_core_cfg(l)
                         /\ cc_seen' = Append(cc_seen, l @@ [at |-> cc_core[l.core].active])
  /\ UNCHANGED <<cc_theme, cc_secondary>>

-----------------------------------------------------------------------------
(* The whole file has been read.                                           *)

Word(c) == CcDim - 1 - (c \div CcBits)

prox_set_core_mask ==
  {c \in CcCores : cc_core[c].n > 0 /\ cc_targ[c][0].mode # "master"}

\* prox_core_active
Active(mask, withMaster) == IF withMaster THEN mask \cup ({cc_glob.master} \cap CcCores) ELSE mask \ {cc_glob.master}

is_using_no_drop(mask) ==
  \E c \in Active(mask, TRUE) : \E t \in 0 .. cc_core[c].n - 1 : "drop" \notin cc_targ[c][t].flags

\* calc_tot_rxrings without the counting: every receiver exists and reads rings
RingsExpected(mask) ==
  \A c \in Active(mask, TRUE) : \A t \in 0 .. cc_core[c].n - 1 : \A p \in Protos :
    \A i \in DOMAIN cc_targ[c][t].sets[p] :
      LET d == cc_targ[c][t].sets[p][i]
      IN  /\ d[1] \in Active(mask, FALSE) /\ d[2] < cc_core[d[1]].n
          /\ "rx ring" \in cc_targ[d[1]][d[2]].flags

prox_read_config_file ==
  /\ cc_phase = "reading" /\ cc_seen # <<>>
  /\ LET mask == prox_set_core_mask
     IN  /\ cc_phase' = IF RingsExpected(mask) /\ cc_glob.master < CcBits * CcDim THEN "accepted" ELSE "refused"
         /\ cc_glob' = [cc_glob EXCEPT !.mask = mask,
                          !.flags = IF is_using_no_drop(mask) THEN @ \ {"wait on quit"} ELSE @]
  /\ UNCHANGED <<cc_theme, cc_seen, cc_secondary, cc_core, cc_targ, cc_deferred>>

\* prox_core_to_hex: the words from the first that has to be printed
HexMask(mask, master) ==
  LET hit == {i \in 0 .. CcDim - 1 : Word(master) = i * CcBits \/ \E c \in mask : Word(c) = i}
      first == IF hit = {} THEN CcDim ELSE Min(hit)
  IN  {c \in mask \cup {master} : Word(c) >= first}

\* The cores DPDK enables must be those in use, and so must those with tasks; then the
\* names that had to wait
prox_setup_rte ==
  /\ cc_phase = "accepted"
  /\ LET enabled == HexMask(cc_glob.mask, cc_glob.master)
         named == \A i \in DOMAIN cc_deferred : cc_deferred[i].name \in DOMAIN CcDevices
         asIntended == \A c \in CcCores \ {cc_glob.master} :
                         (c \in enabled <=> c \in cc_glob.mask) /\ (cc_core[c].n > 0 => c \in enabled)
         last(c, t, rx) == {i \in DOMAIN cc_deferred :
                              cc_deferred[i].core = c /\ cc_deferred[i].task = t /\ cc_deferred[i].rx = rx}
         id(c, t, rx) == CcDevices[cc_deferred[Max(last(c, t, rx))].name]
     IN  IF named /\ cc_glob.master \in enabled /\ asIntended
         THEN /\ cc_phase' = "ready"
              /\ cc_targ' = [c \in CcCores |-> [t \in 0 .. CcTasks - 1 |->
                   [cc_targ[c][t] EXCEPT
                      !.rx = IF last(c, t, TRUE) = {} THEN @ ELSE Overlay(@, <<id(c, t, TRUE)>>),
                      !.nb_rxports = IF last(c, t, TRUE) = {} THEN @ ELSE 1,
                      !.tx = IF last(c, t, FALSE) = {} THEN @ ELSE Overlay(@, <<id(c, t, FALSE)>>),
                      !.nb_txports = IF last(c, t, FALSE) = {} THEN @ ELSE 1]]]
         ELSE cc_phase' = "refused" /\ UNCHANGED cc_targ
  /\ UNCHANGED <<cc_theme, cc_seen, cc_secondary, cc_core, cc_glob, cc_deferred>>

CcNext == ReadLine \/ prox_read_config_file \/ prox_setup_rte

-----------------------------------------------------------------------------
(* Properties.                                                             *)

Live == cc_phase \in {"reading", "accepted", "ready"}
Lines(c, t, opts) ==
  {i \in DOMAIN cc_seen : cc_seen[i].core = c /\ cc_seen[i].at = t /\ cc_seen[i].opt \in opts}
LastOf(c, t, opts) == cc_seen[Max(Lines(c, t, opts))]
EachTask(P(_, _)) == Live => \A c \in CcCores, t \in 0 .. CcTasks - 1 : P(c, t)
MasterLines == {i \in DOMAIN cc_seen : cc_seen[i].opt = "mode" /\ cc_seen[i].val = "master"}

\* The master's core has the one task the error message asks for, unless a task line
\* follows the mode line, which is where the number is checked.
MasterAlone ==
  Live /\ MasterLines # {} =>
    \/ cc_core[cc_glob.master].n = 1
    \/ \E i \in DOMAIN cc_seen : /\ cc_seen[i].core = cc_glob.master /\ cc_seen[i].opt = "task"
                               /\ i > Min(MasterLines)

\* Every core with tasks is used when the program is ready.  Until then a core whose
\* first task is a second master may be left out: only the last one named becomes the
\* master, and setting up DPDK refuses the other ("Failed to enable lcore").
NobodyForgotten ==
  cc_phase \in {"accepted", "ready"} =>
    \A c \in CcCores : cc_core[c].n > 0 =>
      \/ c \in Active(cc_glob.mask, TRUE)
      \/ cc_phase = "accepted" /\ \E i \in MasterLines : cc_seen[i].core = c /\ c # cc_glob.master

\* The number of rings to send to is that of the receivers named, unless a second
\* line replaced the list of its protocol: the number is added all the same.
RingsCounted ==
  EachTask(LAMBDA c, t :
    LET r == cc_targ[c][t]
    IN  \/ r.nb_txrings = Len(r.sets["ipv4"]) + Len(r.sets["arp"]) + Len(r.sets["ipv6"])
        \/ Cardinality(Lines(c, t, {"tx cores", "tx cores from routing table", "tx cores from cpe table"})) > 1)

\* Every port counted has been given a place, unless two lines name ports: both fill
\* the places from the first on and the counts are added.
PlacesFilled ==
  EachTask(LAMBDA c, t :
    LET r == cc_targ[c][t]
        filled(a, n) == n <= Len(a) /\ \A i \in 1 .. n : a[i] # Discard
    IN  /\ filled(r.rx, r.nb_rxports) \/ Cardinality(Lines(c, t, {"rx port"})) > 1
        /\ filled(r.tx, r.nb_txports)
             \/ Cardinality(Lines(c, t, {"tx port", "tx ports from routing table", "tx ports from cpe table"})) > 1)

\* A task reads a port or rings and never both, unless the name of its port was not
\* known when the line for the rings was read.
SourcesExclusive ==
  EachTask(LAMBDA c, t :
    ~("rx ring" \in cc_targ[c][t].flags /\ cc_targ[c][t].rx[1] # Discard)
      \/ \E i \in DOMAIN cc_deferred : cc_deferred[i].core = c /\ cc_deferred[i].task = t /\ cc_deferred[i].rx)

\* The prefix written with the local address is the task's, unless a gateway is named
\* behind it; a prefix longer than 32 counts as none, and none with a gateway is 32.
PrefixKept ==
  EachTask(LAMBDA c, t :
    Lines(c, t, {"local ipv4"}) # {} =>
      LET l == LastOf(c, t, {"local ipv4"})
          gateways == Lines(c, t, {"gateway ipv4"})
          behind == gateways # {} /\ Max(gateways) > Max(Lines(c, t, {"local ipv4"}))
      IN  cc_targ[c][t].prefix = IF behind THEN 32
                                 ELSE IF l.prefix <= 32 THEN l.prefix ELSE IF gateways # {} THEN 32 ELSE 0)

\* The ports of the CPE table go where remap= says, unless it names a port nobody
\* defined: then the ports are mapped as if remap= had not been written.
RemapHonoured ==
  EachTask(LAMBDA c, t :
    LET lines == Lines(c, t, {"tx ports from cpe table", "tx cores from cpe table"})
        l == cc_seen[Max(lines)]
    IN  lines # {} /\ l.remap # <<>> /\ RemapKnown(l.remap) =>
          \A i \in DOMAIN l.remap : \A p \in l.remap[i] :
            \/ cc_targ[c][t].mapping[CcPortId[p]] = i
            \/ \E j \in i + 1 .. Len(l.remap) : p \in l.remap[j])

\* The handler functions are those of the sub mode asked for, unless the mode is named
\* (again) behind it: the pointer is replaced and the flags of the sub mode stay.
SubModeKept ==
  EachTask(LAMBDA c, t :
    LET subs == Lines(c, t, {"sub mode"})
        modes == Lines(c, t, {"mode"})
    IN  subs # {} /\ Max(subs) > Max(modes) =>
          LET m == cc_seen[Max(modes)].val
              s == cc_seen[Max(subs)].val
          IN  cc_targ[c][t].init = [mode |-> m, sub |-> IF <<m, s>> \in CcInits THEN s ELSE ""])

\* The master runs the protocols some task needs and no other.
ProtocolsAnnounced ==
  Live => \A f \in {"l3", "ndp"} :
    f \in cc_glob.flags <=> \E c \in CcCores, t \in 0 .. CcTasks - 1 : f \in cc_targ[c][t].flags

\* Reading a file ends the program without an answer only where a mode is needed and
\* none has been named, or where the colours of the policer are not a pair.
CrashesKnown ==
  cc_phase = "crashed" =>
    LET l == Last(cc_seen)
    IN  \/ l.opt = "police action" /\ l.out = Nowhere
        \/ /\ l.opt \in {"sub mode", "classify", "tx ports from routing table", "tx cores from routing table"}
           /\ {i \in Lines(l.core, l.at, {"mode"}) : cc_seen[i].val # "master" \/ <<"master", "">> \in CcInits} = {}

\* A write behind an array takes more lines of a kind than it has places, or the
\* colour drop where only a packet's colour may stand.
OverrunsKnown ==
  cc_phase = "overrun" =>
    LET l == Last(cc_seen)
    IN  \/ l.opt = "police action" /\ "drop" \in {l.in, l.out}
        \/ Cardinality(Lines(l.core, l.at, {l.opt})) > CcPlaces

\* A field has the value of the last line that writes it, and a line of the [core]
\* section goes before one of [defaults].
LastLineCounts ==
  EachTask(LAMBDA c, t :
    \A i \in Lines(c, t, Plain) :
      cc_seen[i].val # Bad =>
           \A f \in Fields(cc_seen[i].opt) :
             \/ cc_targ[c][t].plain[f] = cc_seen[i].val
             \/ \E j \in i + 1 .. Len(cc_seen) :
                  cc_seen[j].core = c /\ cc_seen[j].at = t /\ f \in Fields(cc_seen[j].opt))

\* DPDK is asked for exactly the cores in use, unless no worker's word of the mask comes
\* as early as the master's: the words in front of the first worker's are left out.
MaskTrue ==
  cc_phase \in {"accepted", "ready"} =>
    \/ HexMask(cc_glob.mask, cc_glob.master) = cc_glob.mask \cup {cc_glob.master}
    \/ \A c \in cc_glob.mask : Word(c) > Word(cc_glob.master)

\* A port that had to wait is the task's first, alone, when the devices are known.
DeferredResolved ==
  cc_phase = "ready" =>
    \A i \in DOMAIN cc_deferred :
      LET d == cc_deferred[i]
          r == cc_targ[d.core][d.task]
          same(j) == cc_deferred[j].core = d.core /\ cc_deferred[j].task = d.task /\ cc_deferred[j].rx = d.rx
      IN  (\A j \in i + 1 .. Len(cc_deferred) : ~same(j)) =>
            IF d.rx THEN r.nb_rxports = 1 /\ r.rx[1] = CcDevices[d.name]
            ELSE r.nb_txports = 1 /\ r.tx[1] = CcDevices[d.name]

\* What a core section leaves: the master's core has one task and everybody is reached,
\* rings, ports, queues and sub-modes are those the lines named, whatever their order.
CoreConfigSound ==
  /\ MasterAlone /\ NobodyForgotten /\ RingsCounted /\ PlacesFilled /\ SourcesExclusive
  /\ PrefixKept /\ RemapHonoured /\ SubModeKept /\ ProtocolsAnnounced
  /\ CrashesKnown /\ OverrunsKnown /\ LastLineCounts /\ MaskTrue /\ DeferredResolved
=============================================================================
