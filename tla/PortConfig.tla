----------------------------- MODULE PortConfig -----------------------------
(***************************************************************************)
(* The [eal options], [global], [cache set] and [port] sections of the     *)
(* configuration file (prox_args.c), the command line made for DPDK of     *)
(* them (prox_setup_rte), and the devices found or created afterwards      *)
(* (init_rte_dev and init_rte_ring_dev of prox_port_cfg.c): a port with a  *)
(* vdev line gets a second, virtual port behind the real ones, with its    *)
(* addresses and VLAN tags.  A line is a record [sec, idx, opt, val]; the  *)
(* kind of section decides who reads it, and the sections come in the      *)
(* order in which they are read.                                           *)
(***************************************************************************)
EXTENDS Integers, Sequences, FiniteSets, SequencesExt, FiniteSetsExt

CONSTANTS PcMaxPorts,   \* PROX_MAX_PORTS
          PcByte,       \* numbers of a uint8_t
          PcCacheSets,  \* PROX_MAX_CACHE_SET
          PcMcast,      \* NB_MCAST_ADDR
          PcMaxArgs,    \* MAX_RTE_ARGV
          PcThemes,     \* theme -> set of lines
          PcMaxLines,   \* bound on the lines of a file
          PcMtu,        \* PROX_MTU
          PcDevices,    \* numbers of devices DPDK may find
          PcRings,      \* names of the rings of another process
          PcBad         \* a value its parser refuses

ASSUME PcAssumption ==
  /\ PcMaxPorts \in Nat \ {0} /\ PcByte \in Nat /\ PcMaxPorts < PcByte /\ PcDevices \subseteq 0 .. PcMaxPorts

VARIABLES pc_phase,   \* "reading", "read", "up", "refused", "panic", "overrun"
          pc_theme, pc_seen,
          pc_port,    \* prox_port_cfg
          pc_names,   \* port_names, in the order of the lines
          pc_prox,    \* prox_cfg: flags and numbers
          pc_cache,   \* prox_cache_set_cfg: masks
          pc_eal,     \* rte_cfg
          pc_used     \* the ports tasks use and what DPDK found (external)

pc_vars == <<pc_phase, pc_theme, pc_seen, pc_port, pc_names, pc_prox, pc_cache, pc_eal, pc_used>>

PortIdx == 0 .. PcMaxPorts - 1
NoVdev == PcByte - 1

\* set_port_defaults
Port0 ==
  [mac |-> "hw", name |-> "", offload |-> {"ipv4 cksum", "udp cksum"}, disabled |-> {}, mtu |-> PcMtu, rss |-> FALSE,
   lsc |-> <<FALSE, FALSE>>, mc |-> 0, ips |-> <<>>, tags |-> <<>>, nvlans |-> 0, vdev |-> "", virtual |-> FALSE,
   rings |-> {}, number |-> <<>>, mapping |-> NoVdev, active |-> FALSE, isVdev |-> FALSE, socket |-> -1]

PcInit ==
  /\ pc_phase = "reading" /\ pc_theme \in DOMAIN PcThemes /\ pc_seen = <<>>
  /\ pc_port = [p \in PortIdx |-> Port0] /\ pc_names = <<>>
  /\ pc_prox = [flags |-> {}, number |-> <<>>] /\ pc_cache = [s \in 0 .. PcCacheSets - 1 |-> 0]
  /\ pc_eal = [number |-> <<>>, on |-> {}, words |-> 0]
  /\ pc_used = [ports |-> {}, found |-> 0]

-----------------------------------------------------------------------------
StopReading(how) == pc_phase' = how /\ UNCHANGED <<pc_port, pc_names, pc_prox, pc_cache, pc_eal>>
PortsRefused == StopReading("refused")
Onto(s, o, on) == IF on = "yes" THEN s \cup o ELSE s \ o
YesNo(v) == v \in {"yes", "no"}

\* get_rte_cfg: numbers, flags, and the words of the eal option
get_rte_cfg(l) ==
  /\ l.sec = "eal options"
  /\ LET numbers == {"-m", "-n", "-r"}
         wrong == \/ l.val = PcBad \/ l.opt \notin numbers \cup {"no-pci", "no-hpet", "no-huge", "eal"}
                  \/ l.opt = "-n" /\ l.val = 0
                  \/ l.opt = "-r" /\ l.val \notin 1 .. 16
     IN  IF wrong THEN PortsRefused
         ELSE /\ pc_eal' = CASE l.opt \in numbers -> [pc_eal EXCEPT !.number = (l.opt :> l.val) @@ @]
                             [] l.opt = "eal" -> [pc_eal EXCEPT !.words = l.val]
                             [] OTHER -> [pc_eal EXCEPT !.on = Onto(@, {l.opt}, l.val)]
              /\ UNCHANGED <<pc_phase, pc_port, pc_names, pc_prox, pc_cache>>

\* get_global_cfg: some options say that they are not needed any more
get_global_cfg(l) ==
  /\ l.sec = "global"
  /\ LET numbers == {"start time", "duration time", "poll timeout", "heartbeat timeout", "log buffer size"}
         flags == {"shuffle", "disable cmt", "mp rings", "enable bypass", "unique mempool per socket"}
     IN  IF l.val = PcBad \/ l.opt \notin numbers \cup flags THEN PortsRefused
         ELSE /\ pc_prox' = IF l.opt \in numbers THEN [pc_prox EXCEPT !.number = (l.opt :> l.val) @@ @]
                            ELSE [pc_prox EXCEPT !.flags = Onto(@, {l.opt}, l.val)]
              /\ UNCHANGED <<pc_phase, pc_port, pc_names, pc_cache, pc_eal>>

\* get_cache_set_cfg and get_port_cfg keep the index of the section in a uint8_t
Narrow(i) == i % PcByte

get_cache_set_cfg(l) ==
  /\ l.sec = "cache set"
  /\ IF Narrow(l.idx) >= PcCacheSets \/ l.val = PcBad THEN PortsRefused
     ELSE /\ pc_cache' = [pc_cache EXCEPT ![Narrow(l.idx)] = l.val]
          /\ UNCHANGED <<pc_phase, pc_port, pc_names, pc_prox, pc_eal>>

StorePort(l, r) ==
  /\ pc_port' = [pc_port EXCEPT ![Narrow(l.idx)] = r]
  /\ UNCHANGED <<pc_phase, pc_names, pc_prox, pc_cache, pc_eal>>

OfPort(l) == pc_port[Narrow(l.idx)]

\* A name is one port's, but a port may have several
add_port_name(l) ==
  /\ l.opt = "name"
  /\ IF Len(pc_names) = PcMaxPorts \/ \E i \in DOMAIN pc_names : pc_names[i].name = l.val THEN PortsRefused
     ELSE /\ pc_names' = Append(pc_names, [name |-> l.val, id |-> Narrow(l.idx)])
          /\ pc_port' = [pc_port EXCEPT ![Narrow(l.idx)].name = l.val]
          /\ UNCHANGED <<pc_phase, pc_prox, pc_cache, pc_eal>>

\* A list of address/prefix; one address without prefix is read as well, and the 24
\* meant for its prefix is put where the address goes
port_local_ipv4(l) ==
  /\ l.opt = "local ipv4"
  /\ IF l.val = PcBad THEN PortsRefused
     ELSE StorePort(l, [OfPort(l) EXCEPT !.ips =
            [i \in 1 .. Max({Len(@), Len(l.val)}) |->
               IF i > Len(l.val) THEN @[i]
               ELSE IF l.val[i].prefix # 0 THEN l.val[i]
               ELSE [ip |-> l.val[i].ip, prefix |-> IF i <= Len(@) THEN @[i].prefix ELSE 0]]])

\* The options that store what they are given
port_value(l) ==
  /\ l.opt \in {"mac", "rx desc", "tx desc", "ipv6 mask length", "all_rx_queues", "promiscuous", "virtual",
                "vdev", "vlan tag", "rx_ring", "tx_ring"}
  /\ IF l.val = PcBad THEN PortsRefused
     ELSE StorePort(l, CASE l.opt = "mac" -> [OfPort(l) EXCEPT !.mac = l.val]
                         [] l.opt = "vdev" -> [OfPort(l) EXCEPT !.vdev = l.val]
                         [] l.opt = "virtual" -> [OfPort(l) EXCEPT !.virtual = (l.val = "yes")]
                         [] l.opt = "vlan tag" -> [OfPort(l) EXCEPT !.tags = l.val \o SubSeq(@, Len(l.val) + 1, Len(@))]
                         [] l.opt \in {"rx_ring", "tx_ring"} -> [OfPort(l) EXCEPT !.rings = @ \cup {<<l.opt, l.val>>}]
                         [] OTHER -> [OfPort(l) EXCEPT !.number = (l.opt :> l.val) @@ @])

multicast(l) ==
  /\ l.opt = "multicast"
  /\ IF OfPort(l).mc >= PcMcast \/ l.val = PcBad THEN PortsRefused
     ELSE StorePort(l, [OfPort(l) EXCEPT !.mc = @ + 1])

\* What the port asks of its device: what is not asked for any more is not always taken
\* back, and the mask of what is disabled is kept for the set-up of the port
port_offload(l) ==
  /\ l.opt \in {"lsc", "strip crc", "vlan", "mtu size", "rss", "disable tx offload"}
  /\ IF l.val = PcBad THEN PortsRefused
     ELSE StorePort(l,
       CASE l.opt = "lsc" -> [OfPort(l) EXCEPT !.lsc = <<TRUE, l.val = "yes">>]
         [] l.opt = "strip crc" -> [OfPort(l) EXCEPT !.offload = Onto(@, {"crc strip"}, l.val)]
         [] l.opt = "vlan" -> [OfPort(l) EXCEPT !.offload = Onto(@, {"vlan strip", "vlan insert"}, l.val)]
         [] l.opt = "rss" -> [OfPort(l) EXCEPT !.rss = @ \/ l.val = "yes"]
         [] l.opt = "disable tx offload" -> [OfPort(l) EXCEPT !.disabled = IF l.val = {} THEN @ ELSE l.val]
         [] OTHER -> IF l.val = 0 THEN OfPort(l)
                     ELSE [OfPort(l) EXCEPT !.mtu = l.val, !.offload = IF l.val > PcMtu THEN @ \cup {"jumbo"} ELSE @])

get_port_cfg(l) ==
  /\ l.sec = "port"
  /\ IF Narrow(l.idx) >= PcMaxPorts THEN PortsRefused
     ELSE \/ add_port_name(l) \/ port_local_ipv4(l) \/ port_value(l) \/ multicast(l) \/ port_offload(l)

\* prox_read_config_file reads one kind of section after the other
Rank(s) == CHOOSE i \in 1 .. 4 : s = <<"eal options", "cache set", "port", "global">>[i]

ReadPortLine ==
  /\ pc_phase = "reading" /\ Len(pc_seen) < PcMaxLines
  /\ \E l \in PcThemes[pc_theme] :
       /\ \A i \in DOMAIN pc_seen : Rank(pc_seen[i].sec) <= Rank(l.sec)
       /\ get_rte_cfg(l) \/ get_global_cfg(l) \/ get_cache_set_cfg(l) \/ get_port_cfg(l)
       /\ pc_seen' = Append(pc_seen, l)
  /\ UNCHANGED <<pc_theme, pc_used>>

-----------------------------------------------------------------------------
\* The command line of DPDK: program, mask, master, numbers, flags, the words of eal.
\* Whether they fit is looked at when all have been written.
CountArgs == 3 + Cardinality(DOMAIN pc_eal.number) + Cardinality(pc_eal.on) + pc_eal.words

setup_args ==
  /\ pc_phase = "reading" /\ pc_seen # <<>>
  /\ pc_phase' = IF CountArgs > PcMaxArgs THEN "overrun" ELSE IF "-n" \in DOMAIN pc_eal.number THEN "read" ELSE "refused"
  /\ \E ports \in SUBSET PortIdx, found \in PcDevices : pc_used' = [ports |-> ports, found |-> found]
  /\ UNCHANGED <<pc_theme, pc_seen, pc_port, pc_names, pc_prox, pc_cache, pc_eal>>

\* One port of the first loop of init_rte_dev: its tags are counted and its virtual
\* device, if it has one, becomes the last port
Tags(r) == LET zero == {i \in DOMAIN r.tags : r.tags[i] = 0} IN IF zero = {} THEN Len(r.tags) ELSE Min(zero) - 1

PairOf(s, p) ==
  LET real == s.port[p]
      v == s.count
      tags == IF Tags(real) = 0 THEN <<0>> ELSE SubSeq(real.tags, 1, Tags(real))
      twin == [s.port[v] EXCEPT !.isVdev = TRUE, !.active = TRUE, !.mapping = p, !.name = real.vdev,
                                !.tags = tags, !.nvlans = Len(tags), !.ips = real.ips,
                                !.mac = IF real.mac = "hw" THEN "set" ELSE real.mac]
  IN  IF v >= PcMaxPorts THEN [s EXCEPT !.ok = FALSE]
      ELSE [s EXCEPT !.count = v + 1, !.port[v] = twin, !.port[p].mapping = v]

OnePort(s, p) ==
  IF ~s.ok \/ ~s.port[p].active THEN s
  ELSE LET t == IF s.port[p].vdev = "" THEN s ELSE PairOf(s, p)
       IN  IF ~t.ok THEN t
           ELSE [t EXCEPT !.port[p].nvlans = Max({1, Tags(t.port[p])}),
                          !.port[p].tags = IF Tags(t.port[p]) = 0 THEN <<0>> ELSE @]

\* The second loop: a port that is used must be there; a virtual device is on the
\* socket of its port if that one has been visited.  p % 2 stands for numa_node
Node(s, p) ==
  LET of == s.port[p].mapping
  IN  CASE ~s.port[p].isVdev -> p % 2
        [] s.port[p].isVdev /\ of < p /\ ~s.port[of].isVdev -> of % 2
        [] OTHER -> -1
Sockets(s) ==
  [p \in PortIdx |->
     IF ~s.port[p].active THEN s.port[p]
     ELSE [s.port[p] EXCEPT !.socket = Node(s, p)]]

init_rte_dev ==
  /\ pc_phase = "read"
  /\ LET used == [p \in PortIdx |-> [pc_port[p] EXCEPT !.active = p \in pc_used.ports]]
         missing == \E p \in pc_used.ports : ~pc_port[p].virtual /\ p >= pc_used.found
         s == FoldLeft(OnePort, [port |-> used, count |-> pc_used.found, ok |-> ~missing],
                       [i \in 1 .. PcMaxPorts |-> i - 1])
         there == \A p \in PortIdx : s.port[p].active => p < s.count
         ringed == \A p \in PortIdx : \A r \in s.port[p].rings : s.port[p].active => r[2] \in PcRings
     IN  IF s.ok /\ there /\ ringed
         THEN /\ pc_phase' = "up" /\ pc_port' = Sockets(s)
              /\ pc_used' = [pc_used EXCEPT !.found = s.count]
         ELSE pc_phase' = "panic" /\ UNCHANGED <<pc_port, pc_used>>
  /\ UNCHANGED <<pc_theme, pc_seen, pc_names, pc_prox, pc_cache, pc_eal>>

PcNext == ReadPortLine \/ setup_args \/ init_rte_dev

-----------------------------------------------------------------------------
(* Properties.                                                             *)

PortLines(p) == {i \in DOMAIN pc_seen : pc_seen[i].sec = "port" /\ Narrow(pc_seen[i].idx) = p}
PcLive == pc_phase \in {"reading", "read"}

\* A name leads to the port whose section gave it, and no other port has that name.
NamesResolve ==
  /\ IsInjective([i \in DOMAIN pc_names |-> pc_names[i].name])
  /\ PcLive => \A p \in PortIdx : pc_port[p].name # "" => \E i \in DOMAIN pc_names :
       pc_names[i] = [name |-> pc_port[p].name, id |-> p]

\* A section changes the port or cache set of its number, unless that number does not
\* fit a byte: it then changes another one.
SectionsInPlace ==
  PcLive => \A i \in DOMAIN pc_seen :
    \/ pc_seen[i].sec \notin {"port", "cache set"}
    \/ pc_seen[i].idx < IF pc_seen[i].sec = "port" THEN PcMaxPorts ELSE PcCacheSets
    \/ pc_seen[i].idx >= PcByte

\* What the set-up of a port asks its transmitter for, if the device can (module Ports).
Requested(p) == pc_port[p].offload \ pc_port[p].disabled

LastPortLine(p, opt, Counts(_)) ==
  LET lines == {i \in PortLines(p) : pc_seen[i].opt = opt /\ Counts(pc_seen[i].val)}
  IN  IF lines = {} THEN <<>> ELSE <<pc_seen[Max(lines)].val>>

\* The large frames of a port are those its size asks for, unless an earlier line asked
\* for a larger one.  Tags are inserted when the last vlan line says so and the last
\* mask of disabled offloads that is not empty does not, whichever of the two lines
\* comes first.
OffloadsAsked ==
  PcLive => \A p \in PortIdx :
    /\ pc_port[p].mtu > PcMtu => "jumbo" \in pc_port[p].offload
    /\ "jumbo" \in pc_port[p].offload /\ pc_port[p].mtu <= PcMtu =>
         \E i \in PortLines(p) : pc_seen[i].opt = "mtu size" /\ pc_seen[i].val > PcMtu
    /\ "vlan insert" \in Requested(p) <=>
         /\ LastPortLine(p, "vlan", LAMBDA v : TRUE) = <<"yes">>
         /\ \A off \in Range(LastPortLine(p, "disable tx offload", LAMBDA v : v # {})) : "vlan insert" \notin off

\* An address has a prefix, unless it was written without one: its netmask is then empty.
PrefixKnown ==
  PcLive => \A p \in PortIdx : \A i \in DOMAIN pc_port[p].ips :
    \/ pc_port[p].ips[i].prefix # 0
    \/ \E j \in PortLines(p) : pc_seen[j].opt = "local ipv4" /\ pc_seen[j].val[1].prefix = 0

\* When the devices are up, every port in use exists; a virtual device and its port
\* name each other, have the same tags and addresses and are on one socket, unless the
\* number the virtual device got has a section with a vdev line as well.
TwinsPaired ==
  pc_phase = "up" => \A p \in PortIdx :
    pc_port[p].active =>
      /\ p < pc_used.found /\ pc_port[p].nvlans >= 1
      /\ pc_port[p].isVdev /\ pc_port[p].vdev = "" /\ ~pc_port[pc_port[p].mapping].isVdev =>
           LET real == pc_port[pc_port[p].mapping]
           IN  /\ real.mapping = p /\ pc_port[p].mapping # p /\ pc_port[p].socket = real.socket
               /\ pc_port[p].ips = real.ips
               /\ SubSeq(pc_port[p].tags, 1, pc_port[p].nvlans) = SubSeq(real.tags, 1, real.nvlans)

\* The command line fits, or the program has written behind its place already.
ArgsFit == pc_phase \in {"read", "up", "panic"} => CountArgs <= PcMaxArgs

\* What port, variable and default sections leave: names, offloads, prefixes and
\* places that later sections and the set-up of the ports rely on.
PortConfigSound ==
  NamesResolve /\ SectionsInPlace /\ OffloadsAsked /\ PrefixKnown /\ TwinsPaired /\ ArgsFit
=============================================================================
