------------------------------ MODULE MCModes ------------------------------
(***************************************************************************)
(* Instances of the modes of a worker's tasks, which share no state: chains*)
(* of modes that rewrite packets, impairment, the tasks that hold packets, *)
(* the tasks that decide about bursts, carrier-grade NAT and the border    *)
(* network gateway.  Each behaviour runs one of them, chosen at the start, *)
(* while the others stay in one initial state.                             *)
(***************************************************************************)
EXTENDS PacketModes, Impair, Holding, Bursts, Cgnat, Bng

VARIABLE part  \* the component this behaviour is about

\* The packets that arrive: datagrams with and without padding, of lengths around
\* the block of the cipher; tunnelled, tagged, labelled and the like.
V4(src, dst, proto, ttl, body) == [k |-> "ip4", src |-> src, dst |-> dst, proto |-> proto, ttl |-> ttl, len |-> 20 + body]
V6(src, dst, proto, body) == [k |-> "ip6", src |-> src, dst |-> dst, proto |-> proto, ttl |-> 64, len |-> body]
Ports(sp, dp, lt) == [k |-> "l4", sp |-> sp, dp |-> dp, lt |-> lt]
VlanTag(t) == [k |-> "vlan", type |-> t]
MplsLabel(b, n) == [k |-> "mpls", bos |-> b, nib |-> n]
Ether(etype, hs, body) == [s |-> "A", d |-> "B", etype |-> etype, hdrs |-> hs, len |-> 14 + LenOf(hs) + body, hidden |-> <<>>]
Ping == [k |-> "icmp", type |-> "request"]
Vxlan(t) == [k |-> "vxlan", type |-> t]
Nsh(n) == [k |-> "nsh", s |-> "C", d |-> "D", type |-> "ip4", idx |-> n]
UdpOf(n) == <<V4(1, 2, "udp", 3, 8 + n), Ports(1, 2, FALSE)>>
InGre == <<V4(4, 5, "gre", 3, 4 + 28), [k |-> "gre"]>> \o UdpOf(0)
Frames ==
  {Ether("ip4", UdpOf(n), n + pad) : n \in {0, 2, 17}, pad \in {0, 18}}
    \cup {Ether("ip4", <<V4(3, 1, "tcp", 1, 20), Ports(2, 1, FALSE)>>, 12),
          Ether("ip4", InGre, 0),
          Ether("ip4", <<V4(1, Local, "icmp", 3, 8), Ping>>, 4),
          Ether("ip4", <<V4(1, Group, "igmp", 1, 8), [k |-> "igmp", type |-> "query", group |-> 0]>>, 4),
          Ether("ip4", <<V4(1, Group, "udp", 1, 8), Ports(1, 2, FALSE)>>, 0),
          Ether("ip6", <<V6(1, 2, "udp", 8), Ports(1, 2, FALSE)>>, 0),
          Ether("ip6", <<V6(1, 2, "tcp", 20), Ports(1, 2, TRUE)>>, 12),
          Ether("qinq", <<VlanTag("vlan"), VlanTag("ip4")>> \o UdpOf(0), 0),
          Ether("vlan", <<VlanTag("ip4")>> \o UdpOf(0), 0),
          Ether("vlan", <<VlanTag("vlan"), VlanTag("ip6"), V6(1, 2, "udp", 8), Ports(1, 2, FALSE)>>, 0),
          Ether("mpls", <<MplsLabel(FALSE, 0), MplsLabel(TRUE, 4)>> \o UdpOf(0), 0),
          Ether("mpls", <<MplsLabel(FALSE, 0), MplsLabel(TRUE, 0)>> \o UdpOf(0), 0),
          Ether("nsh", <<Nsh(1)>> \o UdpOf(0), 0),
          Ether("qinq", <<VlanTag("vlan"), VlanTag("ip4"), V4(1, Local, "icmp", 3, 8), Ping>>, 4),
          Ether("ip4", <<V4(1, 2, "udp", 3, 46 + 36), Ports(1, NshPort, FALSE), Vxlan("nsh"), Nsh(1)>> \o UdpOf(0), 0),
          Ether("ip4", <<V4(1, 2, "udp", 3, 16 + 28), Ports(1, NshPort, FALSE), Vxlan("ip4")>> \o UdpOf(0), 0),
          Ether("arp", <<[k |-> "arp"], [k |-> "arp"]>>, 20)}

BurstPacket(kind, user, dscp, rule) == [kind |-> kind, user |-> user, dscp |-> dscp, rule |-> rule]
BurstPackets == {BurstPacket("ip", 0, 5, "allow"), BurstPacket("strange request", 1, 0, "rate limit"),
                 BurstPacket("answer", 0, 0, "none"), BurstPacket("gratuitous", 0, 0, "allow")}

\* One port of address 3 is mapped by configuration.
StaticFlow == <<3, 1>> :> <<50, 7>>

\* Two workers; two tunnels of the first share a bucket.
TunnelMap == ("a" :> 1) @@ ("b" :> 2) @@ ("c" :> 4)

ModesInit ==
  /\ part \in {"packets", "impair", "holding", "bursts", "cgnat", "bng"}
  /\ PmInit /\ (part # "packets" => pm_trace = <<[mode |-> "arrives", pkt |-> CHOOSE p \in PmPackets : TRUE]>>)
  /\ ImInit /\ (part # "impair" => im_asked.random = 0 /\ im_asked.delay = 0)
  /\ HoInit /\ (part # "holding" => ho_mode = "qos")
  /\ BuInit /\ (part # "bursts" => /\ bu_ip = 0 /\ Len(bu_pkts) = 1 /\ bu_pkts[1].sched.tc = 0
                                   /\ bu_pkts[1].p.kind = "ip")
  /\ CgInit
  /\ BngInit /\ (part # "bng" => bng_learn = "always")

ModesNext ==
  /\ UNCHANGED part
  /\ \/ part = "packets" /\ PmNext /\ UNCHANGED <<im_vars, ho_vars, bu_vars, cg_vars, bng_vars>>
     \/ part = "impair" /\ ImNext /\ UNCHANGED <<pm_vars, ho_vars, bu_vars, cg_vars, bng_vars>>
     \/ part = "holding" /\ HoNext /\ UNCHANGED <<pm_vars, im_vars, bu_vars, cg_vars, bng_vars>>
     \/ part = "bursts" /\ BuNext /\ UNCHANGED <<pm_vars, im_vars, ho_vars, cg_vars, bng_vars>>
     \/ part = "cgnat" /\ CgNext /\ UNCHANGED <<pm_vars, im_vars, ho_vars, bu_vars, bng_vars>>
     \/ part = "bng" /\ BngNext /\ UNCHANGED <<pm_vars, im_vars, ho_vars, bu_vars, cg_vars>>

ModesSpec == ModesInit /\ [][ModesNext]_<<part, pm_vars, im_vars, ho_vars, bu_vars, cg_vars, bng_vars>>
=============================================================================
