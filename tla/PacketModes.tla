---------------------------- MODULE PacketModes ----------------------------
(***************************************************************************)
(* The modes that rewrite or steer packets one by one: swap, l2fwd, untag, *)
(* tagmpls and unmpls, ipv6_encap and ipv6_decap, esp_enc and esp_dec,     *)
(* decapnsh and encapnsh, routing and the load balancers without state.  A *)
(* chain of tasks hands a packet from mode to mode; pm_trace is its path.  *)
(*                                                                         *)
(* A packet is its Ethernet addresses and type, its headers from the       *)
(* outside in, and the length of its frame.  A mode is an operator from    *)
(* packet to packet, or to DISCARD: what `out' and the rewritten headers   *)
(* say together.  The reads the code makes at a fixed offset, without      *)
(* looking at the type before it, are reads of hdrs[1].                    *)
(***************************************************************************)
EXTENDS Integers, Sequences, SequencesExt

CONSTANTS PmPackets,  \* the packets that arrive
          PmWorkers,  \* outputs of a load balancer
          PmSteps     \* bound on the length of a chain

\* What arrives has at most two tags or labels.
ASSUME PmAssumption ==
  /\ PmWorkers \in Nat \ {0} /\ PmSteps \in Nat
  /\ \A p \in PmPackets : Len(SelectSeq(p.hdrs, LAMBDA h : h.k \in {"vlan", "mpls"})) <= 2

VARIABLE pm_trace     \* the packet as it arrived and as each mode left it
pm_vars == pm_trace

DISCARD == [k |-> "discard"]

\* What the configuration gives: tunnel addresses, ipv6_tunnel's bindings of a
\* public address and port, the routes, the IGMP group.  A group address is
\* recognised as multicast.
Local == 8
Remote == 9
Bound == {<<1, 1>>, <<2, 2>>}
Routes == {1, 2}
Group == 7
GenevePort == 5
NshPort == 6   \* VXLAN_GPE_NSH_TYPE
Nobody == 0    \* what is read from an address that was written over

HdrLen(h) == CASE h.k = "ip4" -> 20 [] h.k = "ip6" -> 40 [] h.k = "l4" -> 8
               [] h.k = "esp" -> 24 [] h.k = "vxlan" -> 8
               [] h.k = "nsh" -> 38   \* with the Ethernet header behind it
               [] OTHER -> 4
LenOf(hs) == FoldLeft(LAMBDA t, h : t + HdrLen(h), 0, hs)
\* The first four bits of a header, where an IP header has its version.
Version(h) == CASE h.k = "ip4" -> 4 [] h.k = "ip6" -> 6 [] h.k = "mpls" -> h.nib [] OTHER -> 0
Push(p, h) == [p EXCEPT !.hdrs = <<h>> \o @, !.len = @ + HdrLen(h)]
Pop(p, n) == [p EXCEPT !.hdrs = SubSeq(@, n + 1, Len(@)), !.len = @ - LenOf(SubSeq(p.hdrs, 1, n))]
\* Mutant: the first label is taken for the last.
Bottom_first(p) == IF p.hdrs[1].k = "mpls" THEN 1 ELSE 0
Bottom(p) == SelectInSeq(p.hdrs, LAMBDA h : h.k = "mpls" /\ h.bos)
Expire(h) == [h EXCEPT !.ttl = @ - 1]
\* The padding behind the IP packet is cut off.  Mutant: it is not.
Trim_not(p, at) == p
Trim(p, at) == [p EXCEPT !.len = IF @ > at THEN at ELSE @]

----------------------------------------------------------------------------
\* handle_l2fwd_bulk, write_src_and_dst_mac: each address is set, left alone
\* or taken from the packet.
L2Fwd(p, src, dst) ==
  LET new(choice, own, other) ==
        CASE choice = "set" -> "task" [] choice = "no" -> own [] choice = "packet" -> other
  IN [p EXCEPT !.s = new(src, p.s, p.d), !.d = new(dst, p.d, p.s)]

\* Where handle_swap_bulk finds the IP header; 0 for a type it does not know.
SwapIpAt(p) ==
  CASE p.etype = "mpls" -> Bottom(p) + 1
    [] p.etype \in {"ip4", "ip6"} -> 1
    [] p.etype \in {"vlan", "qinq"} /\ p.hdrs[1].k = "vlan" ->
         IF p.hdrs[1].type = "vlan"
         THEN IF p.hdrs[2].type \in {"ip4", "ip6"} THEN 3 ELSE 0
         ELSE IF p.etype = "vlan" /\ p.hdrs[1].type \in {"ip4", "ip6"} THEN 2 ELSE 0
    [] OTHER -> 0
SwapIp(h) == [h EXCEPT !.src = h.dst, !.dst = h.src]
\* Mutant: the ports stay.
SwapL4_not(h) == h
SwapL4(h) == [h EXCEPT !.sp = h.dp, !.dp = h.sp]
SwapFlow(hs, i) == [hs EXCEPT ![i] = SwapIp(@), ![i + 1] = SwapL4(@)]

\* build_icmp_reply_message: the source is the local address, which the request
\* was sent to.  The three fields are written where they are in a frame that has
\* IP right behind Ethernet.  With four bytes of tags or labels before it, what
\* is written is the time to live, the protocol and both addresses; with eight,
\* the identification comes over the former and a zero into the source.
EchoReply(p, i) ==
  LET ip == p.hdrs[i]
      before == LenOf(SubSeq(p.hdrs, 1, i - 1))
      q == L2Fwd(p, "packet", "packet")
  IN CASE before = 0 ->
            [q EXCEPT !.hdrs[i].dst = ip.src, !.hdrs[i].src = Local, !.hdrs[i + 1].type = "reply"]
       [] before = 4 ->
            [q EXCEPT !.hdrs[i] = [ip EXCEPT !.ttl = Local, !.proto = "other", !.src = Nobody, !.dst = Nobody]]
       [] before = 8 ->
            [q EXCEPT !.hdrs[i] = [ip EXCEPT !.ttl = 0, !.proto = "other", !.src = Nobody]]
\* build_igmp_message: the report replaces the packet, headers before IP and all.
IgmpReport ==
  [s |-> "task", d |-> "group", etype |-> "ip4", len |-> 46, hidden |-> <<>>,
   hdrs |-> <<[k |-> "ip4", src |-> Local, dst |-> Group, proto |-> "igmp", ttl |-> 1, len |-> 32],
              [k |-> "igmp", type |-> "report", group |-> Group]>>]

\* handle_swap_bulk, handle_ipv6: over IPv6 the two bytes that are a datagram's
\* length are looked at for TCP as well, where they belong to the sequence
\* number ("lt": they are less than the length of the payload).
Swap(p) ==
  LET i == SwapIpAt(p)
      ip == p.hdrs[i]
      l4 == p.hdrs[i + 1]
      out(hs) == L2Fwd([p EXCEPT !.hdrs = hs], "packet", "packet")
  IN IF i = 0 \/ Version(ip) \notin {4, 6} \/ ip.k = "mpls" THEN DISCARD
     ELSE IF ip.k = "ip6"
     THEN IF ip.proto \in {"udp", "tcp"} /\ ~l4.lt THEN out(SwapFlow(p.hdrs, i)) ELSE DISCARD
     ELSE CASE ip.proto = "gre" -> out([SwapFlow(p.hdrs, i + 2) EXCEPT ![i] = SwapIp(@)])
       [] ip.proto \in {"udp", "tcp"} ->
            IF ip.dst = Group \/ l4.dp = GenevePort THEN DISCARD ELSE out(SwapFlow(p.hdrs, i))
       [] ip.proto = "icmp" ->
            IF ip.dst # Local THEN DISCARD
            ELSE IF l4.type = "request" THEN EchoReply(p, i)
            ELSE IF l4.type = "reply" THEN p ELSE DISCARD
       [] ip.proto = "igmp" ->
            IF l4.type = "query" /\ l4.group \in {0, Group} THEN IgmpReport ELSE DISCARD
       [] OTHER -> DISCARD

----------------------------------------------------------------------------
\* handle_untag.  The bytes of the MPLS label or of the two tags are taken off
\* the front of the frame, so that the addresses become what lies there.
Untag(p, etype) ==
  LET cut(n) == [Pop(p, n) EXCEPT !.d = "shifted", !.s = "shifted"]
  IN IF p.etype # etype THEN DISCARD
     ELSE CASE etype = "mpls" ->
            LET inner == p.hdrs[2]   \* pip: behind the first label in any case
                q == cut(IF p.hdrs[1].bos THEN 1 ELSE 2)
            IN CASE Version(inner) = 4 -> [q EXCEPT !.etype = "ip4"]
                 [] Version(inner) = 6 -> [q EXCEPT !.etype = "ip6"]
                 [] OTHER -> DISCARD
       [] etype \in {"ip4", "ip6"} -> p
       [] etype \in {"qinq", "vlan"} ->
            IF p.hdrs[1].k = "vlan" /\ p.hdrs[1].type = "vlan"
            THEN [cut(2) EXCEPT !.etype = p.hdrs[2].type] ELSE DISCARD
       [] OTHER -> DISCARD

\* handle_tagmpls: label 0, marked as the bottom of the stack whatever follows.
TagMpls(p) == [Push(p, [k |-> "mpls", bos |-> TRUE, nib |-> 0]) EXCEPT !.etype = "mpls"]

\* handle_unmpls: takes the type for granted and every label off.
UnMpls(p) ==
  LET n == Bottom(p)
      v == Version(p.hdrs[n + 1])
  IN CASE v = 4 -> [Pop(p, n) EXCEPT !.etype = "ip4"]
       [] v = 6 -> [Pop(p, n) EXCEPT !.etype = "ip6"]
       [] OTHER -> DISCARD

\* Where the NSH header is, 0 without one: by the type of the frame, or in
\* VXLAN-GPE, whose port and next protocol are read at their offsets behind an
\* IPv4 header, if the frame has the length for it.  What lies there in other
\* frames is another port.
NshAt(p) ==
  LET hs == p.hdrs
      vxlan == /\ p.len >= 14 + 20 + 8 + 8 + 24
               /\ hs[1].k = "ip4" /\ hs[2].k = "l4" /\ hs[2].dp = NshPort
               /\ hs[3].k = "vxlan" /\ hs[3].type = "nsh"
  IN IF p.etype = "nsh" THEN 1 ELSE IF vxlan THEN 4 ELSE 0

\* handle_decap_nsh moves the start of the packet behind the NSH header and
\* keeps in the mbuf by how much; handle_encap_nsh moves it back, looks again for
\* the header and decrements the service index.  (The length stays in the mbuf:
\* a second encapnsh, which would use it again, is not put in a chain.)
DecapNsh(p) ==
  LET n == NshAt(p)
      inner == p.hdrs[n]
  IN IF n = 0 THEN [p EXCEPT !.hidden = <<>>]
     ELSE [Pop(p, n) EXCEPT
             !.s = inner.s, !.d = inner.d, !.etype = inner.type,
             !.hidden = <<[s |-> p.s, d |-> p.d, etype |-> p.etype, hdrs |-> SubSeq(p.hdrs, 1, n)]>>]

CountHop(p) ==
  IF NshAt(p) = 0 THEN p ELSE [p EXCEPT !.hdrs[NshAt(p)].idx = IF @ > 0 THEN @ - 1 ELSE 0]
EncapNsh(p) ==
  LET o == Head(p.hidden)
      moved == [o.hdrs EXCEPT ![Len(o.hdrs)] = [@ EXCEPT !.s = p.s, !.d = p.d, !.type = p.etype]]
  IN IF p.hidden = <<>> THEN p
     ELSE CountHop([s |-> o.s, d |-> o.d, etype |-> o.etype, hdrs |-> moved \o p.hdrs,
                    len |-> p.len + LenOf(moved), hidden |-> <<>>])

----------------------------------------------------------------------------
\* extract_key, prox_rte_table_key8_lookup: only UDP and TCP have a key.
IsBound(ip, l4, addr, port) == ip.k = "ip4" /\ ip.proto \in {"udp", "tcp"} /\ <<addr, port>> \in Bound

\* handle_ipv6_encap_bulk, handle_ipv6_encap: by the destination, padding cut off.
Ip6Encap(p) ==
  LET ip == p.hdrs[1]
      l4 == p.hdrs[2]
      inner == Trim([p EXCEPT !.hdrs[1] = Expire(ip)], 14 + ip.len)
  IN IF ~(IsBound(ip, l4, ip.dst, l4.dp) /\ ip.ttl > 0) THEN DISCARD
     ELSE [Push(inner, [k |-> "ip6", src |-> Local, dst |-> Remote, proto |-> "ipip", ttl |-> 64,
                        len |-> ip.len])
             EXCEPT !.s = "port", !.d = "endpoint", !.etype = "ip6"]

\* handle_ipv6_decap_bulk, handle_ipv6_decap: by the source of the inner packet.
Ip6Decap(p) ==
  IF /\ p.etype = "ip6" /\ p.hdrs[1].k = "ip6" /\ p.hdrs[1].proto = "ipip"
     /\ IsBound(p.hdrs[2], p.hdrs[3], p.hdrs[2].src, p.hdrs[3].sp)
  THEN [Pop(p, 1) EXCEPT !.s = "port", !.d = "task", !.etype = "ip4"]
  ELSE DISCARD

\* handle_esp_ah_enc, handle_enc_finish.  "region": the bytes that are ciphered,
\* to a multiple of the block; behind them come four bytes and the digest, of
\* which total_length counts the digest only.
EspEnc(p) ==
  LET ip == p.hdrs[1]
      inner == Trim([p EXCEPT !.hdrs[1] = Expire(ip)], 14 + ip.len)
      plain == inner.len - 14 + 2
      padding == (16 - (plain % 16)) % 16
      esp == [k |-> "esp", region |-> plain + padding]
      outer == [k |-> "ip4", src |-> Local, dst |-> Remote, proto |-> "esp", ttl |-> 64,
                len |-> ip.len + 20 + 8 + 16 + padding + 1 + 1 + 20]
  IN IF Version(ip) # 4 \/ ip.ttl = 0 THEN DISCARD
     ELSE [Push(Push(inner, esp), outer) EXCEPT
             !.s = "port", !.d = "task", !.etype = "ip4", !.len = @ + padding + 2 + 4 + 20]

\* handle_esp_ah_dec, handle_dec_finish: the ciphered region is worked out from
\* total_length; the addresses of the inner packet are overwritten.
EspDec(p) ==
  LET outer == p.hdrs[1]
      region == outer.len - 20 - 16 - 28
      ip == p.hdrs[3]
  IN IF Version(outer) # 4 \/ outer.proto # "esp" THEN DISCARD
     ELSE IF region # p.hdrs[2].region \/ Version(ip) # 4 \/ ip.ttl = 0 THEN DISCARD
     ELSE [Trim(Pop(p, 2), 14 + ip.len) EXCEPT
             !.hdrs[1] = [Expire(ip) EXCEPT !.dst = Remote, !.src = Local],
             !.s = "port", !.d = "task"]

----------------------------------------------------------------------------
\* handle_routing: where the IP header is, 0 for a type that is not routed.
RouteIpAt(p) ==
  CASE p.etype = "qinq" -> IF p.hdrs[1].type = "vlan" THEN 3 ELSE 0
    [] p.etype = "ip4" -> 1
    [] p.etype = "mpls" -> Bottom(p) + 1
    [] OTHER -> 0

\* route_ipv4, set_l2, set_l2_mpls.  The two addresses are written as eight
\* bytes each, the second with the type behind it: IPv4, or MPLS when the task
\* adds a label.
Route(p, mpls) ==
  LET i == RouteIpAt(p)
      ip == p.hdrs[i]
      dst == IF ip.proto = "gre" THEN p.hdrs[i + 2].dst ELSE ip.dst
      whole == Trim(p, 14 + LenOf(SubSeq(p.hdrs, 1, i - 1)) + ip.len)
  IN IF i = 0 \/ Version(ip) # 4 \/ ip.k = "mpls" THEN DISCARD
     ELSE IF ip.proto \notin {"gre", "tcp", "udp"} \/ dst \notin Routes THEN DISCARD
     ELSE [(IF mpls THEN TagMpls(whole) ELSE [p EXCEPT !.etype = "ip4"])
             EXCEPT !.d = "nexthop", !.s = "port"]

\* handle_lb_pos_bulk takes one byte of the packet, here the last of an address;
\* handle_lb_ip_port a hash of one end of the flow.
LbPos(p, side) == p.hdrs[1][side] % PmWorkers
LbIpPort(p, byte_offset) ==
  LET ip == p.hdrs[1]
      l4 == p.hdrs[2]
  IN IF p.etype # "ip4" \/ ip.proto \notin {"tcp", "udp"} THEN -1
     ELSE IF byte_offset = 0 THEN (3 * ip.src + l4.sp) % PmWorkers
     ELSE (3 * ip.dst + l4.dp) % PmWorkers

----------------------------------------------------------------------------
Unlabelled == {"swap", "l2fwd", "untag mpls", "untag qinq", "untag vlan", "ip6encap", "ip6decap",
               "espenc", "espdec", "decapnsh", "encapnsh"}
Modes == Unlabelled \cup {"tagmpls", "unmpls", "route", "route mpls"}
\* Between decapnsh and encapnsh the packet keeps its length: a mode that adds
\* or removes bytes there writes into the header that is hidden.
InPlace == {"swap", "l2fwd", "encapnsh"}

Apply(m, p) ==
  CASE m = "swap" -> Swap(p)
    [] m = "l2fwd" -> L2Fwd(p, "set", "packet")
    [] m = "untag mpls" -> Untag(p, "mpls")
    [] m = "untag qinq" -> Untag(p, "qinq")
    [] m = "untag vlan" -> Untag(p, "vlan")
    [] m = "tagmpls" -> TagMpls(p)
    [] m = "unmpls" -> UnMpls(p)
    [] m = "ip6encap" -> Ip6Encap(p)
    [] m = "ip6decap" -> Ip6Decap(p)
    [] m = "espenc" -> EspEnc(p)
    [] m = "espdec" -> EspDec(p)
    [] m = "decapnsh" -> DecapNsh(p)
    [] m = "encapnsh" -> EncapNsh(p)
    [] m = "route" -> Route(p, FALSE)
    [] m = "route mpls" -> Route(p, TRUE)

Now == Last(pm_trace).pkt

PmInit == \E p \in PmPackets : pm_trace = <<[mode |-> "arrives", pkt |-> p]>>

\* A task takes the packet: unmpls is only given packets with a label.
PmHandle(m) ==
  /\ Len(pm_trace) <= PmSteps /\ Now # DISCARD
  /\ Now.hidden = <<>> \/ m \in InPlace
  /\ m = "unmpls" => Bottom(Now) > 0
  /\ pm_trace' = Append(pm_trace, [mode |-> m, pkt |-> Apply(m, Now)])

PmNext == \E m \in Modes : PmHandle(m)

PmSpec == PmInit /\ [][PmNext]_pm_vars

----------------------------------------------------------------------------
Steps == {<<pm_trace[i - 1].pkt, pm_trace[i].mode, pm_trace[i].pkt>> : i \in 2 .. Len(pm_trace)}
\* A packet that was encapsulated by "m" and, one step later, decapsulated.
Undone(m, n) ==
  {<<pm_trace[i - 1].pkt, pm_trace[i + 1].pkt>> :
     i \in {j \in 2 .. Len(pm_trace) - 1 :
              /\ pm_trace[j].mode = m /\ pm_trace[j + 1].mode = n /\ pm_trace[j].pkt # DISCARD}}

SamePayload(p, q) ==
  LET inside(hs) == [i \in 1 .. Len(hs) |->
                       IF "ttl" \in DOMAIN hs[i] THEN [hs[i] EXCEPT !.ttl = 0, !.src = 0, !.dst = 0] ELSE hs[i]]
  IN inside(p.hdrs) = inside(q.hdrs)

\* Taking a tunnel off gives back what was put into it: unmpls the very packet
\* tagmpls took, esp_dec and ipv6_decap the same IP packet, without padding and
\* never longer, whatever its length is modulo the block of the cipher.
TunnelsUndone ==
  /\ \A u \in Undone("tagmpls", "unmpls") :
       IF u[1].hdrs[1].k \in {"ip4", "ip6"} /\ u[1].etype = u[1].hdrs[1].k
       THEN u[2] = u[1] ELSE u[1].etype = "mpls" => u[2] = DISCARD
  /\ \A u \in Undone("ip6encap", "ip6decap") :
       u[2] # DISCARD => SamePayload(u[1], u[2]) /\ u[2].len = 14 + u[2].hdrs[1].len
  /\ \A u \in Undone("espenc", "espdec") :
       u[1].hdrs[1].ttl > 1 =>
         u[2] # DISCARD /\ SamePayload(u[1], u[2]) /\ u[2].len = 14 + u[2].hdrs[1].len
  /\ \A u \in Undone("decapnsh", "encapnsh") :
       IF NshAt(u[1]) = 0 THEN u[2] = u[1]
       ELSE u[2] = [u[1] EXCEPT !.hdrs[NshAt(u[1])].idx = IF @ > 0 THEN @ - 1 ELSE 0]

\* The type in front of a header is the type of that header, an IP header has the
\* protocol of what follows and only the last label is the bottom of the stack.
Describes(t, h) ==
  CASE t = "qinq" -> h.k = "vlan" [] t \in {"udp", "tcp"} -> h.k = "l4" [] t = "ipip" -> h.k = "ip4"
    [] OTHER -> h.k = t
IsRequest(h) == h.k = "icmp" /\ h.type = "request"
LayersMatch(p) ==
  /\ Describes(p.etype, p.hdrs[1])
  /\ \A i \in 1 .. Len(p.hdrs) - 1 :
       /\ p.hdrs[i].k = "vlan" => Describes(p.hdrs[i].type, p.hdrs[i + 1])
       /\ p.hdrs[i].k \in {"ip4", "ip6"} => Describes(p.hdrs[i].proto, p.hdrs[i + 1])
       /\ p.hdrs[i].k = "mpls" => (p.hdrs[i].bos <=> p.hdrs[i + 1].k # "mpls")

\* No mode makes a frame whose headers contradict each other, but for routing
\* and tagging of a packet that has tags or labels already, and for the answer to
\* an echo request that has some.
LayersDescribed ==
  \A s \in Steps :
    /\ s[3] # DISCARD /\ LayersMatch(s[1])
    /\ s[2] \in {"tagmpls", "route", "route mpls"} => s[1].hdrs[1].k \in {"ip4", "ip6"}
    /\ s[2] = "swap" => IsRequest(s[1].hdrs[2]) \/ ~(\E i \in 3 .. Len(s[1].hdrs) : IsRequest(s[1].hdrs[i]))
    => LayersMatch(s[3])

Flow(hs, i) == <<hs[i].src, hs[i + 1].sp, hs[i].dst, hs[i + 1].dp>>
Reversed(f) == <<f[3], f[4], f[1], f[2]>>
\* The outermost flow.
FlowsAt(hs) ==
  {i \in 1 .. Len(hs) - 1 : /\ hs[i].k \in {"ip4", "ip6"} /\ hs[i + 1].k = "l4"
                            /\ \A j \in 1 .. i : hs[j].k # "l4"}

\* swap answers the flow it finds, the outermost one or the one inside GRE, from
\* where it was sent to, and an echo request without tags or labels from the
\* local address to its source; and a pair of load balancers, one on the source
\* and one on the destination, give the flow and its answer to the same worker.
ReplyReturns ==
  \A s \in Steps : s[2] = "swap" /\ s[3] # DISCARD =>
    /\ s[1].hdrs # s[3].hdrs => \A i \in FlowsAt(s[1].hdrs) : Flow(s[3].hdrs, i) = Reversed(Flow(s[1].hdrs, i))
    /\ IsRequest(s[1].hdrs[2]) =>
         /\ s[3].hdrs[1] = [s[1].hdrs[1] EXCEPT !.src = Local, !.dst = s[1].hdrs[1].src]
         /\ s[3].hdrs[2].type = "reply" /\ s[3].d = s[1].s
    /\ \A i \in FlowsAt(s[1].hdrs) : i > 1 /\ s[1].hdrs[i - 1].k = "gre" =>
         s[3].hdrs[i - 2] = SwapIp(s[1].hdrs[i - 2])
    /\ s[1].hdrs[2].k = "l4" => /\ LbIpPort(s[1], 0) = LbIpPort(s[3], 1)
                                /\ LbPos(s[1], "src") = LbPos(s[3], "dst")

\* The three above: what the modes promise for every chain of them.
PacketModesSound == TunnelsUndone /\ LayersDescribed /\ ReplyReturns
=============================================================================
