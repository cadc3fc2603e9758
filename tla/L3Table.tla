------------------------------ MODULE L3Table ------------------------------
(***************************************************************************)
(* What a task in L3 mode knows about its neighbours: the gateway, the     *)
(* next hops of its routes, and the table of addresses, which is searched  *)
(* linearly while it is short and through a hash afterwards                *)
(* (write_dst_mac, write_ip6_dst_mac), and the messages of the master that *)
(* change all of it (handle_ctrl_plane_pkts).                              *)
(*                                                                         *)
(* An entry stands for a struct arp_table.  Its two deadlines are kept as  *)
(* what the code asks of them: "quiet" says that the retransmission time   *)
(* has not come, "fresh" that the MAC address has not timed out.  The MAC  *)
(* address of a neighbour is represented by its IP address.                *)
(***************************************************************************)
EXTENDS Integers, Sequences, FiniteSets

CONSTANTS
  L3Kinds,   \* "routes": ipv4_lpm is set; "gateway": gw.ip is; "table"; "ip6"
  Ips,       \* addresses of neighbours
  Local6,    \* those with the prefix of local_ipv6
  OptSize,   \* entries of optimized_arp_table: 4
  ENOENT,    \* what rte_hash_lookup returns, negated, for an unknown key: 2
  MaxHops    \* MAX_HOP_INDEX

NoIp == "0.0.0.0"

ASSUME L3TableAssumption ==
  /\ L3Kinds \subseteq {"routes", "gateway", "table", "ip6"}
  /\ IsFiniteSet(Ips) /\ NoIp \notin Ips /\ Local6 \subseteq Ips
  /\ OptSize \in Nat \ {0} /\ MaxHops \in Nat \ {0, 1}
  /\ ENOENT \in 0 .. OptSize

\* Where a struct arp_table is: l3.gw, next_hops[], optimized_arp_table[] and
\* arp_table[], the last three indexed from 1; the hash has room for every address.
Gw == <<"gw", 1>>
HopAt(i) == <<"hop", i>>
OptAt(i) == <<"opt", i>>
SlotAt(i) == <<"slot", i>>
New == <<"new", 0>>
Refs == {Gw} \cup {HopAt(i) : i \in 1 .. MaxHops} \cup {OptAt(i) : i \in 1 .. OptSize}
             \cup {SlotAt(i) : i \in 1 .. Cardinality(Ips)}

VARIABLES
  l3_kind,    \* which of the tables the configuration uses
  arp,        \* the struct arp_table at each place
  n_pkts,     \* used entries of optimized_arp_table
  ip_hash,    \* the keys of the hash, in the order of their positions
  nb_gws,     \* used entries of next_hops
  lpm,        \* the route of each address: an index of next_hops, or 0
  mac_known,  \* FLAG_DST_MAC_KNOWN in l3.flags
  asked,      \* addresses a request was sent for
  waiting,    \* those with a request the retransmission time of which runs
  former_gw,  \* gateways replaced by task_set_gateway_ip
  l3_sent     \* what became of the last packet

l3_vars == <<l3_kind, arp, n_pkts, ip_hash, nb_gws, lpm, mac_known,
             asked, waiting, former_gw, l3_sent>>
l3_config == <<l3_kind, mac_known, lpm, nb_gws, former_gw>>

\* What prox_zmalloc leaves; nh is 0, the first next hop.
NoHop == 0  \* MAX_HOP_INDEX as nh
ZeroEntry == [ip |-> NoIp, mac |-> NoIp, quiet |-> FALSE, fresh |-> FALSE, nh |-> 1]

\* The packet went to the next hop "to" with this MAC address, or nowhere; a
\* request was sent for "early" while one was out already.
Idle == [to |-> NoIp, mac |-> NoIp, routed |-> FALSE, early |-> NoIp]

\* task_init_l3, task_start_l3: the table is empty; a routing table has one
\* gateway, the first next hop, and direct routes, whose hop has no address.
\* Every route is one to a single address.
L3Init ==
  /\ l3_kind \in L3Kinds
  /\ \E g \in Ips :
       /\ arp = [r \in Refs |-> IF r = IF l3_kind = "routes" THEN HopAt(1) ELSE Gw
                                THEN [ZeroEntry EXCEPT !.ip = g] ELSE ZeroEntry]
       /\ lpm = [ip \in Ips |-> IF l3_kind # "routes" THEN 0 ELSE IF ip = g THEN 1 ELSE 2]
  /\ nb_gws = IF l3_kind = "routes" THEN 2 ELSE 0
  /\ n_pkts = 0 /\ ip_hash = <<>>
  /\ mac_known = FALSE
  /\ asked = {} /\ waiting = {} /\ former_gw = {}
  /\ l3_sent = Idle

\* rte_hash_lookup; New for -ENOENT.
Position(ip) ==
  IF \E i \in 1 .. Len(ip_hash) : ip_hash[i] = ip
  THEN SlotAt(CHOOSE i \in 1 .. Len(ip_hash) : ip_hash[i] = ip)
  ELSE New
\* rte_hash_add_key: where the key is then, and the keys.
Added(ip) == IF Position(ip) = New THEN SlotAt(Len(ip_hash) + 1) ELSE Position(ip)
Hashed(ip) == IF Position(ip) = New THEN Append(ip_hash, ip) ELSE ip_hash

Linear(ip) ==
  IF \E i \in 1 .. n_pkts : arp[OptAt(i)].ip = ip
  THEN OptAt(CHOOSE i \in 1 .. n_pkts : arp[OptAt(i)].ip = ip)
  ELSE New
Searched(ip) == IF n_pkts < OptSize THEN Linear(ip) ELSE Position(ip)

-----------------------------------------------------------------------------
(***************************************************************************)
(* write_dst_mac and write_ip6_dst_mac.                                    *)
(***************************************************************************)

Routed(ip) == l3_kind = "routes" /\ lpm[ip] # 0 /\ arp[HopAt(lpm[ip])].ip # NoIp

\* The next hop of a packet for ip, and the entry that describes it.
Hop(ip) ==
  CASE Routed(ip) -> arp[HopAt(lpm[ip])].ip
    [] l3_kind = "gateway" \/ (l3_kind = "ip6" /\ ip \notin Local6) -> arp[Gw].ip
    [] OTHER -> ip
Ref(ip) ==
  CASE Routed(ip) -> HopAt(lpm[ip])
    [] l3_kind = "routes" /\ ~ Routed(ip) -> Position(ip)
    [] l3_kind = "gateway" -> Gw
    [] OTHER -> Searched(Hop(ip))

Usable(r) == arp[r].fresh /\ (r = Gw => mac_known)

\* A packet sent with the MAC address of entry r, and a request for ip.
Early(ip, r) ==
  IF (r = New \/ ~ arp[r].quiet) /\ Hop(ip) \in waiting THEN Hop(ip) ELSE NoIp
Transmit(ip, r) ==
  l3_sent' = [to |-> Hop(ip), mac |-> arp[r].mac, routed |-> Routed(ip), early |-> Early(ip, r)]
Keep(ip, r) == l3_sent' = [Idle EXCEPT !.early = Early(ip, r)]
Ask(ip) == asked' = asked \cup {ip} /\ waiting' = waiting \cup {ip}

\* update_mac_and_send_mbuf, and the same choices for the gateway and IPv6:
\* SEND_MBUF or DROP_MBUF until the retransmission time, then with a request.
update_mac_and_send_mbuf(ip, r) ==
  /\ IF Usable(r) THEN Transmit(ip, r) ELSE Keep(ip, r)
  /\ IF arp[r].quiet
     THEN UNCHANGED <<arp, asked, waiting>>
     ELSE arp' = [arp EXCEPT ![r].quiet = TRUE] /\ Ask(Hop(ip))
  /\ UNCHANGED <<n_pkts, ip_hash>>

\* Mutants: entries move by one place; the copy starts at the second entry.
CopiedShifted(table) ==
  [r \in Refs |-> IF r[1] = "slot" /\ r[2] <= OptSize THEN table[OptAt((r[2] % OptSize) + 1)] ELSE table[r]]
CopiedButFirst(table) ==
  [r \in Refs |-> IF r[1] = "slot" /\ r[2] \in 2 .. OptSize THEN table[OptAt(r[2])] ELSE table[r]]
\* The linear table is full: all its entries move to the hash.
Copied(table) ==
  [r \in Refs |-> IF r[1] = "slot" /\ r[2] <= OptSize THEN table[OptAt(r[2])] ELSE table[r]]

\* An entry for the address that a request was sent for.
Named(e, ip, started, nh) == [e EXCEPT !.ip = ip, !.quiet = started, !.nh = nh]

\* An unknown address gets an entry in the linear table.  The retransmission
\* time of IPv6 starts before that table may be copied; for IPv4 it is started
\* when the request was sent, through the pointer *time to the linear entry.
add_linear(ip) ==
  LET r == OptAt(n_pkts + 1)
      noted == [arp EXCEPT ![r] = Named(@, ip, l3_kind = "ip6", @.nh)]
      full == n_pkts + 1 = OptSize
  IN /\ n_pkts' = n_pkts + 1
     /\ ip_hash' = IF full THEN [i \in 1 .. OptSize |-> noted[OptAt(i)].ip] ELSE ip_hash
     /\ arp' = [(IF full THEN Copied(noted) ELSE noted) EXCEPT ![r].quiet = TRUE]

\* add_key_and_send_arp gets the array "entries" to put the entry in; without
\* a routing table write_dst_mac passes &arp_table[ret], ret being -ENOENT.
StartedAt(pos) == IF l3_kind = "table" THEN pos - ENOENT ELSE pos

add_hashed(ip) ==
  LET r == SlotAt(StartedAt(Len(ip_hash) + 1)) IN
  /\ ip_hash' = Append(ip_hash, ip)
  /\ arp' = [arp EXCEPT ![r] = Named(@, ip, TRUE, IF l3_kind = "ip6" THEN @.nh ELSE NoHop)]
  /\ UNCHANGED n_pkts

\* tx_pkt_l3, tx_pkt_ndp, for one packet.
Send(ip) ==
  /\ IF l3_kind = "routes" /\ lpm[ip] = 0
     THEN l3_sent' = Idle /\ UNCHANGED <<arp, n_pkts, ip_hash, asked, waiting>>
     ELSE IF Ref(ip) # New THEN update_mac_and_send_mbuf(ip, Ref(ip))
     ELSE /\ Keep(ip, New) /\ Ask(Hop(ip))
          /\ IF l3_kind # "routes" /\ n_pkts < OptSize
             THEN add_linear(Hop(ip)) ELSE add_hashed(Hop(ip))
  /\ UNCHANGED l3_config

-----------------------------------------------------------------------------
(***************************************************************************)
(* handle_ctrl_plane_pkts, for one message of a call.  Answers may be lost *)
(* on their way, may come late and more than once; so nothing is added by  *)
(* the branches that return and lose the rest of the messages of the call. *)
(***************************************************************************)

\* The entry that gets the MAC address of ip.  A next hop is found through nh
\* of the entry for its address.
LearntAt(ip) ==
  CASE l3_kind = "routes" -> IF arp[Added(ip)].nh # NoHop THEN HopAt(arp[Added(ip)].nh) ELSE Added(ip)
    [] l3_kind = "gateway" /\ ip = arp[Gw].ip -> Gw
    [] l3_kind # "routes" /\ (l3_kind = "gateway" => ip # arp[Gw].ip) /\ n_pkts < OptSize -> Linear(ip)
    [] OTHER -> Added(ip)

Learnt(e, ip) == [e EXCEPT !.mac = ip, !.fresh = TRUE, !.quiet = (l3_kind = "ip6" => @)]
mac_info(ip) ==
  LET r == LearntAt(ip) IN
  /\ arp' = IF r = New THEN arp
            ELSE [arp EXCEPT ![r] = Learnt(@, ip)]
  /\ ip_hash' = IF l3_kind = "routes" \/ r[1] = "slot" THEN Hashed(ip) ELSE ip_hash
  /\ mac_known' = (mac_known \/ r = Gw)
  /\ UNCHANGED <<n_pkts, nb_gws, lpm, asked, waiting>>

\* reset_arp_ndp_retransmit_timeout: the kernel has dropped the address.
mac_timeout(ip) ==
  LET r == CASE l3_kind = "routes" -> Position(ip)
             [] l3_kind = "gateway" /\ ip = arp[Gw].ip -> Gw
             [] OTHER -> Searched(ip)
  IN /\ arp' = IF r = New THEN arp ELSE [arp EXCEPT ![r].quiet = FALSE]
     /\ waiting' = waiting \ {ip}
     /\ UNCHANGED <<n_pkts, ip_hash, nb_gws, lpm, mac_known, asked>>

\* get_nh_index
HopsTo(g) == {i \in 1 .. nb_gws : arp[HopAt(i)].ip = g}
route_add(ip, g) ==
  /\ \/ /\ HopsTo(g) # {}
        /\ lpm' = [lpm EXCEPT ![ip] = CHOOSE i \in HopsTo(g) : \A j \in HopsTo(g) : i <= j]
        /\ UNCHANGED <<arp, nb_gws>>
     \/ /\ HopsTo(g) = {} /\ nb_gws < MaxHops
        /\ nb_gws' = nb_gws + 1
        /\ arp' = [arp EXCEPT ![HopAt(nb_gws + 1)].ip = g]
        /\ lpm' = [lpm EXCEPT ![ip] = nb_gws + 1]
     \/ /\ HopsTo(g) = {} /\ nb_gws = MaxHops
        /\ UNCHANGED <<arp, nb_gws, lpm>>
  /\ UNCHANGED <<n_pkts, ip_hash, mac_known, asked, waiting>>

route_del(ip) ==
  /\ lpm' = [lpm EXCEPT ![ip] = 0]
  /\ UNCHANGED <<arp, n_pkts, ip_hash, nb_gws, mac_known, asked, waiting>>

handle_ctrl_plane_pkts(ip) ==
  /\ \/ ip \in asked /\ (mac_info(ip) \/ mac_timeout(ip))
     \/ l3_kind = "routes" /\ (route_del(ip) \/ \E g \in Ips : route_add(ip, g))
  /\ l3_sent' = Idle
  /\ UNCHANGED <<l3_kind, former_gw>>

\* "set gateway ip" (task_set_gateway_ip), from the master; the flag it clears
\* is one of the task, not FLAG_DST_MAC_KNOWN of l3.flags.
SetGateway(ip) ==
  /\ l3_kind = "gateway" /\ ip # arp[Gw].ip
  /\ former_gw' = former_gw \cup {arp[Gw].ip}
  /\ arp' = [arp EXCEPT ![Gw].ip = ip]
  /\ l3_sent' = Idle /\ waiting' = {}
  /\ UNCHANGED <<l3_kind, n_pkts, ip_hash, nb_gws, lpm, mac_known, asked>>

\* The address an entry is used for.
Owner(r) == IF r[1] = "slot" THEN ip_hash[r[2]] ELSE arp[r].ip
InUse(r) ==
  CASE r[1] = "gw" -> l3_kind = "gateway" [] r[1] = "hop" -> r[2] <= nb_gws
    [] r[1] = "opt" -> r[2] <= n_pkts /\ n_pkts < OptSize [] OTHER -> r[2] <= Len(ip_hash)

\* The retransmission time of an entry comes, or its MAC address times out.
TimePasses(r) ==
  /\ InUse(r) /\ l3_sent' = Idle
  /\ \/ arp[r].quiet /\ arp' = [arp EXCEPT ![r].quiet = FALSE] /\ waiting' = waiting \ {Owner(r)}
     \/ arp[r].fresh /\ arp' = [arp EXCEPT ![r].fresh = FALSE] /\ UNCHANGED waiting
  /\ UNCHANGED <<l3_config, n_pkts, ip_hash, asked>>

L3Next ==
  \/ \E ip \in Ips : Send(ip) \/ handle_ctrl_plane_pkts(ip) \/ SetGateway(ip)
  \/ \E r \in Refs : TimePasses(r)

L3Spec == L3Init /\ [][L3Next]_l3_vars

-----------------------------------------------------------------------------
(***************************************************************************)
(* Properties.                                                             *)
(***************************************************************************)

\* A packet is sent with the MAC address of its own next hop, and never with
\* one that was not learnt.
RoutesRightMac == l3_sent.mac = l3_sent.to

\* The same, but for the next hops of routes, where it fails, and for a
\* gateway replaced by command, whose MAC address is still used.
RightMac ==
  \/ l3_sent.mac \in {l3_sent.to} \cup former_gw
  \/ l3_sent.routed /\ l3_sent.mac # NoIp

\* An address, once resolved, stays so until it times out: neither other
\* addresses, nor their answers, nor the move from the linear table to the
\* hash make the task forget it.
Resolved(ip) == Ref(ip) # New /\ Usable(Ref(ip))
ResolvedStays ==
  [][lpm' = lpm /\ ~ (\E r \in Refs : TimePasses(r)) => \A ip \in Ips : Resolved(ip) => Resolved(ip)']_l3_vars

\* A task does not ask for an address again before the retransmission time, as
\* long as its addresses fit the linear table or are kept by a gateway, by routes
\* or for IPv6.  An address that is the next hop of a route and also on a direct
\* one has two entries, and is asked for by each.
RequestsPaced ==
  l3_sent.early # NoIp =>
    \/ l3_kind = "table" /\ n_pkts = OptSize
    \/ l3_kind = "routes" /\ HopsTo(l3_sent.early) # {}

\* Both of these, of every packet that is sent or kept back.
AddressesSound == RightMac /\ RequestsPaced

-----------------------------------------------------------------------------
(***************************************************************************)
(* An inductive invariant: which of the tables hold what, and what the     *)
(* entries say about the addresses they are used for.                      *)
(***************************************************************************)
ArpEntries == [ip : Ips \cup {NoIp}, mac : Ips \cup {NoIp}, quiet : BOOLEAN, fresh : BOOLEAN, nh : {NoHop, 1}]

L3TypeOK ==
  /\ l3_kind \in {"routes", "gateway", "table", "ip6"}
  /\ arp \in [Refs -> ArpEntries]
  /\ n_pkts \in 0 .. OptSize /\ ip_hash \in Seq(Ips)
  /\ nb_gws \in 0 .. MaxHops /\ lpm \in [Ips -> 0 .. MaxHops]
  /\ mac_known \in BOOLEAN
  /\ asked \subseteq Ips /\ waiting \subseteq Ips /\ former_gw \subseteq Ips

\* Next hops are used with routes only, the linear table without routes and
\* gateway, the hash then once that table is full; a gateway has an address.
TablesUsed ==
  /\ \A ip \in Ips : lpm[ip] <= nb_gws
  /\ l3_kind # "routes" => nb_gws = 0 /\ arp[Gw].ip \in Ips
  /\ l3_kind \in {"routes", "gateway"} => n_pkts = 0
  /\ l3_kind # "routes" /\ n_pkts < OptSize => ip_hash = <<>>

\* An address has one entry of the linear table, and one position in the hash.
EntriesDistinct ==
  /\ \A i, j \in 1 .. n_pkts : arp[OptAt(i)].ip \in Ips /\ (arp[OptAt(i)].ip = arp[OptAt(j)].ip => i = j)
  /\ \A i, j \in 1 .. Len(ip_hash) : ip_hash[i] = ip_hash[j] => i = j

\* A MAC address that has not timed out is the one of the address the entry is used
\* for; a gateway's may be a former one's, and a next hop's anybody's.
FreshRight ==
  /\ \A i \in 1 .. MaxHops : arp[HopAt(i)].fresh => arp[HopAt(i)].mac # NoIp
  /\ l3_kind = "gateway" /\ arp[Gw].fresh => arp[Gw].mac \in {arp[Gw].ip} \cup former_gw
  /\ \A i \in 1 .. OptSize : arp[OptAt(i)].fresh => i <= n_pkts /\ arp[OptAt(i)].mac = arp[OptAt(i)].ip
  /\ \A i \in 1 .. Cardinality(Ips) :
       arp[SlotAt(i)].fresh => i <= Len(ip_hash) /\ arp[SlotAt(i)].mac = ip_hash[i]

\* An address that was asked for has an entry the retransmission time of which runs,
\* but for those whose time is started in another's entry.
WaitsQuiet ==
  ~ (l3_kind = "table" /\ n_pkts = OptSize) =>
    \A ip \in waiting : \E r \in Refs : InUse(r) /\ Owner(r) = ip /\ arp[r].quiet

L3Inv == /\ L3TypeOK /\ TablesUsed /\ EntriesDistinct /\ FreshRight /\ WaitsQuiet
         /\ RightMac /\ RequestsPaced

=============================================================================
