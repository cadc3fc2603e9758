-------------------------------- MODULE Cgnat --------------------------------
(***************************************************************************)
(* handle_cgnat.c: the two tasks of a carrier-grade NAT, one for packets   *)
(* from the private side and one for their answers, on one core and with   *)
(* tables they share.  handle_nat.c is the same without ports: a table     *)
(* that is configured.                                                     *)
(*                                                                         *)
(* A flow is a private address and port.  The bulk lookups of a burst are  *)
(* all made before the first flow is added; then a step adds one packet's  *)
(* flow.  Nothing else runs on the core before the burst is done.          *)
(***************************************************************************)
EXTENDS Integers, Sequences, SequencesExt, FiniteSets

CONSTANTS CgPrivate,    \* private addresses
          CgPorts,      \* private ports
          CgPublicIps,  \* number of public addresses: dynamic[] of the configuration
          CgPublicPorts,\* number of their ports
          CgStatic,     \* static_ip_port[]: flow to public address and port
          CgRefusing,   \* tables whose rte_hash_add_key may refuse a new key
          CgBurst,      \* bound on the length of a burst
          CgSteps       \* bound on the bursts

\* private_ip_hash, private_ip_port_hash, public_ip_port_hash.
CgHashes == {"address", "flow", "answer"}

ASSUME CgAssumption ==
  /\ CgRefusing \subseteq CgHashes
  /\ CgPublicIps \in Nat \ {0}
  /\ CgPublicPorts \in Nat
  \* "list of static ip/port mapping overlap with list of dynamic IP"
  /\ \A f \in DOMAIN CgStatic : CgStatic[f][1] \notin 1 .. CgPublicIps
  \* "Key already exists in NAT public hash table"
  /\ \A f, g \in DOMAIN CgStatic : CgStatic[f] = CgStatic[g] => f = g

VARIABLES
  cg_flows,   \* private_ip_port_hash, private_flow_entries: flow -> public address and port
  cg_public,  \* public_ip_port_hash, public_entries: public address and port -> flow
  cg_ips,     \* private_ip_hash, private_ip_info: private address -> public_ip_idx, public_ip
  cg_free,    \* port_list[0 .. port_free_count) of every public address
  cg_last,    \* last_ip
  cg_stranded,\* history: the flows whose key public_ip_port_hash refused
  cg_todo,    \* the packets of the burst whose flow the lookup did not find: keys[map[k]]
  cg_found,   \* positions[]: the private addresses the second lookup finds
  cg_sent,    \* what became of the packets of the last burst, and the side it came from
  cg_steps
cg_tables == <<cg_flows, cg_public, cg_ips, cg_free, cg_last, cg_stranded>>
cg_vars == <<cg_tables, cg_todo, cg_found, cg_sent, cg_steps>>

Flows == CgPrivate \X CgPorts
Dropped == <<-1, -1>>
\* rte_hash_add_key, and the entry at the index it returns.
Entered(table, key, entry) ==
  [x \in DOMAIN table \cup {key} |-> IF x = key THEN entry ELSE table[x]]

\* private_ip_info of an address that only has static ports: zero, as allocated.
Zeroed == [idx |-> 1, ip |-> 0]

\* lua_to_hash_nat: the ports of a dynamic address are all free; every static
\* flow is entered in both tables, and its address in private_ip_hash.  An entry
\* of static_ip is read but is not entered anywhere.
CgInit ==
  /\ cg_flows = CgStatic
  /\ cg_public = [e \in {CgStatic[f] : f \in DOMAIN CgStatic} |-> CHOOSE f \in DOMAIN CgStatic : CgStatic[f] = e]
  /\ cg_ips = [ip \in {f[1] : f \in DOMAIN CgStatic} |-> Zeroed]
  /\ cg_free = [i \in 1 .. CgPublicIps |-> [k \in 1 .. CgPublicPorts |-> k]]
  /\ cg_last = CgPublicIps + 1 /\ cg_stranded = {}
  /\ cg_todo = <<>> /\ cg_found = {} /\ cg_sent = <<>> /\ cg_steps = 0

----------------------------------------------------------------------------
\* get_new_ip: the next address after last_ip that has a free port, around.
NewIp(free, last) ==
  LET start == IF last + 1 > CgPublicIps THEN 1 ELSE last + 1
      rank(i) == (i - start) % CgPublicIps
      ok == {i \in 1 .. CgPublicIps : free[i] # <<>>}
  IN IF ok = {} THEN [idx |-> 0, last |-> start]
     ELSE LET i == CHOOSE i \in ok : \A j \in ok : rank(i) <= rank(j) IN [idx |-> i, last |-> i]

\* get_new_port takes the last free port; release_port puts it back.
PortOf_first(i) == Head(cg_free[i])
PortOf(i) == Last(cg_free[i])
LessOne(i) == [cg_free EXCEPT ![i] = Front(@)]
Released(free, i, port) ==
  IF Len(free[i]) < CgPublicPorts THEN [free EXCEPT ![i] = Append(@, port)] ELSE free

Sent(f, to) == cg_sent' = Append(cg_sent, <<"private", f, to>>)

\* add_new_port_entry for a flow at the public address of index idx.  A port is
\* taken first; it is given back when a table refuses its key, and stays in *port
\* when the flow is there already, by an earlier packet of the same burst.
NoPort(f, idx) ==
  /\ cg_free[idx] = <<>>
  /\ Sent(f, Dropped)
  /\ UNCHANGED <<cg_flows, cg_public, cg_free, cg_stranded>>

GiveBack(idx) == cg_free' = Released(LessOne(idx), idx, PortOf(idx))

FlowRefused(f, idx) ==
  /\ cg_free[idx] # <<>> /\ f \notin DOMAIN cg_flows /\ "flow" \in CgRefusing
  /\ GiveBack(idx) /\ Sent(f, Dropped)
  /\ UNCHANGED <<cg_flows, cg_public, cg_stranded>>

\* "TODO: remove from private_ip_port_hash": the flow keeps a port it does not have.
AnswerRefused(f, idx) ==
  /\ cg_free[idx] # <<>> /\ f \notin DOMAIN cg_flows /\ "answer" \in CgRefusing
  /\ cg_flows' = Entered(cg_flows, f, <<idx, PortOf(idx)>>)
  /\ cg_stranded' = cg_stranded \cup {f}
  /\ GiveBack(idx) /\ Sent(f, Dropped)
  /\ UNCHANGED cg_public

PortGivenBack(f, idx, ip) ==
  /\ cg_free[idx] # <<>> /\ f \in DOMAIN cg_flows
  /\ GiveBack(idx)
  /\ Sent(f, <<ip, PortOf(idx)>>)
  /\ UNCHANGED <<cg_flows, cg_public, cg_stranded>>

PortAdded(f, idx, ip) ==
  /\ cg_free[idx] # <<>> /\ f \notin DOMAIN cg_flows
  /\ cg_free' = LessOne(idx)
  /\ cg_flows' = Entered(cg_flows, f, <<idx, PortOf(idx)>>)
  /\ cg_public' = Entered(cg_public, <<idx, PortOf(idx)>>, f)
  /\ Sent(f, <<ip, PortOf(idx)>>)
  /\ UNCHANGED cg_stranded

\* It returns -1, or an index: the packet then leaves from ip.
NotAdded(f, idx) == NoPort(f, idx) \/ FlowRefused(f, idx) \/ AnswerRefused(f, idx)
Added(f, idx, ip) == PortGivenBack(f, idx, ip) \/ PortAdded(f, idx, ip)
AddPort(f, idx, ip) == NotAdded(f, idx) \/ Added(f, idx, ip)

\* An address that an earlier packet of the burst added has its public address.
There(ip) == ip \in DOMAIN cg_ips /\ cg_ips[ip].ip # 0

\* Was the address found?  It is looked up before the burst's first flow is added.
Known_never(ip) == FALSE
Known(ip) == ip \in cg_found

\* The lookup found the address of the packet: it keeps its public address.
FlowOfKnown(f) ==
  /\ Known(f[1])
  /\ AddPort(f, cg_ips[f[1]].idx, cg_ips[f[1]].ip)
  /\ UNCHANGED <<cg_ips, cg_last>>

\* It did not: a public address is sought, which an address that an earlier packet
\* of the burst added has no use for.
NoAddress(f) ==
  LET new == NewIp(cg_free, cg_last) IN
  /\ ~Known(f[1]) /\ new.idx = 0
  /\ cg_last' = new.last
  /\ Sent(f, Dropped)
  /\ UNCHANGED <<cg_flows, cg_public, cg_free, cg_ips, cg_stranded>>

AddressRefused(f) ==
  LET new == NewIp(cg_free, cg_last) IN
  /\ ~Known(f[1]) /\ new.idx # 0 /\ f[1] \notin DOMAIN cg_ips /\ "address" \in CgRefusing
  /\ cg_last' = new.last
  /\ Sent(f, Dropped)
  /\ UNCHANGED <<cg_flows, cg_public, cg_free, cg_ips, cg_stranded>>

FlowOfAdded(f) ==
  LET new == NewIp(cg_free, cg_last) IN
  /\ ~Known(f[1]) /\ new.idx # 0 /\ There(f[1])
  /\ cg_last' = new.last
  /\ AddPort(f, cg_ips[f[1]].idx, cg_ips[f[1]].ip)
  /\ UNCHANGED cg_ips

\* last_ip goes one back when the flow was not added; the address stays.
FlowOfNew(f) ==
  LET new == NewIp(cg_free, cg_last)
      back == IF new.last > 1 THEN new.last - 1 ELSE CgPublicIps
  IN /\ ~Known(f[1]) /\ new.idx # 0 /\ ~There(f[1])
     /\ cg_ips' = Entered(cg_ips, f[1], [idx |-> new.idx, ip |-> new.idx])
     /\ \/ NotAdded(f, new.idx) /\ cg_last' = back
        \/ Added(f, new.idx, new.idx) /\ cg_last' = new.last

\* handle_nat_bulk, private: flows that are known are rewritten, the addresses of
\* the others are looked up, and then they are added one by one.
CgPrivateBurst ==
  /\ cg_todo = <<>> /\ cg_steps < CgSteps /\ cg_steps' = cg_steps + 1
  /\ \E m, n \in 0 .. CgBurst :
       /\ m + n \in 1 .. CgBurst
       /\ \E known \in [1 .. m -> DOMAIN cg_flows], new \in [1 .. n -> Flows \ DOMAIN cg_flows] :
            /\ cg_sent' = [k \in 1 .. m |-> <<"private", known[k], cg_flows[known[k]]>>]
            /\ cg_todo' = new
  /\ cg_found' = DOMAIN cg_ips
  /\ UNCHANGED cg_tables

CgNewFlow ==
  /\ cg_todo # <<>> /\ cg_todo' = Tail(cg_todo)
  /\ LET f == Head(cg_todo) IN
       FlowOfKnown(f) \/ NoAddress(f) \/ AddressRefused(f) \/ FlowOfAdded(f) \/ FlowOfNew(f)
  /\ UNCHANGED <<cg_found, cg_steps>>

\* The answers: looked up, rewritten or dropped; no table changes.
CgPublicBurst ==
  /\ cg_todo = <<>>
  /\ \E a \in DOMAIN cg_public \cup {<<1, 0>>} :
       cg_sent' = <<<<"public", a, IF a \in DOMAIN cg_public THEN cg_public[a] ELSE Dropped>>>>
  /\ UNCHANGED <<cg_tables, cg_todo, cg_found, cg_steps>>

CgNext == CgPrivateBurst \/ CgNewFlow \/ CgPublicBurst

CgSpec == CgInit /\ [][CgNext]_cg_vars

----------------------------------------------------------------------------
\* The flows whose keys both tables took.
Mapped == DOMAIN cg_flows \ cg_stranded

\* Each table undoes the other, static flows included: no two flows share a
\* public address and port, whichever of them came in the same burst.  Only a flow
\* whose key the table of answers refused has no answers.
TablesInverse ==
  /\ \A f \in Mapped : cg_flows[f] \in DOMAIN cg_public /\ cg_public[cg_flows[f]] = f
  /\ \A e \in DOMAIN cg_public : cg_public[e] \in Mapped /\ cg_flows[cg_public[e]] = e

\* Every port of a public address is free once or used by one flow: what the tables
\* refuse loses no port.
PortsAccounted ==
  \A i \in 1 .. CgPublicIps : \A port \in 1 .. CgPublicPorts :
    Cardinality({k \in DOMAIN cg_free[i] : cg_free[i][k] = port})
      + Cardinality({f \in Mapped : cg_flows[f] = <<i, port>>}) = 1

\* A flow keeps its public address and port, and a private address its public one.
FlowsKept ==
  /\ \A f \in DOMAIN cg_flows : f \in DOMAIN cg_flows' /\ cg_flows'[f] = cg_flows[f]
  /\ \A ip \in DOMAIN cg_ips : ip \in DOMAIN cg_ips' /\ cg_ips'[ip] = cg_ips[ip]
FlowsStable == [][FlowsKept]_cg_vars

\* What packet i of the burst was sent with leads its answer back.
LedBack(i) ==
  LET f == cg_sent[i][2]  to == cg_sent[i][3] IN
    \/ cg_sent[i][1] = "public" \/ to = Dropped
    \/ to \in DOMAIN cg_public /\ cg_public[to] = f

\* The packets whose answers go astray: the first of a new flow from an address with
\* a static port, which is sent from 0, and those of a flow that stayed in one table
\* when the other refused it ("TODO: remove from private_ip_port_hash",
\* add_new_port_entry).
Astray(i) ==
  LET f == cg_sent[i][2] IN
    \/ f[1] \in {g[1] : g \in DOMAIN CgStatic} /\ cg_sent[i][3][1] = 0
    \/ f \in cg_stranded

\* A later packet of a flow that is new in this burst: it carries a port that was
\* given back, in spite of "Race condition properly handled: port alrerady added"
\* (add_new_port_entry).
Repeated(i) ==
  \E k \in 1 .. i - 1 : cg_sent[k][2] = cg_sent[i][2] /\ cg_sent[k][3] # Dropped

\* These apart, what a packet was sent with leads its answer back.
AnswersReach == \A i \in DOMAIN cg_sent : LedBack(i) \/ Astray(i) \/ Repeated(i)

\* The tables agree with each other and with the free ports, and answers return.
CgnatSound == TablesInverse /\ PortsAccounted /\ AnswersReach

----------------------------------------------------------------------------
(***************************************************************************)
(* An inductive invariant: what the tables and the free ports hold, and    *)
(* what the packets of the burst that are left may rely on.                *)
(***************************************************************************)
StaticIps == {f[1] : f \in DOMAIN CgStatic}
PublicIps == 1 .. CgPublicIps
PublicPorts == 1 .. CgPublicPorts

\* Flows and public entries, and what a packet may be sent with.
Ends == Flows \cup DOMAIN CgStatic \cup {CgStatic[f] : f \in DOMAIN CgStatic}
          \cup ((0 .. CgPublicIps) \X (0 .. CgPublicPorts)) \cup {Dropped}

CgTypeOK ==
  /\ DOMAIN cg_flows \subseteq Ends /\ DOMAIN cg_public \subseteq Ends
  /\ \A f \in DOMAIN cg_flows : cg_flows[f] \in Ends
  /\ cg_stranded \subseteq DOMAIN cg_flows
  /\ cg_free \in [PublicIps -> Seq(PublicPorts)] /\ cg_last \in 1 .. CgPublicIps + 1
  /\ cg_todo \in Seq(Flows)
  /\ cg_sent \in Seq({"private", "public"} \X Ends \X Ends)

\* A private address has the public one of its index, or only static ports.
AddressesKnown ==
  \A ip \in DOMAIN cg_ips :
    /\ cg_ips[ip].idx \in PublicIps
    /\ cg_ips[ip].ip = cg_ips[ip].idx \/ (cg_ips[ip].ip = 0 /\ ip \in StaticIps)

\* A port is in the list of its address once, or an entry of the table of answers.
PortsListed ==
  \A i \in PublicIps :
    /\ Len(cg_free[i]) <= CgPublicPorts
    /\ \A k, l \in DOMAIN cg_free[i] : cg_free[i][k] = cg_free[i][l] => k = l
    /\ \A port \in PublicPorts :
         <<i, port>> \in DOMAIN cg_public <=> ~ \E k \in DOMAIN cg_free[i] : cg_free[i][k] = port

\* While a burst is handled: an address with static ports only was found, and a
\* flow that is there now was sent by an earlier packet of the burst or is stranded.
BurstLeft ==
  /\ cg_found \subseteq DOMAIN cg_ips
  /\ cg_todo # <<>> => \A ip \in DOMAIN cg_ips : cg_ips[ip].ip = 0 => ip \in cg_found
  /\ \A k \in DOMAIN cg_todo : cg_todo[k] \in Mapped =>
       \E j \in DOMAIN cg_sent : cg_sent[j][2] = cg_todo[k] /\ cg_sent[j][3] # Dropped

CgInv == /\ CgTypeOK /\ TablesInverse /\ AnswersReach
         /\ AddressesKnown /\ PortsListed /\ BurstLeft
=============================================================================
