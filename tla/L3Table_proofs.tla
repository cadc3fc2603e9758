--------------------------- MODULE L3Table_proofs ---------------------------
(***************************************************************************)
(* Proofs about the addresses a task in L3 mode knows: packets go to the   *)
(* MAC address of their next hop, requests are paced, and an address stays *)
(* resolved, for any number of addresses and sizes of the tables.          *)
(***************************************************************************)
EXTENDS L3Table, NumberLemmas, FiniteSetTheorems, SequenceTheorems, TLAPS

-----------------------------------------------------------------------------
(***************************************************************************)
(* Places and positions.                                                   *)
(***************************************************************************)

\* The kinds of places, and their indices.
LEMMA RefKinds ==
  /\ \A r \in Refs : \/ r = Gw /\ r[1] = "gw"
                     \/ \E i \in 1 .. MaxHops : r = HopAt(i) /\ r[1] = "hop" /\ r[2] = i
                     \/ \E i \in 1 .. OptSize : r = OptAt(i) /\ r[1] = "opt" /\ r[2] = i
                     \/ \E i \in 1 .. Cardinality(Ips) : r = SlotAt(i) /\ r[1] = "slot" /\ r[2] = i
  /\ Gw \in Refs /\ New \notin Refs
  /\ \A i \in 1 .. MaxHops : HopAt(i) \in Refs
  /\ \A i \in 1 .. OptSize : OptAt(i) \in Refs
  /\ \A i \in 1 .. Cardinality(Ips) : SlotAt(i) \in Refs
  BY DEF Refs, Gw, HopAt, OptAt, SlotAt, New

\* Places of two kinds, or with two indices, are two.
LEMMA RefsDiffer ==
  /\ Gw[1] = "gw" /\ New[1] = "new"
  /\ \A i : /\ HopAt(i)[1] = "hop" /\ OptAt(i)[1] = "opt" /\ SlotAt(i)[1] = "slot"
            /\ HopAt(i)[2] = i /\ OptAt(i)[2] = i /\ SlotAt(i)[2] = i
  BY DEF Gw, HopAt, OptAt, SlotAt, New

\* Keys that are distinct fit the addresses there are.
LEMMA KeysFit ==
  ASSUME NEW s \in Seq(Ips), \A i, j \in 1 .. Len(s) : s[i] = s[j] => i = j
  PROVE  Len(s) <= Cardinality(Ips)
  <1>1. Len(s) \in Nat /\ s \in [1 .. Len(s) -> Ips]
    BY LenProperties
  <1>2. s \in Injection(1 .. Len(s), Ips)
    BY <1>1 DEF Injection, IsInjective
  <1>3. Cardinality(1 .. Len(s)) = Len(s)
    BY <1>1, FS_Interval
  <1> QED BY <1>2, <1>3, FS_Injection, L3TableAssumption

\* The position of a key, and of one more.
LEMMA Positions ==
  ASSUME L3Inv, NEW ip \in Ips
  PROVE  /\ DOMAIN ip_hash = 1 .. Len(ip_hash) /\ Len(ip_hash) \in Nat
         /\ Len(ip_hash) <= Cardinality(Ips) /\ Cardinality(Ips) \in Nat
         /\ \A i \in 1 .. Len(ip_hash) : ip_hash[i] \in Ips /\ SlotAt(i) \in Refs
         /\ Position(ip) # New => \E i \in 1 .. Len(ip_hash) : Position(ip) = SlotAt(i) /\ ip_hash[i] = ip
         /\ \A i \in 1 .. Len(ip_hash) : ip_hash[i] = ip => Position(ip) = SlotAt(i)
         /\ Position(ip) = New => /\ \A i \in 1 .. Len(ip_hash) : ip_hash[i] # ip
                                  /\ Len(ip_hash) + 1 <= Cardinality(Ips)
                                  /\ SlotAt(Len(ip_hash) + 1) \in Refs
  <1>1. ip_hash \in Seq(Ips) /\ \A i, j \in 1 .. Len(ip_hash) : ip_hash[i] = ip_hash[j] => i = j
    BY DEF L3Inv, L3TypeOK, EntriesDistinct
  <1>2. /\ DOMAIN ip_hash = 1 .. Len(ip_hash) /\ Len(ip_hash) \in Nat
        /\ \A i \in 1 .. Len(ip_hash) : ip_hash[i] \in Ips
    BY <1>1, LenProperties
  <1>3. Len(ip_hash) <= Cardinality(Ips) /\ Cardinality(Ips) \in Nat
    BY <1>1, KeysFit, FS_CardinalityType, L3TableAssumption
  <1>4. Position(ip) # New => \E i \in 1 .. Len(ip_hash) : Position(ip) = SlotAt(i) /\ ip_hash[i] = ip
    BY DEF Position
  <1>5. \A i \in 1 .. Len(ip_hash) : ip_hash[i] = ip => Position(ip) = SlotAt(i)
    <2> SUFFICES ASSUME NEW i \in 1 .. Len(ip_hash), ip_hash[i] = ip PROVE Position(ip) = SlotAt(i)
      OBVIOUS
    <2> DEFINE c == CHOOSE k \in 1 .. Len(ip_hash) : ip_hash[k] = ip
    <2>1. c \in 1 .. Len(ip_hash) /\ ip_hash[c] = ip
      OBVIOUS
    <2>2. Position(ip) = SlotAt(c)
      BY DEF Position
    <2> QED BY <1>1, <2>1, <2>2
  <1>6. ASSUME Position(ip) = New
        PROVE  /\ \A i \in 1 .. Len(ip_hash) : ip_hash[i] # ip
               /\ Len(ip_hash) + 1 <= Cardinality(Ips)
               /\ SlotAt(Len(ip_hash) + 1) \in Refs
    <2>1. \A i \in 1 .. Len(ip_hash) : ip_hash[i] # ip
      BY <1>5, <1>6, RefsDiffer
    <2> DEFINE s == Append(ip_hash, ip)
    <2>2. s \in Seq(Ips) /\ Len(s) = Len(ip_hash) + 1
      BY <1>1
    <2>3. \A i \in 1 .. Len(s) : IF i = Len(ip_hash) + 1 THEN s[i] = ip
                                 ELSE i \in 1 .. Len(ip_hash) /\ s[i] = ip_hash[i]
      BY <1>1, <1>2, <2>2
    <2>4. \A i, j \in 1 .. Len(s) : s[i] = s[j] => i = j
      BY <1>1, <2>1, <2>3
    <2>5. Len(ip_hash) + 1 <= Cardinality(Ips)
      BY <2>2, <2>4, KeysFit
    <2>6. Len(ip_hash) + 1 \in 1 .. Cardinality(Ips)
      BY <1>2, <1>3, <2>5
    <2> QED BY <2>1, <2>5, <2>6, RefKinds
  <1>7. \A i \in 1 .. Len(ip_hash) : SlotAt(i) \in Refs
    <2>1. \A i \in 1 .. Len(ip_hash) : i \in 1 .. Cardinality(Ips)
      BY <1>2, <1>3
    <2> QED BY <2>1, RefKinds
  <1> QED BY <1>2, <1>3, <1>4, <1>5, <1>6, <1>7

\* The place of an address in the linear table.
LEMMA LinearPlaces ==
  ASSUME L3Inv, NEW ip \in Ips
  PROVE  /\ Linear(ip) # New => \E i \in 1 .. n_pkts : Linear(ip) = OptAt(i) /\ arp[OptAt(i)].ip = ip
         /\ \A i \in 1 .. n_pkts : /\ i \in 1 .. OptSize /\ OptAt(i) \in Refs
                                   /\ arp[OptAt(i)].ip = ip => Linear(ip) = OptAt(i)
  <1>1. \A i \in 1 .. n_pkts : i \in 1 .. OptSize
    BY L3TableAssumption DEF L3Inv, L3TypeOK
  <1>2. Linear(ip) # New => \E i \in 1 .. n_pkts : Linear(ip) = OptAt(i) /\ arp[OptAt(i)].ip = ip
    BY DEF Linear
  <1>3. ASSUME NEW i \in 1 .. n_pkts, arp[OptAt(i)].ip = ip PROVE Linear(ip) = OptAt(i)
    <2> DEFINE c == CHOOSE k \in 1 .. n_pkts : arp[OptAt(k)].ip = ip
    <2>1. c \in 1 .. n_pkts /\ arp[OptAt(c)].ip = ip
      BY <1>3
    <2>2. Linear(ip) = OptAt(c)
      BY <1>3 DEF Linear
    <2> QED BY <1>3, <2>1, <2>2 DEF L3Inv, EntriesDistinct
  <1> QED BY <1>1, <1>2, <1>3, RefKinds

-----------------------------------------------------------------------------
(***************************************************************************)
(* The entry for a packet.                                                 *)
(***************************************************************************)

\* An entry that is found is in use for the address.
LEMMA FoundEntry ==
  ASSUME L3Inv, NEW q \in Ips
  PROVE  /\ Position(q) # New => Position(q) \in Refs /\ InUse(Position(q)) /\ Owner(Position(q)) = q
         /\ n_pkts < OptSize /\ Linear(q) # New =>
              Linear(q) \in Refs /\ InUse(Linear(q)) /\ Owner(Linear(q)) = q
  <1>1. ASSUME Position(q) # New
        PROVE  Position(q) \in Refs /\ InUse(Position(q)) /\ Owner(Position(q)) = q
    <2>1. PICK i \in 1 .. Len(ip_hash) : Position(q) = SlotAt(i) /\ ip_hash[i] = q
      BY <1>1, Positions
    <2> QED BY <2>1, Positions, RefsDiffer DEF InUse, Owner
  <1>2. ASSUME Linear(q) # New, n_pkts < OptSize
        PROVE  Linear(q) \in Refs /\ InUse(Linear(q)) /\ Owner(Linear(q)) = q
    <2>1. PICK i \in 1 .. n_pkts : Linear(q) = OptAt(i) /\ arp[OptAt(i)].ip = q
      BY <1>2, LinearPlaces
    <2> QED BY <1>2, <2>1, LinearPlaces, RefsDiffer DEF InUse, Owner
  <1> QED BY <1>1, <1>2

\* A packet has a next hop, and its entry, if there is one, is used for it.
LEMMA EntryOfHop ==
  ASSUME L3Inv, NEW ip \in Ips
  PROVE  /\ Hop(ip) \in Ips
         /\ Ref(ip) # New => Ref(ip) \in Refs /\ InUse(Ref(ip)) /\ Owner(Ref(ip)) = Hop(ip)
  <1>1. /\ lpm[ip] \in 0 .. MaxHops /\ lpm[ip] <= nb_gws
        /\ \A r \in Refs : arp[r].ip \in Ips \cup {NoIp}
        /\ n_pkts \in 0 .. OptSize
        /\ l3_kind # "routes" => arp[Gw].ip \in Ips
        /\ l3_kind \in {"routes", "gateway", "table", "ip6"}
    BY DEF L3Inv, L3TypeOK, TablesUsed, ArpEntries
  <1>2. ASSUME Routed(ip)
        PROVE  /\ Hop(ip) \in Ips /\ Ref(ip) = HopAt(lpm[ip])
               /\ Ref(ip) \in Refs /\ InUse(Ref(ip)) /\ Owner(Ref(ip)) = Hop(ip)
    <2>1. lpm[ip] \in 1 .. MaxHops
      BY <1>1, <1>2, L3TableAssumption DEF Routed
    <2>2. Hop(ip) = arp[HopAt(lpm[ip])].ip /\ Ref(ip) = HopAt(lpm[ip])
      <3>1. l3_kind = "routes"
        BY <1>2 DEF Routed
      <3> QED BY <1>2, <3>1 DEF Hop, Ref
    <2>3. HopAt(lpm[ip]) \in Refs
      BY <2>1, RefKinds
    <2> QED BY <1>1, <1>2, <2>2, <2>3, RefsDiffer DEF Routed, InUse, Owner
  <1>3. ASSUME ~ Routed(ip), l3_kind = "routes"
        PROVE  Hop(ip) = ip /\ Ref(ip) = Position(ip)
    BY <1>3 DEF Hop, Ref
  <1>4. ASSUME l3_kind = "gateway"
        PROVE  /\ Hop(ip) = arp[Gw].ip /\ Ref(ip) = Gw
               /\ Ref(ip) \in Refs /\ InUse(Ref(ip)) /\ Owner(Ref(ip)) = Hop(ip)
    <2>1. Hop(ip) = arp[Gw].ip /\ Ref(ip) = Gw
      BY <1>4 DEF Hop, Ref, Routed
    <2> QED BY <1>4, <2>1, RefKinds, RefsDiffer DEF InUse, Owner
  <1>5. ASSUME l3_kind \in {"table", "ip6"}
        PROVE  Hop(ip) \in {ip, arp[Gw].ip} /\ Ref(ip) = Searched(Hop(ip))
    BY <1>5 DEF Hop, Ref, Routed
  <1>6. Hop(ip) \in Ips
    BY <1>1, <1>2, <1>3, <1>4, <1>5
  <1>7. ASSUME Ref(ip) # New, l3_kind \in {"table", "ip6"}
        PROVE  Ref(ip) \in Refs /\ InUse(Ref(ip)) /\ Owner(Ref(ip)) = Hop(ip)
    BY <1>5, <1>6, <1>7, FoundEntry DEF Searched
  <1>8. ASSUME Ref(ip) # New, ~ Routed(ip), l3_kind = "routes"
         PROVE  Ref(ip) \in Refs /\ InUse(Ref(ip)) /\ Owner(Ref(ip)) = Hop(ip)
    BY <1>3, <1>8, FoundEntry
  <1> QED BY <1>1, <1>2, <1>4, <1>6, <1>7, <1>8

\* An entry that is used for the next hop of a packet is the packet's, unless the
\* next hop has one of each sort.
LEMMA HopOfEntry ==
  L3Inv => \A ip \in Ips, r \in Refs :
    InUse(r) /\ Owner(r) = Hop(ip) =>
      \/ Ref(ip) = r
      \/ l3_kind = "routes" /\ Routed(ip) /\ r # HopAt(lpm[ip])
      \/ l3_kind = "routes" /\ ~ Routed(ip) /\ r[1] = "hop"
  <1> SUFFICES ASSUME L3Inv, NEW ip \in Ips, NEW r \in Refs, InUse(r), Owner(r) = Hop(ip)
               PROVE  \/ Ref(ip) = r
                      \/ l3_kind = "routes" /\ Routed(ip) /\ r # HopAt(lpm[ip])
                      \/ l3_kind = "routes" /\ ~ Routed(ip) /\ r[1] = "hop"
    OBVIOUS
  <1>1. /\ l3_kind \in {"routes", "gateway", "table", "ip6"}
        /\ n_pkts \in 0 .. OptSize /\ nb_gws \in 0 .. MaxHops
        /\ l3_kind # "routes" => nb_gws = 0
        /\ l3_kind \in {"routes", "gateway"} => n_pkts = 0
        /\ l3_kind # "routes" /\ n_pkts < OptSize => ip_hash = <<>>
        /\ Hop(ip) \in Ips
    BY EntryOfHop DEF L3Inv, L3TypeOK, TablesUsed
  <1>2. CASE l3_kind = "routes" /\ Routed(ip)
    BY <1>2 DEF Ref
  <1>3. CASE r = Gw
    BY <1>1, <1>3, RefsDiffer DEF InUse, Ref, Routed
  <1>4. CASE \E i \in 1 .. MaxHops : r = HopAt(i)
    <2>1. PICK i \in 1 .. MaxHops : r = HopAt(i)
      BY <1>4
    <2>2. i <= nb_gws
      BY <2>1, RefsDiffer DEF InUse
    <2>3. l3_kind = "routes"
      BY <1>1, <2>2
    <2> QED BY <1>2, <2>1, <2>3, RefsDiffer
  <1>5. CASE \E i \in 1 .. OptSize : r = OptAt(i)
    <2>1. PICK i \in 1 .. OptSize : r = OptAt(i)
      BY <1>5
    <2>2. i <= n_pkts /\ n_pkts < OptSize /\ arp[OptAt(i)].ip = Hop(ip)
      BY <2>1, RefsDiffer DEF InUse, Owner
    <2>3. l3_kind \in {"table", "ip6"} /\ i \in 1 .. n_pkts
      BY <1>1, <2>2
    <2>4. Linear(Hop(ip)) = OptAt(i)
      BY <1>1, <2>2, <2>3, LinearPlaces
    <2> QED BY <2>1, <2>2, <2>3, <2>4 DEF Ref, Searched, Routed
  <1>6. CASE \E i \in 1 .. Cardinality(Ips) : r = SlotAt(i)
    <2>1. PICK i \in 1 .. Cardinality(Ips) : r = SlotAt(i)
      BY <1>6
    <2>2. i <= Len(ip_hash) /\ ip_hash[i] = Hop(ip)
      BY <2>1, RefsDiffer DEF InUse, Owner
    <2>3. Len(ip_hash) \in Nat /\ ip_hash # <<>>
      BY <2>2, Positions
    <2>4. Position(Hop(ip)) = SlotAt(i)
      BY <1>1, <2>2, <2>3, Positions
    <2>5. CASE l3_kind = "routes"
      BY <1>2, <2>1, <2>4, <2>5 DEF Ref, Hop
    <2>6. CASE l3_kind # "routes"
      <3>1. l3_kind \in {"table", "ip6"} /\ ~ (n_pkts < OptSize)
        <4>1. ~ (n_pkts < OptSize)
          BY <1>1, <2>3, <2>6
        <4>2. l3_kind # "gateway"
          BY <1>1, <4>1, L3TableAssumption
        <4> QED BY <1>1, <2>6, <4>1, <4>2
      <3> QED BY <2>1, <2>4, <3>1 DEF Ref, Searched, Routed
    <2> QED BY <2>5, <2>6
  <1> QED BY <1>3, <1>4, <1>5, <1>6, RefKinds

LEMMA HopOfEntryNext ==
  L3Inv' => (\A ip \in Ips, r \in Refs :
    InUse(r) /\ Owner(r) = Hop(ip) =>
      \/ Ref(ip) = r
      \/ l3_kind = "routes" /\ Routed(ip) /\ r # HopAt(lpm[ip])
      \/ l3_kind = "routes" /\ ~ Routed(ip) /\ r[1] = "hop")'
  BY HopOfEntry, PTL

-----------------------------------------------------------------------------
(***************************************************************************)
(* What a packet is sent with, and what it asks for.                       *)
(***************************************************************************)

\* The entry of a packet has the MAC address of its next hop.
LEMMA SentRight ==
  ASSUME L3Inv, NEW ip \in Ips, Ref(ip) # New, Usable(Ref(ip))
  PROVE  \/ arp[Ref(ip)].mac \in {Hop(ip)} \cup former_gw
         \/ Routed(ip) /\ arp[Ref(ip)].mac # NoIp
  <1> DEFINE r == Ref(ip)
  <1>1. r \in Refs /\ InUse(r) /\ Owner(r) = Hop(ip) /\ arp[r].fresh
    BY EntryOfHop DEF Usable
  <1> HIDE DEF r
  <1>2. CASE r = Gw
    BY <1>1, <1>2, RefsDiffer DEF InUse, Owner, L3Inv, FreshRight, r
  <1>3. CASE \E i \in 1 .. MaxHops : r = HopAt(i)
    <2>1. PICK i \in 1 .. MaxHops : r = HopAt(i)
      BY <1>3
    <2>2. arp[r].mac # NoIp
      BY <1>1, <2>1 DEF L3Inv, FreshRight
    <2>3. Routed(ip)
      <3>1. i <= nb_gws
        BY <1>1, <2>1, RefsDiffer DEF InUse
      <3>2. l3_kind = "routes"
        BY <3>1 DEF L3Inv, L3TypeOK, TablesUsed
      <3>3. SUFFICES ASSUME ~ Routed(ip) PROVE FALSE
        OBVIOUS
      <3>4. r = Position(ip)
        BY <3>2, <3>3 DEF Ref, r
      <3>5. \E j \in 1 .. Len(ip_hash) : r = SlotAt(j)
        BY <3>4, Positions DEF r
      <3> QED BY <2>1, <3>5, RefsDiffer
    <2> QED BY <2>2, <2>3 DEF r
  <1>4. CASE \E i \in 1 .. OptSize : r = OptAt(i)
    BY <1>1, <1>4, RefsDiffer DEF Owner, L3Inv, FreshRight, r
  <1>5. CASE \E i \in 1 .. Cardinality(Ips) : r = SlotAt(i)
    BY <1>1, <1>5, RefsDiffer DEF Owner, L3Inv, FreshRight, r
  <1> QED BY <1>1, <1>2, <1>3, <1>4, <1>5, RefKinds DEF r

\* A request that is too early is for an address in another's entry, or with two.
LEMMA EarlyFor ==
  ASSUME L3Inv, NEW ip \in Ips, Early(ip, Ref(ip)) # NoIp
  PROVE  /\ Early(ip, Ref(ip)) = Hop(ip)
         /\ \/ l3_kind = "table" /\ n_pkts = OptSize
            \/ l3_kind = "routes" /\ HopsTo(Hop(ip)) # {}
  <1>1. /\ Early(ip, Ref(ip)) = Hop(ip) /\ Hop(ip) \in waiting
        /\ Ref(ip) = New \/ ~ arp[Ref(ip)].quiet
    BY DEF Early
  <1>2. SUFFICES ASSUME ~ (l3_kind = "table" /\ n_pkts = OptSize)
                 PROVE  l3_kind = "routes" /\ HopsTo(Hop(ip)) # {}
    BY <1>1
  <1>3. PICK r \in Refs : InUse(r) /\ Owner(r) = Hop(ip) /\ arp[r].quiet
    BY <1>1, <1>2 DEF L3Inv, WaitsQuiet
  <1>4. Ref(ip) # r
    BY <1>1, <1>3, RefKinds
  <1>5. CASE l3_kind = "routes" /\ Routed(ip)
    <2>1. lpm[ip] \in 1 .. nb_gws
      BY <1>5 DEF Routed, L3Inv, L3TypeOK, TablesUsed
    <2>2. Hop(ip) = arp[HopAt(lpm[ip])].ip
      BY <1>5 DEF Hop
    <2> QED BY <1>5, <2>1, <2>2 DEF HopsTo
  <1>6. CASE l3_kind = "routes" /\ r[1] = "hop"
    <2>1. PICK i \in 1 .. MaxHops : r = HopAt(i)
      BY <1>6, RefKinds, RefsDiffer
    <2>2. i \in 1 .. nb_gws /\ arp[HopAt(i)].ip = Hop(ip)
      BY <1>3, <2>1, RefsDiffer DEF InUse, Owner, L3Inv, L3TypeOK
    <2> QED BY <1>6, <2>2 DEF HopsTo
  <1> QED BY <1>3, <1>4, <1>5, <1>6, HopOfEntry

\* A change of deadlines only.
LEMMA DeadlinesOnly ==
  ASSUME L3Inv, arp' \in [Refs -> ArpEntries],
         \A r \in Refs : /\ arp'[r].ip = arp[r].ip /\ arp'[r].mac = arp[r].mac
                         /\ arp'[r].fresh => arp[r].fresh,
         UNCHANGED <<l3_kind, n_pkts, ip_hash, nb_gws, lpm, former_gw>>
  PROVE  /\ TablesUsed' /\ EntriesDistinct' /\ FreshRight'
         /\ \A r \in Refs : InUse(r)' = InUse(r) /\ Owner(r)' = Owner(r)
         /\ \A ip \in Ips : Hop(ip)' = Hop(ip) /\ Routed(ip)' = Routed(ip) /\ HopsTo(ip)' = HopsTo(ip)
  <1>1. \A ip \in Ips : lpm[ip] \in 0 .. MaxHops /\ lpm[ip] <= nb_gws
    BY DEF L3Inv, L3TypeOK, TablesUsed
  <1>2. \A i \in 1 .. n_pkts : i \in 1 .. OptSize
    BY L3TableAssumption DEF L3Inv, L3TypeOK
  <1>3. TablesUsed'
    BY RefKinds DEF L3Inv, TablesUsed
  <1>4. EntriesDistinct'
    BY <1>2, RefKinds DEF L3Inv, EntriesDistinct
  <1>5. FreshRight'
    BY RefKinds DEF L3Inv, FreshRight
  <1>6. \A r \in Refs : InUse(r)' = InUse(r) /\ Owner(r)' = Owner(r)
    BY DEF InUse, Owner
  <1>7. \A ip \in Ips : Routed(ip)' = Routed(ip) /\ Hop(ip)' = Hop(ip)
    <2> SUFFICES ASSUME NEW ip \in Ips PROVE Routed(ip)' = Routed(ip) /\ Hop(ip)' = Hop(ip)
      OBVIOUS
    <2>1. lpm[ip] # 0 => arp'[HopAt(lpm[ip])].ip = arp[HopAt(lpm[ip])].ip
      BY <1>1, RefKinds
    <2>2. Routed(ip)' = Routed(ip)
      BY <2>1 DEF Routed
    <2>3. Routed(ip) => lpm[ip] # 0
      BY DEF Routed
    <2> QED BY <2>1, <2>2, <2>3, RefKinds DEF Hop
  <1>8. \A ip \in Ips : HopsTo(ip)' = HopsTo(ip)
    <2>1. \A i \in 1 .. nb_gws : i \in 1 .. MaxHops
      BY L3TableAssumption DEF L3Inv, L3TypeOK
    <2> QED BY <2>1, RefKinds DEF HopsTo
  <1> QED BY <1>3, <1>4, <1>5, <1>6, <1>7, <1>8

\* The retransmission time of one entry starts, or comes.
LEMMA QuietSet ==
  ASSUME L3Inv, NEW p \in Refs, NEW b \in BOOLEAN, arp' = [arp EXCEPT ![p].quiet = b]
  PROVE  /\ arp' \in [Refs -> ArpEntries] /\ arp'[p].quiet = b
         /\ \A t \in Refs : /\ arp'[t].ip = arp[t].ip /\ arp'[t].mac = arp[t].mac
                            /\ arp'[t].fresh = arp[t].fresh
                            /\ t # p => arp'[t].quiet = arp[t].quiet
  <1>1. arp \in [Refs -> ArpEntries]
    BY DEF L3Inv, L3TypeOK
  <1>2. arp'[p] = [arp[p] EXCEPT !.quiet = b] /\ arp[p] \in ArpEntries
    BY <1>1
  <1>3. /\ arp'[p] \in ArpEntries /\ arp'[p].quiet = b /\ arp'[p].ip = arp[p].ip
        /\ arp'[p].mac = arp[p].mac /\ arp'[p].fresh = arp[p].fresh
    BY <1>2 DEF ArpEntries
  <1>4. \A t \in Refs : t # p => arp'[t] = arp[t]
    BY <1>1
  <1>5. arp' \in [Refs -> ArpEntries]
    BY <1>1, <1>3
  <1> QED BY <1>3, <1>4, <1>5

\* Entries in use that run on keep the addresses that are waited for.
LEMMA StillWaits ==
  ASSUME L3Inv, UNCHANGED <<l3_kind, n_pkts>>,
         \A ip \in waiting' :
           \/ \E r \in Refs : InUse(r)' /\ Owner(r)' = ip /\ arp'[r].quiet
           \/ /\ ip \in waiting
              /\ \A r \in Refs : InUse(r) /\ Owner(r) = ip /\ arp[r].quiet =>
                   InUse(r)' /\ Owner(r)' = ip /\ arp'[r].quiet
  PROVE  WaitsQuiet'
  BY DEF L3Inv, WaitsQuiet

\* No address that is known is forgotten: its entry remains, or is moved; and
\* packets have the same next hops.
EntriesKept ==
  \A t \in Refs : InUse(t) /\ arp[t].fresh =>
    \E s \in Refs : /\ InUse(s)' /\ Owner(s)' = Owner(t) /\ arp'[s].fresh
                    /\ s = Gw => t = Gw
                    /\ l3_kind = "routes" => s = t
HopsKept == \A ip \in Ips : Hop(ip)' = Hop(ip) /\ Routed(ip)' = Routed(ip)

LEMMA SameHops ==
  ASSUME L3Inv, UNCHANGED <<l3_kind, lpm>>, arp'[Gw].ip = arp[Gw].ip,
         \A i \in 1 .. nb_gws : arp'[HopAt(i)].ip = arp[HopAt(i)].ip
  PROVE  HopsKept
  <1> SUFFICES ASSUME NEW ip \in Ips PROVE Hop(ip)' = Hop(ip) /\ Routed(ip)' = Routed(ip)
    BY DEF HopsKept
  <1>1. lpm[ip] # 0 => arp'[HopAt(lpm[ip])].ip = arp[HopAt(lpm[ip])].ip
    BY L3TableAssumption DEF L3Inv, L3TypeOK, TablesUsed
  <1>2. Routed(ip)' = Routed(ip)
    BY <1>1 DEF Routed
  <1>3. Routed(ip) => lpm[ip] # 0
    BY DEF Routed
  <1> QED BY <1>1, <1>2, <1>3 DEF Hop

LEMMA HopsInUse == L3Inv => \A i \in 1 .. nb_gws : i \in 1 .. MaxHops /\ HopAt(i) \in Refs
  <1> SUFFICES ASSUME L3Inv, NEW i \in 1 .. nb_gws PROVE i \in 1 .. MaxHops /\ HopAt(i) \in Refs
    OBVIOUS
  <1>1. i \in 1 .. MaxHops
    BY L3TableAssumption DEF L3Inv, L3TypeOK
  <1> QED BY <1>1, RefKinds

\* Entries that keep their place.
LEMMA SameEntries ==
  ASSUME \A t \in Refs : InUse(t) /\ arp[t].fresh => InUse(t)' /\ Owner(t)' = Owner(t) /\ arp'[t].fresh
  PROVE  EntriesKept
  BY DEF EntriesKept

\* A packet whose entry is there.
LEMMA StepUpdate ==
  ASSUME L3Inv, NEW ip \in Ips, Ref(ip) # New, update_mac_and_send_mbuf(ip, Ref(ip)),
         UNCHANGED l3_config
  PROVE  L3Inv' /\ EntriesKept /\ HopsKept
  <1> DEFINE r == Ref(ip)
             h == Hop(ip)
  <1>1. r \in Refs /\ InUse(r) /\ Owner(r) = h /\ h \in Ips
    BY EntryOfHop
  <1>2. /\ IF arp[r].quiet THEN UNCHANGED <<arp, asked, waiting>>
           ELSE /\ arp' = [arp EXCEPT ![r].quiet = TRUE]
                /\ asked' = asked \cup {h} /\ waiting' = waiting \cup {h}
        /\ UNCHANGED <<l3_kind, n_pkts, ip_hash, nb_gws, lpm, former_gw, mac_known>>
    BY DEF update_mac_and_send_mbuf, Ask, l3_config
  <1>3. IF Usable(r)
        THEN l3_sent' = [to |-> h, mac |-> arp[r].mac, routed |-> Routed(ip), early |-> Early(ip, r)]
        ELSE l3_sent' = [Idle EXCEPT !.early = Early(ip, r)]
    BY DEF update_mac_and_send_mbuf, Transmit, Keep
  <1>4. Usable(r) => arp[r].mac \in {h} \cup former_gw \/ (Routed(ip) /\ arp[r].mac # NoIp)
    BY SentRight
  <1>5. Early(ip, r) # NoIp => /\ Early(ip, r) = h
                               /\ \/ l3_kind = "table" /\ n_pkts = OptSize
                                  \/ l3_kind = "routes" /\ HopsTo(h) # {}
    BY EarlyFor
  <1>6. PICK e : e = Early(ip, r)
    OBVIOUS
  <1>7. PICK routed : routed = Routed(ip)
    OBVIOUS
  <1>8. arp \in [Refs -> ArpEntries]
    BY DEF L3Inv, L3TypeOK
  <1>9. PICK q \in Ips : q = h
    BY <1>1
  <1>10. PICK p \in Refs : p = r
    BY <1>1
  <1> HIDE DEF r, h
  <1>11. /\ arp' \in [Refs -> ArpEntries]
         /\ \A t \in Refs : /\ arp'[t].ip = arp[t].ip /\ arp'[t].mac = arp[t].mac
                            /\ arp'[t].fresh = arp[t].fresh
                            /\ arp[t].quiet \/ t = p => arp'[t].quiet
    BY <1>2, <1>8, <1>10, QuietSet
  <1>12. /\ TablesUsed' /\ EntriesDistinct' /\ FreshRight'
         /\ \A t \in Refs : InUse(t)' = InUse(t) /\ Owner(t)' = Owner(t)
         /\ \A a \in Ips : HopsTo(a)' = HopsTo(a)
    BY <1>2, <1>11, DeadlinesOnly
  <1>13. L3TypeOK'
    BY <1>1, <1>2, <1>11 DEF L3Inv, L3TypeOK
  <1>14. \A a \in waiting' : a \in waiting \/ a = q
    BY <1>2, <1>9
  <1>15. WaitsQuiet'
    <2>1. InUse(p)' /\ Owner(p)' = q /\ arp'[p].quiet
      BY <1>1, <1>9, <1>10, <1>11, <1>12
    <2> QED BY <1>2, <1>11, <1>12, <1>14, <2>1, StillWaits
  <1>16. RightMac'
    BY <1>2, <1>3, <1>4 DEF RightMac, Idle
  <1>17. l3_sent'.early = e
    BY <1>3, <1>6 DEF Idle
  <1>18. RequestsPaced'
    <2>1. l3_sent'.early # NoIp => l3_sent'.early = q
      BY <1>5, <1>6, <1>9, <1>17
    <2>2. HopsTo(q)' = HopsTo(q)
      BY <1>12
    <2>3. l3_sent'.early = q => HopsTo(l3_sent.early)' = HopsTo(q)'
      BY DEF HopsTo
    <2> QED BY <1>2, <1>5, <1>6, <1>9, <1>17, <2>1, <2>2, <2>3 DEF RequestsPaced
  <1>19. EntriesKept
    <2>1. \A t \in Refs : arp[t].fresh => arp'[t].fresh
      BY <1>11
    <2> QED BY <1>12, <2>1, SameEntries
  <1>20. HopsKept
    BY <1>2, <1>11, RefKinds, HopsInUse, SameHops
  <1> QED BY <1>12, <1>13, <1>15, <1>16, <1>18, <1>19, <1>20 DEF L3Inv

-----------------------------------------------------------------------------
(***************************************************************************)
(* An address that is new.                                                 *)
(***************************************************************************)

\* A packet is kept: nothing is sent with a wrong address, and the request is not
\* too early while the address is in no table.
LEMMA KeptFor ==
  ASSUME L3Inv, NEW ip \in Ips, Ref(ip) = New, Keep(ip, New),
         UNCHANGED <<l3_kind, nb_gws>>, n_pkts' \in n_pkts .. OptSize,
         \A i \in 1 .. nb_gws : arp'[HopAt(i)].ip = arp[HopAt(i)].ip
  PROVE  RightMac' /\ RequestsPaced'
  <1>1. l3_sent' = [Idle EXCEPT !.early = Early(ip, New)]
    BY DEF Keep
  <1>2. PICK e : e = Early(ip, New)
    OBVIOUS
  <1>3. l3_sent'.mac = NoIp /\ l3_sent'.to = NoIp /\ l3_sent'.early = e
    BY <1>1, <1>2 DEF Idle
  <1>4. RightMac'
    BY <1>3 DEF RightMac
  <1>5. e # NoIp => /\ e = Hop(ip)
                    /\ \/ l3_kind = "table" /\ n_pkts = OptSize
                       \/ l3_kind = "routes" /\ HopsTo(Hop(ip)) # {}
    BY <1>2, EarlyFor
  <1>6. HopsTo(l3_sent.early)' = HopsTo(e)
    BY <1>3 DEF HopsTo
  <1>7. n_pkts = OptSize => n_pkts' = OptSize
    BY DEF L3Inv, L3TypeOK
  <1> QED BY <1>3, <1>4, <1>5, <1>6, <1>7 DEF RequestsPaced

\* The new entry of the linear table.
LEMMA NewPlace ==
  ASSUME L3Inv, NEW ip \in Ips, Ref(ip) = New, l3_kind # "routes", n_pkts < OptSize
  PROVE  /\ l3_kind \in {"table", "ip6"} /\ ip_hash = <<>> /\ nb_gws = 0
         /\ n_pkts + 1 \in 1 .. OptSize /\ OptAt(n_pkts + 1) \in Refs
         /\ ~ arp[OptAt(n_pkts + 1)].fresh
         /\ \A i \in 1 .. n_pkts : arp[OptAt(i)].ip # Hop(ip)
  <1>1. /\ l3_kind \in {"routes", "gateway", "table", "ip6"}
        /\ ip_hash = <<>> /\ nb_gws = 0
        /\ n_pkts \in 0 .. OptSize
    BY DEF L3Inv, L3TypeOK, TablesUsed
  <1>2. n_pkts + 1 \in 1 .. OptSize /\ OptAt(n_pkts + 1) \in Refs
    BY <1>1, RefKinds, L3TableAssumption
  <1>3. l3_kind # "gateway"
    BY RefsDiffer DEF Ref, Routed
  <1>4. ~ arp[OptAt(n_pkts + 1)].fresh
    BY <1>1, <1>2 DEF L3Inv, FreshRight
  <1>5. Linear(Hop(ip)) = New
    BY <1>1, <1>3 DEF Ref, Routed, Searched
  <1>6. \A i \in 1 .. n_pkts : arp[OptAt(i)].ip # Hop(ip)
    BY <1>5, EntryOfHop, LinearPlaces, RefsDiffer
  <1> QED BY <1>1, <1>2, <1>3, <1>4, <1>6

\* The entry once the retransmission time was started.
LEMMA QuietEntry ==
  ASSUME NEW table \in [Refs -> ArpEntries], NEW r \in Refs,
         NEW done, done = [table EXCEPT ![r].quiet = TRUE]
  PROVE  /\ done \in [Refs -> ArpEntries]
         /\ done[r].ip = table[r].ip /\ done[r].quiet /\ done[r].fresh = table[r].fresh
         /\ done[r].mac = table[r].mac
         /\ \A t \in Refs : t # r => done[t] = table[t]
  <1>1. done[r] = [table[r] EXCEPT !.quiet = TRUE] /\ table[r] \in ArpEntries
    OBVIOUS
  <1>2. /\ done[r] \in ArpEntries /\ done[r].ip = table[r].ip /\ done[r].quiet = TRUE
        /\ done[r].fresh = table[r].fresh /\ done[r].mac = table[r].mac
    BY <1>1 DEF ArpEntries
  <1>3. \A t \in Refs : t # r => done[t] = table[t]
    OBVIOUS
  <1> QED BY <1>2, <1>3

\* An entry is added to the linear table.
LEMMA StepLinear ==
  ASSUME L3Inv, NEW ip \in Ips, Ref(ip) = New, Keep(ip, New), Ask(Hop(ip)),
         l3_kind # "routes", n_pkts < OptSize, n_pkts + 1 # OptSize, add_linear(Hop(ip)),
         UNCHANGED l3_config
  PROVE  L3Inv' /\ EntriesKept /\ HopsKept
  <1> PICK h \in Ips : h = Hop(ip)
    BY EntryOfHop
  <1> PICK n \in Nat : n = n_pkts + 1
    BY DEF L3Inv, L3TypeOK
  <1> PICK r \in Refs : r = OptAt(n)
    BY NewPlace
  <1>1. /\ l3_kind \in {"table", "ip6"} /\ ip_hash = <<>> /\ nb_gws = 0
        /\ n \in 1 .. OptSize /\ n < OptSize /\ n_pkts # OptSize /\ r[1] = "opt" /\ r[2] = n
        /\ ~ arp[r].fresh
        /\ \A i \in 1 .. n_pkts : arp[OptAt(i)].ip # h
    BY NewPlace, RefsDiffer, L3TableAssumption
  <1> PICK b \in BOOLEAN : b = (l3_kind = "ip6")
    OBVIOUS
  <1> PICK nh \in {NoHop, 1} : nh = arp[r].nh
    BY DEF L3Inv, L3TypeOK, ArpEntries
  <1>2. PICK noted : noted = [arp EXCEPT ![r] = Named(@, h, b, nh)]
    OBVIOUS
  <1>3. arp' = [noted EXCEPT ![r].quiet = TRUE] /\ n_pkts' = n /\ ip_hash' = ip_hash
    BY <1>2 DEF add_linear
  <1>4. /\ noted \in [Refs -> ArpEntries]
        /\ noted[r].ip = h /\ noted[r].fresh = arp[r].fresh
        /\ \A t \in Refs : t # r => noted[t] = arp[t]
    <2>1. arp \in [Refs -> ArpEntries]
      BY DEF L3Inv, L3TypeOK
    <2>2. noted[r] = Named(arp[r], h, b, nh) /\ arp[r] \in ArpEntries
      BY <1>2, <2>1
    <2>3. noted[r] \in ArpEntries /\ noted[r].ip = h /\ noted[r].fresh = arp[r].fresh
      BY <2>2 DEF Named, ArpEntries
    <2>4. \A t \in Refs : t # r => noted[t] = arp[t]
      BY <1>2, <2>1
    <2>5. noted \in [Refs -> ArpEntries]
      BY <1>2, <2>1, <2>3
    <2> QED BY <2>3, <2>4, <2>5
  <1>5. /\ arp' \in [Refs -> ArpEntries]
        /\ arp'[r].ip = h /\ arp'[r].quiet /\ ~ arp'[r].fresh
        /\ \A t \in Refs : t # r => arp'[t] = arp[t]
    <2>1. PICK done : done = arp'
      OBVIOUS
    <2>2. /\ done \in [Refs -> ArpEntries]
          /\ done[r].ip = noted[r].ip /\ done[r].quiet /\ done[r].fresh = noted[r].fresh
          /\ \A t \in Refs : t # r => done[t] = noted[t]
      BY <1>3, <1>4, <2>1, QuietEntry
    <2> QED BY <1>1, <1>4, <2>1, <2>2
  <1>6. UNCHANGED <<l3_kind, mac_known, lpm, nb_gws, former_gw>>
    BY DEF l3_config
  <1>7. asked' = asked \cup {h} /\ waiting' = waiting \cup {h}
    BY DEF Ask
  <1>8. L3TypeOK'
    BY <1>1, <1>3, <1>5, <1>6, <1>7 DEF L3Inv, L3TypeOK
  <1>9. arp'[Gw] = arp[Gw]
    BY <1>1, <1>5, RefKinds, RefsDiffer
  <1>10. TablesUsed'
    BY <1>1, <1>3, <1>6, <1>9, RefKinds DEF L3Inv, TablesUsed
  <1>11. \A i \in 1 .. n : /\ i \in 1 .. n_pkts \/ i = n
                           /\ i \in 1 .. OptSize /\ OptAt(i) \in Refs
                           /\ i # n => i \in 1 .. n_pkts /\ arp'[OptAt(i)] = arp[OptAt(i)]
    <2> SUFFICES ASSUME NEW i \in 1 .. n
                 PROVE  /\ i \in 1 .. n_pkts \/ i = n
                        /\ i \in 1 .. OptSize /\ OptAt(i) \in Refs
                        /\ i # n => i \in 1 .. n_pkts /\ arp'[OptAt(i)] = arp[OptAt(i)]
      OBVIOUS
    <2>1. i \in 1 .. OptSize /\ (i \in 1 .. n_pkts \/ i = n)
      BY <1>1, L3TableAssumption DEF L3Inv, L3TypeOK
    <2>2. OptAt(i) \in Refs
      BY <2>1, RefKinds
    <2>3. i # n => OptAt(i) # r
      BY <1>1, RefsDiffer
    <2> QED BY <1>5, <2>1, <2>2, <2>3
  <1>12. EntriesDistinct'
    <2>1. ASSUME NEW i \in 1 .. n, NEW j \in 1 .. n
          PROVE  arp'[OptAt(i)].ip \in Ips /\ (arp'[OptAt(i)].ip = arp'[OptAt(j)].ip => i = j)
      <3>1. \A k \in 1 .. n_pkts : arp[OptAt(k)].ip \in Ips
        BY DEF L3Inv, EntriesDistinct
      <3>2. CASE i = n
        BY <1>1, <1>5, <1>11, <3>1, <3>2
      <3>3. CASE i # n /\ j = n
        BY <1>1, <1>5, <1>11, <3>1, <3>3
      <3>4. CASE i # n /\ j # n
        BY <1>11, <3>1, <3>4 DEF L3Inv, EntriesDistinct
      <3> QED BY <3>2, <3>3, <3>4
    <2> QED BY <1>3, <2>1 DEF L3Inv, EntriesDistinct
  <1>13. FreshRight'
    <2>1. \A i \in 1 .. MaxHops : arp'[HopAt(i)] = arp[HopAt(i)]
      BY <1>1, <1>5, RefKinds, RefsDiffer
    <2>2. \A i \in 1 .. Cardinality(Ips) : arp'[SlotAt(i)] = arp[SlotAt(i)]
      BY <1>1, <1>5, RefKinds, RefsDiffer
    <2>3. ASSUME NEW i \in 1 .. OptSize, arp'[OptAt(i)].fresh
          PROVE  i <= n /\ arp'[OptAt(i)].mac = arp'[OptAt(i)].ip
      <3>1. i # n
        BY <1>5, <2>3
      <3>2. arp'[OptAt(i)] = arp[OptAt(i)]
        BY <1>1, <1>5, <3>1, RefKinds, RefsDiffer
      <3> QED BY <2>3, <3>2 DEF L3Inv, FreshRight, L3TypeOK
    <2> QED BY ZenonT(60), <1>1, <1>3, <1>6, <1>9, <2>1, <2>2, <2>3 DEF L3Inv, FreshRight
  <1>14. WaitsQuiet'
    <2>1. InUse(r)' /\ Owner(r)' = h
      BY <1>1, <1>3, <1>5 DEF InUse, Owner
    <2>2. ASSUME NEW a \in waiting, a # h PROVE \E t \in Refs : InUse(t)' /\ Owner(t)' = a /\ arp'[t].quiet
      <3>1. PICK t \in Refs : InUse(t) /\ Owner(t) = a /\ arp[t].quiet
        BY <1>1 DEF L3Inv, WaitsQuiet
      <3>2. CASE \E i \in 1 .. OptSize : t = OptAt(i)
        <4>1. PICK i \in 1 .. OptSize : t = OptAt(i)
          BY <3>2
        <4>2. i <= n_pkts
          BY <3>1, <4>1, RefsDiffer DEF InUse
        <4>3. t # r
          BY <1>1, <4>1, <4>2, RefsDiffer DEF L3Inv, L3TypeOK
        <4> QED BY <1>1, <1>3, <1>5, <3>1, <4>1, <4>2, <4>3, RefsDiffer DEF InUse, Owner, L3Inv, L3TypeOK
      <3>3. CASE t[1] # "opt"
        <4>1. t # r
          BY <1>1, <3>3
        <4> QED BY <1>3, <1>5, <1>6, <3>1, <3>3, <4>1 DEF InUse, Owner
      <3> QED BY <3>2, <3>3, RefKinds, RefsDiffer
    <2> QED BY <1>5, <1>7, <2>1, <2>2 DEF WaitsQuiet
  <1>15. RightMac' /\ RequestsPaced'
    BY <1>1, <1>3, <1>6, KeptFor DEF L3Inv, L3TypeOK
  <1>16. EntriesKept
    <2>1. ASSUME NEW t \in Refs, InUse(t), arp[t].fresh
          PROVE  InUse(t)' /\ Owner(t)' = Owner(t) /\ arp'[t].fresh
      <3>1. arp'[t] = arp[t]
        BY <1>1, <1>5, <2>1
      <3>2. Owner(t)' = Owner(t)
        <4>1. ip_hash' = ip_hash
          BY <1>3
        <4> QED BY <3>1, <4>1 DEF Owner
      <3>3. CASE t[1] = "opt"
        <4>1. t[2] <= n_pkts
          BY <2>1, <3>3 DEF InUse
        <4>2. PICK i \in 1 .. OptSize : t[2] = i
          BY <3>3, RefKinds, RefsDiffer
        <4>3. t[2] <= n
          BY <4>1, <4>2 DEF L3Inv, L3TypeOK
        <4> QED BY <1>1, <1>3, <2>1, <3>1, <3>2, <3>3, <4>3 DEF InUse
      <3>4. CASE t[1] # "opt"
        BY <1>3, <1>6, <2>1, <3>1, <3>2, <3>4 DEF InUse
      <3> QED BY <3>3, <3>4
    <2> QED BY <2>1, SameEntries
  <1>17. HopsKept
    <2>1. \A i \in 1 .. MaxHops : arp'[HopAt(i)] = arp[HopAt(i)]
      BY <1>1, <1>5, RefKinds, RefsDiffer
    <2> QED BY <1>6, <1>9, <2>1, HopsInUse, SameHops
  <1> QED BY <1>8, <1>10, <1>12, <1>13, <1>14, <1>15, <1>16, <1>17 DEF L3Inv

\* An entry is added, which is the last one the linear table has room for.
LEMMA StepFull ==
  ASSUME L3Inv, NEW ip \in Ips, Ref(ip) = New, Keep(ip, New), Ask(Hop(ip)),
         l3_kind # "routes", n_pkts < OptSize, n_pkts + 1 = OptSize, add_linear(Hop(ip)),
         UNCHANGED l3_config
  PROVE  L3Inv' /\ EntriesKept /\ HopsKept
  <1> PICK h \in Ips : h = Hop(ip)
    BY EntryOfHop
  <1> PICK r \in Refs : r = OptAt(OptSize)
    BY NewPlace
  <1>1. /\ l3_kind \in {"table", "ip6"} /\ ip_hash = <<>> /\ nb_gws = 0
        /\ OptSize \in 1 .. OptSize /\ OptSize \in Nat /\ n_pkts \in Nat
        /\ r[1] = "opt" /\ r[2] = OptSize
        /\ ~ arp[r].fresh
        /\ \A i \in 1 .. n_pkts : arp[OptAt(i)].ip # h
    BY NewPlace, RefsDiffer, L3TableAssumption DEF L3Inv, L3TypeOK
  <1> PICK b \in BOOLEAN : b = (l3_kind = "ip6")
    OBVIOUS
  <1> PICK nh \in {NoHop, 1} : nh = arp[r].nh
    BY DEF L3Inv, L3TypeOK, ArpEntries
  <1>2. PICK noted : noted = [arp EXCEPT ![r] = Named(@, h, b, nh)]
    OBVIOUS
  <1>3. /\ arp' = [Copied(noted) EXCEPT ![r].quiet = TRUE]
        /\ n_pkts' = OptSize /\ ip_hash' = [i \in 1 .. OptSize |-> noted[OptAt(i)].ip]
    <2>1. PICK n : n = n_pkts + 1
      OBVIOUS
    <2>2. n = OptSize /\ OptAt(n) = r
      BY <2>1
    <2>3. n_pkts' = n /\ ip_hash' = [i \in 1 .. OptSize |-> noted[OptAt(i)].ip]
      BY <1>2, <2>1, <2>2 DEF add_linear
    <2>4. arp' = [Copied(noted) EXCEPT ![r].quiet = TRUE]
      BY <1>2, <2>1, <2>2 DEF add_linear
    <2> QED BY <2>2, <2>3, <2>4
  <1>4. /\ noted \in [Refs -> ArpEntries]
        /\ noted[r].ip = h /\ noted[r].fresh = arp[r].fresh /\ noted[r].quiet = b
        /\ \A t \in Refs : t # r => noted[t] = arp[t]
    <2>1. arp \in [Refs -> ArpEntries]
      BY DEF L3Inv, L3TypeOK
    <2>2. noted[r] = Named(arp[r], h, b, nh) /\ arp[r] \in ArpEntries
      BY <1>2, <2>1
    <2>3. noted[r] \in ArpEntries /\ noted[r].ip = h /\ noted[r].fresh = arp[r].fresh /\ noted[r].quiet = b
      BY <2>2 DEF Named, ArpEntries
    <2>4. \A t \in Refs : t # r => noted[t] = arp[t]
      BY <1>2, <2>1
    <2>5. noted \in [Refs -> ArpEntries]
      BY <1>2, <2>1, <2>3
    <2> QED BY <2>3, <2>4, <2>5
  <1>5. \A i \in 1 .. OptSize : /\ OptAt(i) \in Refs /\ (i = OptSize => OptAt(i) = r)
                                /\ i # OptSize => i \in 1 .. n_pkts /\ noted[OptAt(i)] = arp[OptAt(i)]
    <2> SUFFICES ASSUME NEW i \in 1 .. OptSize
                 PROVE  /\ OptAt(i) \in Refs /\ (i = OptSize => OptAt(i) = r)
                        /\ i # OptSize => i \in 1 .. n_pkts /\ noted[OptAt(i)] = arp[OptAt(i)]
      OBVIOUS
    <2>1. OptAt(i) \in Refs /\ (i # OptSize => OptAt(i) # r)
      BY <1>1, RefKinds, RefsDiffer
    <2>2. i # OptSize => i \in 1 .. n_pkts
      BY <1>1
    <2> QED BY <1>4, <2>1, <2>2
  <1>6. /\ Copied(noted) \in [Refs -> ArpEntries]
        /\ \A t \in Refs : t[1] # "slot" => Copied(noted)[t] = noted[t]
        /\ \A i \in 1 .. Cardinality(Ips) : i <= OptSize => Copied(noted)[SlotAt(i)] = noted[OptAt(i)]
        /\ \A i \in 1 .. Cardinality(Ips) : ~ (i <= OptSize) => Copied(noted)[SlotAt(i)] = noted[SlotAt(i)]
    <2>1. \A t \in Refs : t[1] = "slot" /\ t[2] <= OptSize => OptAt(t[2]) \in Refs
      <3> SUFFICES ASSUME NEW t \in Refs, t[1] = "slot", t[2] <= OptSize PROVE OptAt(t[2]) \in Refs
        OBVIOUS
      <3>1. PICK i \in 1 .. Cardinality(Ips) : t = SlotAt(i)
        BY RefKinds
      <3>2. i \in 1 .. OptSize
        BY <1>1, <3>1, RefsDiffer, FS_CardinalityType, L3TableAssumption
      <3> QED BY <1>5, <3>1, <3>2, RefsDiffer
    <2>2. Copied(noted) \in [Refs -> ArpEntries]
      BY <1>4, <2>1 DEF Copied
    <2> QED BY <2>2, RefKinds, RefsDiffer DEF Copied
  <1>7. /\ arp' \in [Refs -> ArpEntries]
        /\ \A t \in Refs : t[1] # "slot" => /\ arp'[t].ip = noted[t].ip /\ arp'[t].mac = noted[t].mac
                                            /\ arp'[t].fresh = noted[t].fresh
        /\ \A i \in 1 .. Cardinality(Ips) : i <= OptSize => arp'[SlotAt(i)] = noted[OptAt(i)]
        /\ \A i \in 1 .. Cardinality(Ips) : ~ (i <= OptSize) => arp'[SlotAt(i)] = noted[SlotAt(i)]
    <2>1. PICK table \in [Refs -> ArpEntries] : table = Copied(noted)
      BY <1>6
    <2>2. PICK done : done = arp'
      OBVIOUS
    <2>3. done = [table EXCEPT ![r].quiet = TRUE]
      BY <1>3, <2>1, <2>2
    <2>4. /\ done \in [Refs -> ArpEntries]
          /\ done[r].ip = table[r].ip /\ done[r].fresh = table[r].fresh /\ done[r].mac = table[r].mac
          /\ \A t \in Refs : t # r => done[t] = table[t]
      <3>1. done[r] = [table[r] EXCEPT !.quiet = TRUE] /\ table[r] \in ArpEntries
        BY <2>3
      <3>2. /\ done[r] \in ArpEntries /\ done[r].ip = table[r].ip
            /\ done[r].fresh = table[r].fresh /\ done[r].mac = table[r].mac
        BY <3>1 DEF ArpEntries
      <3> QED BY <2>3, <3>2
    <2>5. \A i \in 1 .. Cardinality(Ips) : SlotAt(i) \in Refs /\ SlotAt(i) # r
      BY <1>1, RefKinds, RefsDiffer
    <2> QED BY <1>1, <1>6, <2>1, <2>2, <2>4, <2>5
  <1>8. UNCHANGED <<l3_kind, mac_known, lpm, nb_gws, former_gw>>
    BY DEF l3_config
  <1>9. asked' = asked \cup {h} /\ waiting' = waiting \cup {h}
    BY DEF Ask
  <1>10. \A i, j \in 1 .. OptSize : noted[OptAt(i)].ip \in Ips /\ (noted[OptAt(i)].ip = noted[OptAt(j)].ip => i = j)
    <2> SUFFICES ASSUME NEW i \in 1 .. OptSize, NEW j \in 1 .. OptSize
                 PROVE  noted[OptAt(i)].ip \in Ips /\ (noted[OptAt(i)].ip = noted[OptAt(j)].ip => i = j)
      OBVIOUS
    <2>1. \A k \in 1 .. n_pkts : arp[OptAt(k)].ip \in Ips
      BY DEF L3Inv, EntriesDistinct
    <2>2. CASE i = OptSize
      BY <1>1, <1>4, <1>5, <2>1, <2>2
    <2>3. CASE i # OptSize /\ j = OptSize
      BY <1>1, <1>4, <1>5, <2>1, <2>3
    <2>4. CASE i # OptSize /\ j # OptSize
      BY <1>5, <2>1, <2>4 DEF L3Inv, EntriesDistinct
    <2> QED BY <2>2, <2>3, <2>4
  <1>11. /\ ip_hash' \in Seq(Ips) /\ Len(ip_hash') = OptSize
         /\ \A i \in 1 .. OptSize : ip_hash'[i] = noted[OptAt(i)].ip
    <2>1. ip_hash' \in [1 .. OptSize -> Ips]
      BY <1>3, <1>10
    <2>2. \A i \in 1 .. OptSize : ip_hash'[i] = noted[OptAt(i)].ip
      BY <1>3
    <2> QED BY <1>1, <2>1, <2>2
  <1>12. OptSize <= Cardinality(Ips) /\ Cardinality(Ips) \in Nat
    <2>1. \A i, j \in 1 .. Len(ip_hash') : ip_hash'[i] = ip_hash'[j] => i = j
      BY <1>10, <1>11
    <2> QED BY <1>11, <2>1, KeysFit, FS_CardinalityType, L3TableAssumption
  <1>13. L3TypeOK'
    BY <1>1, <1>3, <1>7, <1>8, <1>9, <1>11 DEF L3Inv, L3TypeOK
  <1>14. TablesUsed'
    <2>1. arp'[Gw].ip = arp[Gw].ip
      BY <1>1, <1>4, <1>7, RefKinds, RefsDiffer
    <2> QED BY <1>1, <1>3, <1>8, <2>1 DEF L3Inv, TablesUsed
  <1>15. EntriesDistinct'
    <2>1. \A i \in 1 .. OptSize : arp'[OptAt(i)].ip = noted[OptAt(i)].ip
      BY <1>5, <1>7, RefsDiffer
    <2>2. \A i, j \in 1 .. OptSize : /\ arp'[OptAt(i)].ip \in Ips
                                     /\ arp'[OptAt(i)].ip = arp'[OptAt(j)].ip => i = j
      BY <1>10, <2>1
    <2>3. \A i, j \in 1 .. OptSize : ip_hash'[i] = ip_hash'[j] => i = j
      BY <1>10, <1>11
    <2>4. n_pkts' = OptSize /\ Len(ip_hash)' = OptSize
      BY <1>3, <1>11
    <2> QED BY <2>2, <2>3, <2>4 DEF EntriesDistinct
  <1>16. \A i \in 1 .. OptSize : noted[OptAt(i)].fresh => noted[OptAt(i)].mac = noted[OptAt(i)].ip
    <2> SUFFICES ASSUME NEW i \in 1 .. OptSize, noted[OptAt(i)].fresh
                 PROVE  noted[OptAt(i)].mac = noted[OptAt(i)].ip
      OBVIOUS
    <2>1. i # OptSize
      BY <1>1, <1>4, <1>5
    <2> QED BY <1>5, <2>1 DEF L3Inv, FreshRight
  <1>17. FreshRight'
    <2>1. \A i \in 1 .. MaxHops : arp'[HopAt(i)].fresh => arp'[HopAt(i)].mac # NoIp
      <3> SUFFICES ASSUME NEW i \in 1 .. MaxHops, arp'[HopAt(i)].fresh PROVE arp'[HopAt(i)].mac # NoIp
        OBVIOUS
      <3>1. HopAt(i) \in Refs /\ HopAt(i) # r
        BY <1>1, RefKinds, RefsDiffer
      <3> QED BY <1>4, <1>7, <3>1, RefsDiffer DEF L3Inv, FreshRight
    <2>2. \A i \in 1 .. OptSize : arp'[OptAt(i)].fresh => i <= OptSize /\ arp'[OptAt(i)].mac = arp'[OptAt(i)].ip
      BY <1>1, <1>5, <1>7, <1>16, RefsDiffer
    <2>3. ASSUME NEW i \in 1 .. Cardinality(Ips), arp'[SlotAt(i)].fresh
          PROVE  i <= OptSize /\ arp'[SlotAt(i)].mac = ip_hash'[i]
      <3>1. CASE i <= OptSize
        BY <1>1, <1>7, <1>11, <1>16, <2>3, <3>1
      <3>2. CASE ~ (i <= OptSize)
        <4>1. SlotAt(i) \in Refs /\ SlotAt(i) # r
          BY <1>1, RefKinds, RefsDiffer
        <4>2. arp[SlotAt(i)].fresh
          BY <1>4, <1>7, <2>3, <3>2, <4>1
        <4>3. i <= Len(ip_hash)
          BY <4>2 DEF L3Inv, FreshRight
        <4> QED BY <1>1, <4>3
      <3> QED BY <3>1, <3>2
    <2> QED BY <1>1, <1>3, <1>8, <1>11, <2>1, <2>2, <2>3 DEF FreshRight
  <1>18. ASSUME l3_kind = "ip6", NEW a \in waiting'
         PROVE  \E i \in 1 .. OptSize : noted[OptAt(i)].ip = a /\ noted[OptAt(i)].quiet
    <2>1. CASE a = h
      BY <1>1, <1>4, <1>5, <1>18, <2>1
    <2>2. CASE a \in waiting /\ a # h
      <3>1. PICK t \in Refs : InUse(t) /\ Owner(t) = a /\ arp[t].quiet
        BY <1>18, <2>2 DEF L3Inv, WaitsQuiet
      <3>2. t[1] # "gw" /\ t[1] # "hop" /\ t[1] # "slot"
        BY <1>1, <1>18, <3>1, RefKinds, RefsDiffer DEF InUse
      <3>3. PICK i \in 1 .. OptSize : t = OptAt(i)
        BY <3>2, RefKinds, RefsDiffer
      <3>4. i <= n_pkts
        BY <3>1, <3>3, RefsDiffer DEF InUse
      <3>5. i # OptSize
        BY <1>1, <3>4
      <3> QED BY <1>5, <3>1, <3>3, <3>5, RefsDiffer DEF Owner
    <2> QED BY <1>9, <2>1, <2>2
  <1>19. WaitsQuiet'
    <2> SUFFICES ASSUME l3_kind = "ip6", NEW a \in waiting'
                 PROVE  \E t \in Refs : InUse(t)' /\ Owner(t)' = a /\ arp'[t].quiet
      BY <1>1, <1>3, <1>8 DEF WaitsQuiet
    <2>1. PICK i \in 1 .. OptSize : noted[OptAt(i)].ip = a /\ noted[OptAt(i)].quiet
      BY <1>18
    <2>2. i \in 1 .. Cardinality(Ips) /\ i <= OptSize
      BY <1>1, <1>12, <2>1
    <2>3. SlotAt(i) \in Refs /\ arp'[SlotAt(i)] = noted[OptAt(i)]
      BY <1>7, <2>2, RefKinds
    <2>4. InUse(SlotAt(i))' /\ Owner(SlotAt(i))' = a
      BY <1>11, <2>1, <2>2, RefsDiffer DEF InUse, Owner
    <2> QED BY <2>1, <2>3, <2>4
  <1>20. RightMac' /\ RequestsPaced'
    BY <1>1, <1>3, <1>8, KeptFor DEF L3Inv, L3TypeOK
  <1>21. ASSUME NEW t \in Refs, InUse(t), arp[t].fresh
         PROVE  \E s \in Refs : /\ InUse(s)' /\ Owner(s)' = Owner(t) /\ arp'[s].fresh
                                /\ s = Gw => t = Gw
                                /\ l3_kind = "routes" => s = t
    <2>1. t[1] # "gw" /\ t[1] # "hop" /\ t[1] # "slot"
      BY <1>1, <1>21, RefKinds, RefsDiffer DEF InUse
    <2>2. PICK i \in 1 .. OptSize : t = OptAt(i)
      BY <2>1, RefKinds, RefsDiffer
    <2>3. i <= n_pkts
      BY <1>21, <2>2, RefsDiffer DEF InUse
    <2>4. i # OptSize
      BY <1>1, <2>3
    <2>5. noted[OptAt(i)] = arp[t] /\ Owner(t) = arp[t].ip
      BY <1>5, <2>2, <2>4, RefsDiffer DEF Owner
    <2>6. i \in 1 .. Cardinality(Ips) /\ i <= OptSize
      BY <1>1, <1>12, <2>2
    <2>7. SlotAt(i) \in Refs /\ arp'[SlotAt(i)] = noted[OptAt(i)]
      BY <1>7, <2>6, RefKinds
    <2>8. InUse(SlotAt(i))' /\ Owner(SlotAt(i))' = noted[OptAt(i)].ip
      BY <1>11, <2>6, RefsDiffer DEF InUse, Owner
    <2>9. SlotAt(i) # Gw
      BY RefsDiffer
    <2> QED BY <1>1, <1>21, <2>5, <2>7, <2>8, <2>9
  <1>22. HopsKept
    <2>1. \A t \in Refs : t[1] \in {"gw", "hop"} => arp'[t].ip = arp[t].ip
      BY <1>1, <1>4, <1>7
    <2> QED BY <1>8, <2>1, RefKinds, RefsDiffer, HopsInUse, SameHops
  <1> QED BY <1>13, <1>14, <1>15, <1>17, <1>19, <1>20, <1>21, <1>22 DEF L3Inv, EntriesKept

\* An address gets the next position of the hash.
LEMMA NewPosition ==
  ASSUME L3Inv, NEW h \in Ips, Position(h) = New, ip_hash' = Append(ip_hash, h)
  PROVE  /\ ip_hash' \in Seq(Ips) /\ Len(ip_hash)' = Len(ip_hash) + 1 /\ Len(ip_hash) \in Nat
         /\ \A i \in 1 .. Len(ip_hash) : ip_hash'[i] = ip_hash[i]
         /\ ip_hash'[Len(ip_hash) + 1] = h
         /\ \A i, j \in 1 .. Len(ip_hash)' : ip_hash'[i] = ip_hash'[j] => i = j
         /\ Len(ip_hash) + 1 \in 1 .. Cardinality(Ips) /\ SlotAt(Len(ip_hash) + 1) \in Refs
  <1>1. ip_hash \in Seq(Ips) /\ \A i, j \in 1 .. Len(ip_hash) : ip_hash[i] = ip_hash[j] => i = j
    BY DEF L3Inv, L3TypeOK, EntriesDistinct
  <1>2. /\ Len(ip_hash) \in Nat /\ \A i \in 1 .. Len(ip_hash) : ip_hash[i] # h
        /\ Len(ip_hash) + 1 \in 1 .. Cardinality(Ips) /\ SlotAt(Len(ip_hash) + 1) \in Refs
    BY Positions
  <1>3. /\ ip_hash' \in Seq(Ips) /\ Len(ip_hash)' = Len(ip_hash) + 1
        /\ \A i \in 1 .. Len(ip_hash) : ip_hash'[i] = ip_hash[i]
        /\ ip_hash'[Len(ip_hash) + 1] = h
    BY <1>1
  <1>4. ASSUME NEW i \in 1 .. Len(ip_hash)', NEW j \in 1 .. Len(ip_hash)', ip_hash'[i] = ip_hash'[j]
        PROVE  i = j
    <2>1. i \in 1 .. Len(ip_hash) \/ i = Len(ip_hash) + 1
      BY <1>2, <1>3
    <2>2. j \in 1 .. Len(ip_hash) \/ j = Len(ip_hash) + 1
      BY <1>2, <1>3
    <2> QED BY <1>1, <1>2, <1>3, <1>4, <2>1, <2>2
  <1> QED BY <1>2, <1>3, <1>4

\* A packet whose next hop is in no table, once the linear table is not used.
LEMMA NewKey ==
  ASSUME L3Inv, NEW ip \in Ips, Ref(ip) = New, ~ (l3_kind # "routes" /\ n_pkts < OptSize)
  PROVE  /\ l3_kind \in {"routes", "table", "ip6"} /\ Position(Hop(ip)) = New
         /\ l3_kind # "routes" => n_pkts = OptSize
  <1>1. l3_kind \in {"routes", "gateway", "table", "ip6"} /\ n_pkts \in 0 .. OptSize
    BY DEF L3Inv, L3TypeOK
  <1>2. l3_kind # "gateway"
    BY RefsDiffer DEF Ref, Routed
  <1>3. CASE l3_kind = "routes"
    <2>1. ~ Routed(ip)
      BY RefsDiffer DEF Ref
    <2> QED BY <1>3, <2>1 DEF Ref, Hop
  <1>4. CASE l3_kind \in {"table", "ip6"}
    BY <1>1, <1>4, L3TableAssumption DEF Ref, Routed, Searched
  <1> QED BY <1>1, <1>2, <1>3, <1>4

\* An entry is added to the hash.
LEMMA StepHashed ==
  ASSUME L3Inv, NEW ip \in Ips, Ref(ip) = New, Keep(ip, New), Ask(Hop(ip)),
         ~ (l3_kind # "routes" /\ n_pkts < OptSize), add_hashed(Hop(ip)), UNCHANGED l3_config
  PROVE  L3Inv' /\ EntriesKept /\ HopsKept
  <1> PICK h \in Ips : h = Hop(ip)
    BY EntryOfHop
  <1>1. /\ l3_kind \in {"routes", "table", "ip6"} /\ Position(h) = New
        /\ l3_kind # "routes" => n_pkts = OptSize
    BY NewKey
  <1> PICK r : r = SlotAt(StartedAt(Len(ip_hash) + 1))
    OBVIOUS
  <1> PICK nh : nh = IF l3_kind = "ip6" THEN arp[r].nh ELSE NoHop
    OBVIOUS
  <1>2. /\ ip_hash' = Append(ip_hash, h) /\ arp' = [arp EXCEPT ![r] = Named(@, h, TRUE, nh)]
        /\ n_pkts' = n_pkts
    BY DEF add_hashed
  <1>3. /\ r[1] = "slot" /\ (l3_kind # "table" => r = SlotAt(Len(ip_hash) + 1))
        /\ r \in Refs => nh \in {NoHop, 1}
    BY RefsDiffer DEF StartedAt, L3Inv, L3TypeOK, ArpEntries
  <1>4. arp \in [Refs -> ArpEntries]
    BY DEF L3Inv, L3TypeOK
  <1>5. /\ \A t \in Refs : t # r => arp'[t] = arp[t]
        /\ r \in Refs => arp'[r] = Named(arp[r], h, TRUE, nh) /\ arp[r] \in ArpEntries
    BY <1>2, <1>4
  <1>6. r \in Refs => /\ arp'[r] \in ArpEntries /\ arp'[r].quiet
                      /\ arp'[r].mac = arp[r].mac /\ arp'[r].fresh = arp[r].fresh
    BY <1>3, <1>5 DEF Named, ArpEntries
  <1>7. arp' \in [Refs -> ArpEntries]
    BY <1>2, <1>4, <1>5, <1>6
  <1>8. \A t \in Refs : arp'[t].mac = arp[t].mac /\ arp'[t].fresh = arp[t].fresh
    BY <1>5, <1>6
  <1>9. \A t \in Refs : t[1] # "slot" => arp'[t] = arp[t]
    BY <1>3, <1>5
  <1>10. UNCHANGED <<l3_kind, mac_known, lpm, nb_gws, former_gw>>
    BY DEF l3_config
  <1>11. asked' = asked \cup {h} /\ waiting' = waiting \cup {h}
    BY DEF Ask
  <1>12. /\ ip_hash' \in Seq(Ips) /\ Len(ip_hash)' = Len(ip_hash) + 1 /\ Len(ip_hash) \in Nat
         /\ \A i \in 1 .. Len(ip_hash) : ip_hash'[i] = ip_hash[i]
         /\ ip_hash'[Len(ip_hash) + 1] = h
         /\ \A i, j \in 1 .. Len(ip_hash)' : ip_hash'[i] = ip_hash'[j] => i = j
         /\ Len(ip_hash) + 1 \in 1 .. Cardinality(Ips) /\ SlotAt(Len(ip_hash) + 1) \in Refs
    BY <1>1, <1>2, NewPosition
  <1>13. L3TypeOK'
    BY <1>2, <1>7, <1>10, <1>11, <1>12 DEF L3Inv, L3TypeOK
  <1>14. TablesUsed'
    <2>1. arp'[Gw] = arp[Gw]
      BY <1>9, RefKinds, RefsDiffer
    <2>2. ~ (l3_kind # "routes" /\ n_pkts < OptSize)
      OBVIOUS
    <2> QED BY <1>2, <1>10, <2>1, <2>2 DEF L3Inv, TablesUsed
  <1>15. \A i \in 1 .. n_pkts : arp'[OptAt(i)] = arp[OptAt(i)]
    <2>1. \A i \in 1 .. n_pkts : i \in 1 .. OptSize
      BY L3TableAssumption DEF L3Inv, L3TypeOK
    <2> QED BY <1>9, <2>1, RefKinds, RefsDiffer
  <1>16. EntriesDistinct'
    <2>1. n_pkts' = n_pkts
      BY <1>2
    <2>2. \A i, j \in 1 .. n_pkts : /\ arp'[OptAt(i)].ip \in Ips
                                    /\ arp'[OptAt(i)].ip = arp'[OptAt(j)].ip => i = j
      BY <1>15 DEF L3Inv, EntriesDistinct
    <2> QED BY <1>12, <2>1, <2>2 DEF EntriesDistinct
  <1>17. FreshRight'
    <2>1. \A i \in 1 .. OptSize : arp'[OptAt(i)] = arp[OptAt(i)]
      BY <1>9, RefKinds, RefsDiffer
    <2>2. \A i \in 1 .. MaxHops : arp'[HopAt(i)] = arp[HopAt(i)]
      BY <1>9, RefKinds, RefsDiffer
    <2>3. arp'[Gw] = arp[Gw]
      BY <1>9, RefKinds, RefsDiffer
    <2>4. ASSUME NEW i \in 1 .. Cardinality(Ips), arp'[SlotAt(i)].fresh
          PROVE  i <= Len(ip_hash)' /\ arp'[SlotAt(i)].mac = ip_hash'[i]
      <3>1. arp[SlotAt(i)].fresh /\ arp'[SlotAt(i)].mac = arp[SlotAt(i)].mac
        BY <1>8, <2>4, RefKinds
      <3>2. i <= Len(ip_hash) /\ arp[SlotAt(i)].mac = ip_hash[i]
        BY <3>1 DEF L3Inv, FreshRight
      <3> QED BY <1>12, <3>1, <3>2
    <2> QED BY <1>2, <1>10, <2>1, <2>2, <2>3, <2>4 DEF L3Inv, FreshRight
  <1>18. WaitsQuiet'
    <2>1. CASE l3_kind = "table"
      BY <1>1, <1>2, <1>10, <2>1 DEF WaitsQuiet
    <2>2. CASE l3_kind # "table"
      <3>1. /\ r = SlotAt(Len(ip_hash) + 1) /\ r \in Refs /\ arp'[r].quiet
            /\ InUse(r)' /\ Owner(r)' = h
        BY <1>3, <1>6, <1>12, <2>2, RefsDiffer DEF InUse, Owner
      <3>2. ASSUME NEW a \in waiting PROVE \E t \in Refs : InUse(t)' /\ Owner(t)' = a /\ arp'[t].quiet
        <4>1. PICK t \in Refs : InUse(t) /\ Owner(t) = a /\ arp[t].quiet
          BY <2>2 DEF L3Inv, WaitsQuiet
        <4>2. CASE t[1] # "slot"
          <5>1. arp'[t] = arp[t] /\ l3_kind' = l3_kind /\ n_pkts' = n_pkts /\ nb_gws' = nb_gws
            BY <1>2, <1>9, <1>10, <4>2
          <5>2. InUse(t)' /\ Owner(t)' = a
            <6>1. Owner(t)' = a
              BY <4>1, <4>2, <5>1 DEF Owner
            <6>2. InUse(t)'
              BY <4>1, <4>2, <5>1, RefKinds, RefsDiffer DEF InUse
            <6> QED BY <6>1, <6>2
          <5> QED BY <4>1, <5>1, <5>2
        <4>3. CASE \E i \in 1 .. Cardinality(Ips) : t = SlotAt(i)
          <5>1. PICK i \in 1 .. Cardinality(Ips) : t = SlotAt(i)
            BY <4>3
          <5>2. i \in 1 .. Len(ip_hash) /\ ip_hash[i] = a
            BY <1>12, <4>1, <5>1, RefsDiffer DEF InUse, Owner
          <5>3. t # r
            BY <1>12, <3>1, <5>1, <5>2, RefsDiffer
          <5>4. InUse(t)' /\ Owner(t)' = a
            BY <1>12, <5>1, <5>2, RefsDiffer DEF InUse, Owner
          <5> QED BY <1>5, <4>1, <5>3, <5>4
        <4> QED BY <4>2, <4>3, RefKinds
      <3> QED BY <1>11, <3>1, <3>2 DEF WaitsQuiet
    <2> QED BY <2>1, <2>2
  <1>19. RightMac' /\ RequestsPaced'
    <2>1. \A i \in 1 .. nb_gws : arp'[HopAt(i)].ip = arp[HopAt(i)].ip
      <3>1. \A i \in 1 .. nb_gws : i \in 1 .. MaxHops
        BY L3TableAssumption DEF L3Inv, L3TypeOK
      <3> QED BY <1>9, <3>1, RefKinds, RefsDiffer
    <2>2. n_pkts' \in n_pkts .. OptSize
      BY <1>2, L3TableAssumption DEF L3Inv, L3TypeOK
    <2> QED BY <1>10, <2>1, <2>2, KeptFor
  <1>20. ASSUME NEW t \in Refs, InUse(t)
         PROVE  InUse(t)' /\ Owner(t)' = Owner(t)
    <2>1. CASE t[1] # "slot"
      <3>1. arp'[t] = arp[t] /\ l3_kind' = l3_kind /\ n_pkts' = n_pkts /\ nb_gws' = nb_gws
        BY <1>2, <1>9, <1>10, <2>1
      <3>2. Owner(t)' = Owner(t)
        BY <2>1, <3>1 DEF Owner
      <3>3. InUse(t)'
        BY <1>20, <2>1, <3>1, RefKinds, RefsDiffer DEF InUse
      <3> QED BY <3>2, <3>3
    <2>2. CASE \E i \in 1 .. Cardinality(Ips) : t = SlotAt(i)
      <3>1. PICK i \in 1 .. Cardinality(Ips) : t = SlotAt(i)
        BY <2>2
      <3>2. i \in 1 .. Len(ip_hash) /\ Owner(t) = ip_hash[i]
        BY <1>12, <1>20, <3>1, RefsDiffer DEF InUse, Owner
      <3> QED BY <1>12, <3>1, <3>2, RefsDiffer DEF InUse, Owner
    <2> QED BY <2>1, <2>2, RefKinds
  <1>21. EntriesKept
    BY <1>8, <1>20, SameEntries
  <1>22. HopsKept
    BY <1>9, <1>10, RefKinds, RefsDiffer, HopsInUse, SameHops
  <1> QED BY <1>13, <1>14, <1>16, <1>17, <1>18, <1>19, <1>21, <1>22 DEF L3Inv

\* Nothing was sent.
LEMMA NothingSent ==
  ASSUME l3_sent' = Idle
  PROVE  RightMac' /\ RequestsPaced'
  <1>1. l3_sent'.mac = NoIp /\ l3_sent'.to = NoIp /\ l3_sent'.early = NoIp
    BY DEF Idle
  <1> QED BY <1>1 DEF RightMac, RequestsPaced

\* A packet, with or without an entry for its next hop.
LEMMA StepSend ==
  ASSUME L3Inv, NEW ip \in Ips, Send(ip)
  PROVE  L3Inv' /\ EntriesKept /\ HopsKept
  <1>1. UNCHANGED l3_config
    BY DEF Send
  <1>2. CASE l3_kind = "routes" /\ lpm[ip] = 0
    <2>1. l3_sent' = Idle /\ UNCHANGED <<arp, n_pkts, ip_hash, asked, waiting>>
      BY <1>2 DEF Send
    <2>2. RightMac' /\ RequestsPaced'
      BY <2>1, NothingSent
    <2>3. L3TypeOK' /\ TablesUsed' /\ EntriesDistinct' /\ FreshRight'
      BY <1>1, <2>1 DEF L3Inv, L3TypeOK, TablesUsed, EntriesDistinct, FreshRight, l3_config
    <2>4. WaitsQuiet'
      BY <1>1, <2>1 DEF L3Inv, WaitsQuiet, InUse, Owner, l3_config
    <2>5. EntriesKept
      <3>1. \A t \in Refs : InUse(t)' = InUse(t) /\ Owner(t)' = Owner(t)
        BY <1>1, <2>1 DEF InUse, Owner, l3_config
      <3> QED BY <2>1, <3>1, SameEntries
    <2>6. HopsKept
      BY <1>1, <2>1, SameHops DEF l3_config
    <2> QED BY <2>2, <2>3, <2>4, <2>5, <2>6 DEF L3Inv
  <1>3. CASE ~ (l3_kind = "routes" /\ lpm[ip] = 0) /\ Ref(ip) # New
    <2>1. update_mac_and_send_mbuf(ip, Ref(ip))
      BY <1>3 DEF Send
    <2> QED BY <1>1, <1>3, <2>1, StepUpdate
  <1>4. CASE ~ (l3_kind = "routes" /\ lpm[ip] = 0) /\ Ref(ip) = New
    <2>1. /\ Keep(ip, New) /\ Ask(Hop(ip))
          /\ IF l3_kind # "routes" /\ n_pkts < OptSize
             THEN add_linear(Hop(ip)) ELSE add_hashed(Hop(ip))
      BY <1>4 DEF Send
    <2> QED BY <1>1, <1>4, <2>1, StepLinear, StepFull, StepHashed
  <1> QED BY <1>2, <1>3, <1>4

-----------------------------------------------------------------------------
(***************************************************************************)
(* The messages of the master.                                             *)
(***************************************************************************)

\* The keys once an address was added, if it was not there.
LEMMA HashedKeys ==
  ASSUME L3Inv, NEW ip \in Ips, ip_hash' = Hashed(ip)
  PROVE  /\ ip_hash' \in Seq(Ips) /\ Len(ip_hash) <= Len(ip_hash)' /\ Len(ip_hash) \in Nat
         /\ Len(ip_hash)' \in Nat
         /\ \A i \in 1 .. Len(ip_hash) : ip_hash'[i] = ip_hash[i]
         /\ \A i, j \in 1 .. Len(ip_hash)' : ip_hash'[i] = ip_hash'[j] => i = j
         /\ \E i \in 1 .. Len(ip_hash)' : Added(ip) = SlotAt(i) /\ ip_hash'[i] = ip
         /\ Added(ip) \in Refs
  <1>1. CASE Position(ip) = New
    <2>1. ip_hash' = Append(ip_hash, ip) /\ Added(ip) = SlotAt(Len(ip_hash) + 1)
      BY <1>1 DEF Hashed, Added
    <2> QED BY <1>1, <2>1, NewPosition
  <1>2. CASE Position(ip) # New
    <2>1. ip_hash' = ip_hash /\ Added(ip) = Position(ip)
      BY <1>2 DEF Hashed, Added
    <2> QED BY <1>2, <2>1, Positions DEF L3Inv, L3TypeOK, EntriesDistinct
  <1> QED BY <1>1, <1>2

\* Where an answer is noted.
LEMMA LearntPlace ==
  ASSUME L3Inv, NEW ip \in Ips, mac_info(ip)
  PROVE  /\ \/ LearntAt(ip) = New /\ ip_hash' = ip_hash
            \/ /\ LearntAt(ip) \in Refs
               /\ \/ \E i \in 1 .. MaxHops : LearntAt(ip) = HopAt(i)
                  \/ LearntAt(ip) = Gw /\ arp[Gw].ip = ip
                  \/ \E i \in 1 .. n_pkts : LearntAt(ip) = OptAt(i) /\ arp[OptAt(i)].ip = ip
                  \/ \E i \in 1 .. Len(ip_hash)' : LearntAt(ip) = SlotAt(i) /\ ip_hash'[i] = ip
         /\ ip_hash' \in Seq(Ips) /\ Len(ip_hash) <= Len(ip_hash)' /\ Len(ip_hash) \in Nat
         /\ Len(ip_hash)' \in Nat
         /\ \A i \in 1 .. Len(ip_hash) : ip_hash'[i] = ip_hash[i]
         /\ \A i, j \in 1 .. Len(ip_hash)' : ip_hash'[i] = ip_hash'[j] => i = j
         /\ l3_kind # "routes" /\ n_pkts < OptSize => ip_hash' = <<>>
  <1>1. /\ l3_kind \in {"routes", "gateway", "table", "ip6"}
        /\ \A t \in Refs : arp[t].nh \in {NoHop, 1}
        /\ n_pkts \in 0 .. OptSize
        /\ l3_kind # "routes" /\ n_pkts < OptSize => ip_hash = <<>>
        /\ ip_hash \in Seq(Ips) /\ Len(ip_hash) \in Nat
        /\ \A i, j \in 1 .. Len(ip_hash) : ip_hash[i] = ip_hash[j] => i = j
    BY LenProperties DEF L3Inv, L3TypeOK, TablesUsed, EntriesDistinct, ArpEntries
  <1>2. ip_hash' = IF l3_kind = "routes" \/ LearntAt(ip)[1] = "slot" THEN Hashed(ip) ELSE ip_hash
    BY DEF mac_info
  <1>3. CASE l3_kind = "routes"
    <2>1. ip_hash' = Hashed(ip)
      BY <1>2, <1>3
    <2>2. CASE arp[Added(ip)].nh # NoHop
      <3>1. LearntAt(ip) = HopAt(1)
        BY <1>1, <1>3, <2>1, <2>2, HashedKeys DEF LearntAt
      <3>2. 1 \in 1 .. MaxHops
        BY L3TableAssumption
      <3> QED BY <1>3, <2>1, <3>1, <3>2, RefKinds, HashedKeys
    <2>3. CASE ~ (arp[Added(ip)].nh # NoHop)
      <3>1. LearntAt(ip) = Added(ip)
        BY <1>3, <2>3 DEF LearntAt
      <3> QED BY <1>3, <2>1, <3>1, HashedKeys
    <2> QED BY <2>2, <2>3
  <1>4. CASE l3_kind = "gateway" /\ ip = arp[Gw].ip
    <2>1. LearntAt(ip) = Gw
      BY <1>4 DEF LearntAt
    <2>2. ip_hash' = ip_hash
      BY <1>2, <1>4, <2>1, RefsDiffer
    <2> QED BY <1>1, <1>4, <2>1, <2>2, RefKinds
  <1>5. CASE l3_kind # "routes" /\ ~ (l3_kind = "gateway" /\ ip = arp[Gw].ip) /\ n_pkts < OptSize
    <2>1. LearntAt(ip) = Linear(ip)
      BY <1>5 DEF LearntAt
    <2>2. CASE Linear(ip) = New
      <3>1. ip_hash' = ip_hash
        BY <1>2, <1>5, <2>1, <2>2, RefsDiffer
      <3> QED BY <1>1, <1>5, <2>1, <2>2, <3>1
    <2>3. CASE Linear(ip) # New
      <3>1. PICK i \in 1 .. n_pkts : Linear(ip) = OptAt(i) /\ arp[OptAt(i)].ip = ip /\ OptAt(i) \in Refs
        BY <2>3, LinearPlaces
      <3>2. ip_hash' = ip_hash
        BY <1>2, <1>5, <2>1, <3>1, RefsDiffer
      <3> QED BY <1>1, <1>5, <2>1, <3>1, <3>2
    <2> QED BY <2>2, <2>3
  <1>6. CASE l3_kind # "routes" /\ ~ (l3_kind = "gateway" /\ ip = arp[Gw].ip) /\ ~ (n_pkts < OptSize)
    <2>1. LearntAt(ip) = Added(ip)
      BY <1>6 DEF LearntAt
    <2>2. Added(ip)[1] = "slot"
      <3>1. CASE Position(ip) = New
        BY <3>1, RefsDiffer DEF Added
      <3>2. CASE Position(ip) # New
        BY <3>2, Positions, RefsDiffer DEF Added
      <3> QED BY <3>1, <3>2
    <2>3. ip_hash' = Hashed(ip)
      BY <1>2, <2>1, <2>2
    <2> QED BY <1>6, <2>1, <2>3, HashedKeys
  <1> QED BY <1>1, <1>3, <1>4, <1>5, <1>6

\* What an entry is once the MAC address was noted.
LEMMA LearntEntry ==
  ASSUME L3Inv, NEW ip \in Ips, mac_info(ip), UNCHANGED l3_kind
  PROVE  /\ arp' \in [Refs -> ArpEntries]
         /\ \A t \in Refs : /\ arp'[t].ip = arp[t].ip /\ (arp[t].quiet => arp'[t].quiet)
                            /\ t # LearntAt(ip) => arp'[t] = arp[t]
                            /\ t = LearntAt(ip) => arp'[t].mac = ip /\ arp'[t].fresh
  <1> PICK r : r = LearntAt(ip)
    OBVIOUS
  <1>1. arp \in [Refs -> ArpEntries]
    BY DEF L3Inv, L3TypeOK
  <1>2. CASE r = New
    <2>1. arp' = arp /\ r \notin Refs
      BY <1>2, RefKinds DEF mac_info
    <2> QED BY <1>1, <2>1
  <1>3. CASE r # New
    <2>1. arp' = [arp EXCEPT ![r] = Learnt(@, ip)]
      BY <1>3 DEF mac_info
    <2>2. r \in Refs
      BY <1>3, LearntPlace
    <2>3. arp'[r] = Learnt(arp[r], ip) /\ arp[r] \in ArpEntries /\ \A t \in Refs : t # r => arp'[t] = arp[t]
      BY <1>1, <2>1, <2>2
    <2>4. /\ arp'[r] \in ArpEntries /\ arp'[r].ip = arp[r].ip /\ arp'[r].mac = ip /\ arp'[r].fresh
          /\ arp[r].quiet => arp'[r].quiet
      BY <2>3 DEF Learnt, ArpEntries
    <2>5. arp' \in [Refs -> ArpEntries]
      BY <1>1, <2>1, <2>4
    <2> QED BY <2>3, <2>4, <2>5
  <1> QED BY <1>2, <1>3

\* An answer.
LEMMA StepLearnt ==
  ASSUME L3Inv, NEW ip \in Ips, mac_info(ip), l3_sent' = Idle, UNCHANGED <<l3_kind, former_gw>>
  PROVE  L3Inv' /\ EntriesKept /\ HopsKept
  <1> PICK r : r = LearntAt(ip)
    OBVIOUS
  <1>1. /\ UNCHANGED <<n_pkts, nb_gws, lpm, asked, waiting>> /\ mac_known' = (mac_known \/ r = Gw)
    BY DEF mac_info
  <1>2. /\ \/ r = New /\ ip_hash' = ip_hash
           \/ /\ r \in Refs
              /\ \/ \E i \in 1 .. MaxHops : r = HopAt(i)
                 \/ r = Gw /\ arp[Gw].ip = ip
                 \/ \E i \in 1 .. n_pkts : r = OptAt(i) /\ arp[OptAt(i)].ip = ip
                 \/ \E i \in 1 .. Len(ip_hash)' : r = SlotAt(i) /\ ip_hash'[i] = ip
        /\ ip_hash' \in Seq(Ips) /\ Len(ip_hash) <= Len(ip_hash)' /\ Len(ip_hash) \in Nat
        /\ Len(ip_hash)' \in Nat
        /\ \A i \in 1 .. Len(ip_hash) : ip_hash'[i] = ip_hash[i]
        /\ \A i, j \in 1 .. Len(ip_hash)' : ip_hash'[i] = ip_hash'[j] => i = j
        /\ l3_kind # "routes" /\ n_pkts < OptSize => ip_hash' = <<>>
    BY LearntPlace
  <1>3. /\ arp' \in [Refs -> ArpEntries]
        /\ \A t \in Refs : /\ arp'[t].ip = arp[t].ip /\ (arp[t].quiet => arp'[t].quiet)
                           /\ t # r => arp'[t] = arp[t]
                           /\ t = r => arp'[t].mac = ip /\ arp'[t].fresh
    BY LearntEntry
  <1>4. L3TypeOK'
    BY <1>1, <1>2, <1>3 DEF L3Inv, L3TypeOK
  <1>5. TablesUsed'
    <2>1. arp'[Gw].ip = arp[Gw].ip
      BY <1>3, RefKinds
    <2> QED BY <1>1, <1>2, <2>1 DEF L3Inv, TablesUsed
  <1>6. EntriesDistinct'
    <2>1. \A i \in 1 .. n_pkts : arp'[OptAt(i)].ip = arp[OptAt(i)].ip
      <3>1. \A i \in 1 .. n_pkts : i \in 1 .. OptSize
        BY L3TableAssumption DEF L3Inv, L3TypeOK
      <3> QED BY <1>3, <3>1, RefKinds
    <2>2. n_pkts' = n_pkts
      BY <1>1
    <2>3. \A i, j \in 1 .. n_pkts : /\ arp'[OptAt(i)].ip \in Ips
                                    /\ arp'[OptAt(i)].ip = arp'[OptAt(j)].ip => i = j
      BY <2>1 DEF L3Inv, EntriesDistinct
    <2> QED BY <1>2, <2>2, <2>3 DEF EntriesDistinct
  <1>7. FreshRight'
    <2>1. ASSUME NEW i \in 1 .. MaxHops, arp'[HopAt(i)].fresh PROVE arp'[HopAt(i)].mac # NoIp
      <3>1. HopAt(i) \in Refs
        BY RefKinds
      <3>2. CASE HopAt(i) = r
        BY <1>3, <3>1, <3>2, L3TableAssumption
      <3>3. CASE HopAt(i) # r
        BY <1>3, <2>1, <3>1, <3>3 DEF L3Inv, FreshRight
      <3> QED BY <3>2, <3>3
    <2>2. ASSUME l3_kind = "gateway", arp'[Gw].fresh
          PROVE  arp'[Gw].mac \in {arp'[Gw].ip} \cup former_gw
      <3>1. CASE Gw = r
        BY <1>2, <1>3, <3>1, RefKinds, RefsDiffer
      <3>2. CASE Gw # r
        BY <1>3, <2>2, <3>2, RefKinds DEF L3Inv, FreshRight
      <3> QED BY <3>1, <3>2
    <2>3. ASSUME NEW i \in 1 .. OptSize, arp'[OptAt(i)].fresh
          PROVE  i <= n_pkts /\ arp'[OptAt(i)].mac = arp'[OptAt(i)].ip
      <3>1. OptAt(i) \in Refs
        BY RefKinds
      <3>2. CASE OptAt(i) = r
        <4>1. r # New /\ r[1] = "opt"
          BY <3>2, RefsDiffer
        <4>2. PICK j \in 1 .. n_pkts : r = OptAt(j) /\ arp[OptAt(j)].ip = ip
          BY <1>2, <4>1, RefsDiffer
        <4>3. i = j
          BY <3>2, <4>2, RefsDiffer
        <4> QED BY <1>3, <3>1, <3>2, <4>2, <4>3
      <3>3. CASE OptAt(i) # r
        BY <1>3, <2>3, <3>1, <3>3 DEF L3Inv, FreshRight
      <3> QED BY <3>2, <3>3
    <2>4. ASSUME NEW i \in 1 .. Cardinality(Ips), arp'[SlotAt(i)].fresh
          PROVE  i <= Len(ip_hash)' /\ arp'[SlotAt(i)].mac = ip_hash'[i]
      <3>1. SlotAt(i) \in Refs
        BY RefKinds
      <3>2. CASE SlotAt(i) = r
        <4>1. r # New /\ r[1] = "slot"
          BY <3>2, RefsDiffer
        <4>2. PICK j \in 1 .. Len(ip_hash)' : r = SlotAt(j) /\ ip_hash'[j] = ip
          BY <1>2, <4>1, RefsDiffer
        <4>3. i = j
          BY <3>2, <4>2, RefsDiffer
        <4> QED BY <1>3, <3>1, <3>2, <4>2, <4>3
      <3>3. CASE SlotAt(i) # r
        <4>1. arp'[SlotAt(i)] = arp[SlotAt(i)]
          BY <1>3, <3>1, <3>3
        <4>2. i <= Len(ip_hash) /\ arp[SlotAt(i)].mac = ip_hash[i]
          BY <2>4, <4>1 DEF L3Inv, FreshRight
        <4> QED BY <1>2, <4>1, <4>2
      <3> QED BY <3>2, <3>3
    <2> QED BY <1>1, <2>1, <2>2, <2>3, <2>4 DEF FreshRight
  <1>8. ASSUME NEW t \in Refs, InUse(t)
        PROVE  InUse(t)' /\ Owner(t)' = Owner(t)
    <2>1. CASE t[1] # "slot"
      <3>1. Owner(t)' = Owner(t)
        BY <1>3, <2>1 DEF Owner
      <3>2. InUse(t)'
        BY <1>1, <1>8, <2>1, RefKinds, RefsDiffer DEF InUse
      <3> QED BY <3>1, <3>2
    <2>2. CASE \E i \in 1 .. Cardinality(Ips) : t = SlotAt(i)
      <3>1. PICK i \in 1 .. Cardinality(Ips) : t = SlotAt(i)
        BY <2>2
      <3>2. i \in 1 .. Len(ip_hash) /\ Owner(t) = ip_hash[i]
        BY <1>2, <1>8, <3>1, RefsDiffer DEF InUse, Owner
      <3> QED BY <1>2, <3>1, <3>2, RefsDiffer DEF InUse, Owner
    <2> QED BY <2>1, <2>2, RefKinds
  <1>9. WaitsQuiet'
    <2>1. waiting' = waiting /\ UNCHANGED <<l3_kind, n_pkts>>
      BY <1>1
    <2> QED BY <1>3, <1>8, <2>1, StillWaits
  <1>10. EntriesKept
    BY <1>3, <1>8, SameEntries
  <1>11. HopsKept
    BY <1>1, <1>3, RefKinds, HopsInUse, SameHops
  <1> QED BY <1>4, <1>5, <1>6, <1>7, <1>9, <1>10, <1>11, NothingSent DEF L3Inv

\* The kernel has dropped the address, a deadline of an entry has passed, or none
\* did: the addresses that are waited for are not those of the entry.
LEMMA StepDropped ==
  ASSUME L3Inv, NEW p \in Refs, NEW w,
         arp' = arp \/ arp' = [arp EXCEPT ![p].quiet = FALSE],
         arp' # arp => InUse(p) /\ Owner(p) = w,
         waiting' = waiting \ {w}, l3_sent' = Idle,
         UNCHANGED <<l3_kind, n_pkts, ip_hash, nb_gws, lpm, mac_known, asked, former_gw>>
  PROVE  L3Inv' /\ EntriesKept /\ HopsKept
  <1>1. /\ arp' \in [Refs -> ArpEntries]
        /\ \A t \in Refs : /\ arp'[t].ip = arp[t].ip /\ arp'[t].mac = arp[t].mac
                           /\ arp'[t].fresh = arp[t].fresh
                           /\ t # p \/ arp' = arp => arp'[t].quiet = arp[t].quiet
    <2>1. CASE arp' = arp
      BY <2>1 DEF L3Inv, L3TypeOK
    <2>2. CASE arp' = [arp EXCEPT ![p].quiet = FALSE]
      <3>1. PICK b \in BOOLEAN : b = FALSE
        OBVIOUS
      <3>2. arp' = [arp EXCEPT ![p].quiet = b]
        BY <2>2, <3>1
      <3>3. /\ arp' \in [Refs -> ArpEntries]
            /\ \A t \in Refs : /\ arp'[t].ip = arp[t].ip /\ arp'[t].mac = arp[t].mac
                               /\ arp'[t].fresh = arp[t].fresh
                               /\ t # p => arp'[t].quiet = arp[t].quiet
        BY <3>2, QuietSet
      <3> QED BY <3>3
    <2> QED BY <2>1, <2>2
  <1>2. UNCHANGED <<l3_kind, n_pkts, ip_hash, nb_gws, lpm, former_gw>>
    OBVIOUS
  <1>3. /\ TablesUsed' /\ EntriesDistinct' /\ FreshRight'
        /\ \A t \in Refs : InUse(t)' = InUse(t) /\ Owner(t)' = Owner(t)
    BY <1>1, <1>2, DeadlinesOnly
  <1>4. L3TypeOK'
    BY <1>1 DEF L3Inv, L3TypeOK
  <1>5. ASSUME NEW a \in waiting, a # w, NEW t \in Refs, InUse(t), Owner(t) = a, arp[t].quiet
        PROVE  InUse(t)' /\ Owner(t)' = a /\ arp'[t].quiet
    BY <1>1, <1>3, <1>5
  <1>6. WaitsQuiet'
    BY <1>5, StillWaits
  <1>7. EntriesKept
    BY <1>1, <1>3, SameEntries
  <1>8. HopsKept
    BY <1>1, RefKinds, HopsInUse, SameHops
  <1> QED BY <1>3, <1>4, <1>6, <1>7, <1>8, NothingSent DEF L3Inv

\* The kernel has dropped the address.
LEMMA StepTimeout ==
  ASSUME L3Inv, NEW ip \in Ips, mac_timeout(ip), l3_sent' = Idle, UNCHANGED <<l3_kind, former_gw>>
  PROVE  L3Inv' /\ EntriesKept /\ HopsKept
  <1> PICK r : r = CASE l3_kind = "routes" -> Position(ip)
                     [] l3_kind = "gateway" /\ ip = arp[Gw].ip -> Gw
                     [] OTHER -> Searched(ip)
    OBVIOUS
  <1>1. /\ arp' = IF r = New THEN arp ELSE [arp EXCEPT ![r].quiet = FALSE]
        /\ waiting' = waiting \ {ip}
        /\ UNCHANGED <<n_pkts, ip_hash, nb_gws, lpm, mac_known, asked>>
    BY DEF mac_timeout
  <1>2. ASSUME r # New PROVE r \in Refs /\ InUse(r) /\ Owner(r) = ip
    <2>1. CASE l3_kind = "routes"
      BY <1>2, <2>1, FoundEntry
    <2>2. CASE l3_kind = "gateway" /\ ip = arp[Gw].ip
      BY <2>2, RefKinds, RefsDiffer DEF InUse, Owner
    <2>3. CASE l3_kind # "routes" /\ ~ (l3_kind = "gateway" /\ ip = arp[Gw].ip)
      <3>1. r = Searched(ip)
        BY <2>3
      <3> QED BY <1>2, <3>1, FoundEntry DEF Searched
    <2> QED BY <2>1, <2>2, <2>3
  <1>3. CASE r = New
    BY <1>1, <1>3, RefKinds, StepDropped
  <1>4. CASE r # New
    BY <1>1, <1>2, <1>4, StepDropped
  <1> QED BY <1>3, <1>4

\* A next hop is used that was not used before, or none is.
LEMMA StepRoutes ==
  ASSUME L3Inv, l3_kind = "routes", nb_gws' \in nb_gws .. MaxHops,
         lpm' \in [Ips -> 0 .. nb_gws'], arp' \in [Refs -> ArpEntries],
         \A t \in Refs : /\ arp'[t].mac = arp[t].mac /\ arp'[t].fresh = arp[t].fresh
                         /\ arp'[t].quiet = arp[t].quiet
                         /\ (t # HopAt(nb_gws + 1) \/ nb_gws' = nb_gws) => arp'[t] = arp[t],
         l3_sent' = Idle,
         UNCHANGED <<l3_kind, n_pkts, ip_hash, mac_known, asked, waiting, former_gw>>
  PROVE  L3Inv' /\ EntriesKept /\ (lpm' = lpm => HopsKept)
  <1>1. nb_gws \in 0 .. MaxHops /\ nb_gws' \in 0 .. MaxHops /\ nb_gws <= nb_gws'
    BY L3TableAssumption DEF L3Inv, L3TypeOK
  <1>2. \A t \in Refs : t[1] # "hop" => arp'[t] = arp[t]
    BY RefsDiffer
  <1>3. L3TypeOK'
    BY <1>1, L3TableAssumption DEF L3Inv, L3TypeOK
  <1>4. TablesUsed'
    BY <1>1, L3TableAssumption DEF L3Inv, TablesUsed
  <1>5. EntriesDistinct'
    <2>1. \A i \in 1 .. n_pkts : i \in 1 .. OptSize
      BY L3TableAssumption DEF L3Inv, L3TypeOK
    <2>2. \A i \in 1 .. n_pkts : arp'[OptAt(i)] = arp[OptAt(i)]
      BY <1>2, <2>1, RefKinds, RefsDiffer
    <2>3. \A i, j \in 1 .. n_pkts : /\ arp'[OptAt(i)].ip \in Ips
                                    /\ arp'[OptAt(i)].ip = arp'[OptAt(j)].ip => i = j
      BY <2>2 DEF L3Inv, EntriesDistinct
    <2> QED BY <2>3 DEF L3Inv, EntriesDistinct
  <1>6. FreshRight'
    <2>1. \A i \in 1 .. OptSize : arp'[OptAt(i)] = arp[OptAt(i)]
      BY <1>2, RefKinds, RefsDiffer
    <2>2. \A i \in 1 .. Cardinality(Ips) : arp'[SlotAt(i)] = arp[SlotAt(i)]
      BY <1>2, RefKinds, RefsDiffer
    <2>3. \A i \in 1 .. MaxHops : arp'[HopAt(i)].fresh = arp[HopAt(i)].fresh
                                  /\ arp'[HopAt(i)].mac = arp[HopAt(i)].mac
      BY RefKinds
    <2> QED BY <2>1, <2>2, <2>3 DEF L3Inv, FreshRight
  <1>7. ASSUME NEW t \in Refs, InUse(t)
        PROVE  InUse(t)' /\ Owner(t)' = Owner(t) /\ arp'[t].quiet = arp[t].quiet
    <2>1. CASE t[1] = "hop"
      <3>1. t[2] <= nb_gws
        BY <1>7, <2>1 DEF InUse
      <3>2. PICK i \in 1 .. MaxHops : t = HopAt(i)
        BY <2>1, RefKinds, RefsDiffer
      <3>3. t # HopAt(nb_gws + 1)
        BY <1>1, <3>1, <3>2, RefsDiffer
      <3>4. arp'[t] = arp[t]
        BY <3>3
      <3>5. t[2] <= nb_gws'
        BY <1>1, <3>1, <3>2, RefsDiffer
      <3> QED BY <2>1, <3>4, <3>5 DEF InUse, Owner
    <2>2. CASE t[1] # "hop"
      <3>1. arp'[t] = arp[t]
        BY <1>2, <2>2
      <3> QED BY <1>7, <2>2, <3>1 DEF InUse, Owner
    <2> QED BY <2>1, <2>2
  <1>8. WaitsQuiet'
    BY <1>7, StillWaits
  <1>9. EntriesKept
    BY <1>7, SameEntries
  <1>10. ASSUME lpm' = lpm PROVE HopsKept
    <2>1. \A i \in 1 .. nb_gws : arp'[HopAt(i)] = arp[HopAt(i)]
      <3> SUFFICES ASSUME NEW i \in 1 .. nb_gws PROVE arp'[HopAt(i)] = arp[HopAt(i)]
        OBVIOUS
      <3>1. HopAt(i) # HopAt(nb_gws + 1)
        BY <1>1, RefsDiffer
      <3> QED BY <3>1, HopsInUse
    <2>2. arp'[Gw] = arp[Gw]
      BY <1>2, RefKinds, RefsDiffer
    <2> QED BY <1>10, <2>1, <2>2, SameHops
  <1> QED BY <1>3, <1>4, <1>5, <1>6, <1>8, <1>9, <1>10, NothingSent DEF L3Inv

\* A route is added, to a next hop that is there or to a new one.
LEMMA StepRouteAdd ==
  ASSUME L3Inv, NEW ip \in Ips, NEW g \in Ips, l3_kind = "routes", route_add(ip, g),
         l3_sent' = Idle, UNCHANGED <<l3_kind, former_gw>>
  PROVE  L3Inv' /\ EntriesKept /\ (lpm' = lpm => HopsKept)
  <1>1. /\ nb_gws \in 0 .. MaxHops /\ lpm \in [Ips -> 0 .. nb_gws] /\ arp \in [Refs -> ArpEntries]
        /\ UNCHANGED <<n_pkts, ip_hash, mac_known, asked, waiting>>
    BY L3TableAssumption DEF L3Inv, L3TypeOK, TablesUsed, route_add
  <1>2. CASE HopsTo(g) # {} /\ UNCHANGED <<arp, nb_gws>>
              /\ lpm' = [lpm EXCEPT ![ip] = CHOOSE i \in HopsTo(g) : \A j \in HopsTo(g) : i <= j]
    <2> PICK c : c = CHOOSE i \in HopsTo(g) : \A j \in HopsTo(g) : i <= j
      OBVIOUS
    <2>1. c \in 1 .. nb_gws
      <3>1. HopsTo(g) \subseteq Nat /\ HopsTo(g) # {}
        BY <1>1, <1>2, L3TableAssumption DEF HopsTo
      <3>2. \E i \in HopsTo(g) : \A j \in HopsTo(g) : i <= j
        BY <3>1, LeastNatural
      <3>3. c \in HopsTo(g)
        BY <3>2
      <3> QED BY <3>3 DEF HopsTo
    <2>2. lpm' \in [Ips -> 0 .. nb_gws']
      BY <1>1, <1>2, <2>1
    <2>3. nb_gws' \in nb_gws .. MaxHops
      BY <1>1, <1>2, L3TableAssumption
    <2>4. arp' \in [Refs -> ArpEntries]
      BY <1>1, <1>2
    <2>5. \A t \in Refs : /\ arp'[t].mac = arp[t].mac /\ arp'[t].fresh = arp[t].fresh
                          /\ arp'[t].quiet = arp[t].quiet
                          /\ (t # HopAt(nb_gws + 1) \/ nb_gws' = nb_gws) => arp'[t] = arp[t]
      BY <1>2
    <2>6. UNCHANGED <<l3_kind, n_pkts, ip_hash, mac_known, asked, waiting, former_gw>>
      BY <1>1
    <2> QED BY <2>2, <2>3, <2>4, <2>5, <2>6, StepRoutes, Zenon
  <1>3. CASE /\ nb_gws < MaxHops /\ nb_gws' = nb_gws + 1
             /\ arp' = [arp EXCEPT ![HopAt(nb_gws + 1)].ip = g]
             /\ lpm' = [lpm EXCEPT ![ip] = nb_gws + 1]
    <2> PICK n : n = nb_gws + 1
      OBVIOUS
    <2>1. n \in 1 .. MaxHops /\ nb_gws' \in nb_gws .. MaxHops /\ 0 .. nb_gws \subseteq 0 .. n
      BY <1>1, <1>3, L3TableAssumption
    <2> PICK r \in Refs : r = HopAt(n)
      BY <2>1, RefKinds
    <2>2. arp' = [arp EXCEPT ![r].ip = g]
      BY <1>3
    <2>3. arp'[r] = [arp[r] EXCEPT !.ip = g] /\ arp[r] \in ArpEntries /\ \A t \in Refs : t # r => arp'[t] = arp[t]
      BY <1>1, <2>2
    <2>4. /\ arp'[r] \in ArpEntries /\ arp'[r].mac = arp[r].mac /\ arp'[r].fresh = arp[r].fresh
          /\ arp'[r].quiet = arp[r].quiet
      BY <2>3 DEF ArpEntries
    <2>5. arp' \in [Refs -> ArpEntries]
      BY <1>1, <2>2, <2>4
    <2>6. lpm' \in [Ips -> 0 .. nb_gws']
      BY <1>1, <1>3, <2>1
    <2>7. \A t \in Refs : /\ arp'[t].mac = arp[t].mac /\ arp'[t].fresh = arp[t].fresh
                          /\ arp'[t].quiet = arp[t].quiet
                          /\ (t # HopAt(nb_gws + 1) \/ nb_gws' = nb_gws) => arp'[t] = arp[t]
      BY <1>1, <1>3, <2>3, <2>4
    <2>8. UNCHANGED <<l3_kind, n_pkts, ip_hash, mac_known, asked, waiting, former_gw>>
      BY <1>1
    <2>9. nb_gws' \in nb_gws .. MaxHops
      BY <2>1
    <2> QED BY <2>5, <2>6, <2>7, <2>8, <2>9, StepRoutes, Zenon
  <1>4. CASE UNCHANGED <<arp, nb_gws, lpm>>
    <2>1. nb_gws' \in nb_gws .. MaxHops
      BY <1>1, <1>4, L3TableAssumption
    <2> QED BY <1>1, <1>4, <2>1, StepRoutes
  <1> QED BY <1>2, <1>3, <1>4 DEF route_add

\* A message of the master.
LEMMA StepCtrl ==
  ASSUME L3Inv, NEW ip \in Ips, handle_ctrl_plane_pkts(ip)
  PROVE  L3Inv' /\ EntriesKept /\ (lpm' = lpm => HopsKept)
  <1>1. l3_sent' = Idle /\ UNCHANGED <<l3_kind, former_gw>>
    BY DEF handle_ctrl_plane_pkts
  <1>2. CASE mac_info(ip)
    BY <1>1, <1>2, StepLearnt
  <1>3. CASE mac_timeout(ip)
    BY <1>1, <1>3, StepTimeout
  <1>4. CASE l3_kind = "routes" /\ route_del(ip)
    <2>1. /\ lpm' = [lpm EXCEPT ![ip] = 0]
          /\ UNCHANGED <<arp, n_pkts, ip_hash, nb_gws, mac_known, asked, waiting>>
      BY <1>4 DEF route_del
    <2>2. nb_gws \in 0 .. MaxHops /\ lpm \in [Ips -> 0 .. nb_gws] /\ arp \in [Refs -> ArpEntries]
      BY L3TableAssumption DEF L3Inv, L3TypeOK, TablesUsed
    <2>3. nb_gws' \in nb_gws .. MaxHops
      BY <2>1, <2>2, L3TableAssumption
    <2>4. lpm' \in [Ips -> 0 .. nb_gws']
      BY <2>1, <2>2
    <2> QED BY <1>1, <1>4, <2>1, <2>2, <2>3, <2>4, StepRoutes
  <1>5. CASE \E g \in Ips : l3_kind = "routes" /\ route_add(ip, g)
    BY <1>1, <1>5, StepRouteAdd
  <1> QED BY <1>2, <1>3, <1>4, <1>5 DEF handle_ctrl_plane_pkts

\* The gateway is set by command.
LEMMA StepGateway ==
  ASSUME L3Inv, NEW ip \in Ips, SetGateway(ip)
  PROVE  L3Inv' /\ \A q \in Ips : Resolved(q) => Resolved(q)'
  <1>1. /\ l3_kind = "gateway" /\ former_gw' = former_gw \cup {arp[Gw].ip}
        /\ arp' = [arp EXCEPT ![Gw].ip = ip] /\ l3_sent' = Idle /\ waiting' = {}
        /\ UNCHANGED <<l3_kind, n_pkts, ip_hash, nb_gws, lpm, mac_known, asked>>
    BY DEF SetGateway
  <1>2. /\ arp \in [Refs -> ArpEntries] /\ arp[Gw].ip \in Ips /\ former_gw \subseteq Ips
        /\ n_pkts = 0 /\ nb_gws = 0
    BY <1>1 DEF L3Inv, L3TypeOK, TablesUsed
  <1>3. arp'[Gw] = [arp[Gw] EXCEPT !.ip = ip] /\ arp[Gw] \in ArpEntries
    BY <1>1, <1>2, RefKinds
  <1>4. /\ arp'[Gw] \in ArpEntries /\ arp'[Gw].ip = ip /\ arp'[Gw].mac = arp[Gw].mac
        /\ arp'[Gw].fresh = arp[Gw].fresh
    BY <1>3 DEF ArpEntries
  <1>5. \A t \in Refs : t # Gw => arp'[t] = arp[t]
    BY <1>1, <1>2
  <1>6. arp' \in [Refs -> ArpEntries]
    BY <1>1, <1>2, <1>4
  <1>7. L3TypeOK'
    BY <1>1, <1>2, <1>6 DEF L3Inv, L3TypeOK
  <1>8. TablesUsed'
    BY <1>1, <1>4 DEF L3Inv, TablesUsed
  <1>9. EntriesDistinct'
    <2>1. \A i \in 1 .. n_pkts' : FALSE
      BY <1>1, <1>2
    <2> QED BY <1>1, <2>1 DEF L3Inv, EntriesDistinct
  <1>10. FreshRight'
    <2>1. \A i \in 1 .. OptSize : arp'[OptAt(i)] = arp[OptAt(i)]
      BY <1>5, RefKinds, RefsDiffer
    <2>2. \A i \in 1 .. Cardinality(Ips) : arp'[SlotAt(i)] = arp[SlotAt(i)]
      BY <1>5, RefKinds, RefsDiffer
    <2>3. \A i \in 1 .. MaxHops : arp'[HopAt(i)] = arp[HopAt(i)]
      BY <1>5, RefKinds, RefsDiffer
    <2>4. arp'[Gw].fresh => arp'[Gw].mac \in {arp'[Gw].ip} \cup former_gw'
      BY <1>1, <1>4 DEF L3Inv, FreshRight
    <2> QED BY <1>1, <2>1, <2>2, <2>3, <2>4 DEF L3Inv, FreshRight
  <1>11. WaitsQuiet'
    BY <1>1 DEF WaitsQuiet
  <1>12. ASSUME NEW q \in Ips, Resolved(q) PROVE Resolved(q)'
    <2>1. Ref(q) = Gw /\ Ref(q)' = Gw
      BY <1>1 DEF Ref, Routed
    <2> QED BY <1>1, <1>4, <1>12, <2>1, RefsDiffer DEF Resolved, Usable
  <1> QED BY <1>1, <1>7, <1>8, <1>9, <1>10, <1>11, <1>12, NothingSent DEF L3Inv

\* A deadline passes.
LEMMA StepTime ==
  ASSUME L3Inv, NEW r \in Refs, TimePasses(r)
  PROVE  L3Inv'
  <1>1. /\ InUse(r) /\ l3_sent' = Idle
        /\ UNCHANGED <<l3_kind, mac_known, lpm, nb_gws, former_gw, n_pkts, ip_hash, asked>>
    BY DEF TimePasses, l3_config
  <1>2. CASE arp' = [arp EXCEPT ![r].quiet = FALSE] /\ waiting' = waiting \ {Owner(r)}
    <2>1. PICK w : w = Owner(r)
      OBVIOUS
    <2> QED BY <1>1, <1>2, <2>1, StepDropped
  <1>3. CASE arp' = [arp EXCEPT ![r].fresh = FALSE] /\ UNCHANGED waiting
    <2>1. arp \in [Refs -> ArpEntries]
      BY DEF L3Inv, L3TypeOK
    <2>2. arp'[r] = [arp[r] EXCEPT !.fresh = FALSE] /\ arp[r] \in ArpEntries
      BY <1>3, <2>1
    <2>3. /\ arp'[r] \in ArpEntries /\ arp'[r].ip = arp[r].ip /\ arp'[r].mac = arp[r].mac
          /\ ~ arp'[r].fresh /\ arp'[r].quiet = arp[r].quiet
      BY <2>2 DEF ArpEntries
    <2>4. \A t \in Refs : t # r => arp'[t] = arp[t]
      BY <1>3, <2>1
    <2>5. arp' \in [Refs -> ArpEntries]
      BY <1>3, <2>1, <2>3
    <2>6. \A t \in Refs : /\ arp'[t].ip = arp[t].ip /\ arp'[t].mac = arp[t].mac
                          /\ arp'[t].fresh => arp[t].fresh
                          /\ arp'[t].quiet = arp[t].quiet
      BY <2>3, <2>4
    <2>7. /\ TablesUsed' /\ EntriesDistinct' /\ FreshRight'
          /\ \A t \in Refs : InUse(t)' = InUse(t) /\ Owner(t)' = Owner(t)
      BY <1>1, <2>5, <2>6, DeadlinesOnly
    <2>8. L3TypeOK'
      BY <1>1, <1>3, <2>5 DEF L3Inv, L3TypeOK
    <2>9. ASSUME NEW a \in waiting, NEW t \in Refs, InUse(t), Owner(t) = a, arp[t].quiet
          PROVE  InUse(t)' /\ Owner(t)' = a /\ arp'[t].quiet
      BY <2>6, <2>7, <2>9
    <2>10. WaitsQuiet'
      BY <1>1, <1>3, <2>9, StillWaits
    <2> QED BY <1>1, <2>7, <2>8, <2>10, NothingSent DEF L3Inv
  <1> QED BY <1>2, <1>3 DEF TimePasses

-----------------------------------------------------------------------------
(***************************************************************************)
(* The invariant.                                                          *)
(***************************************************************************)

LEMMA L3Starts == L3Init => L3Inv
  <1> SUFFICES ASSUME L3Init PROVE L3Inv
    OBVIOUS
  <1>1. PICK g \in Ips :
          /\ arp = [r \in Refs |-> IF r = IF l3_kind = "routes" THEN HopAt(1) ELSE Gw
                                   THEN [ZeroEntry EXCEPT !.ip = g] ELSE ZeroEntry]
          /\ lpm = [ip \in Ips |-> IF l3_kind # "routes" THEN 0 ELSE IF ip = g THEN 1 ELSE 2]
    BY DEF L3Init
  <1>2. /\ l3_kind \in {"routes", "gateway", "table", "ip6"}
        /\ nb_gws = IF l3_kind = "routes" THEN 2 ELSE 0
        /\ n_pkts = 0 /\ ip_hash = <<>> /\ mac_known = FALSE
        /\ asked = {} /\ waiting = {} /\ former_gw = {} /\ l3_sent = Idle
    BY L3TableAssumption DEF L3Init
  <1>3. /\ ZeroEntry \in ArpEntries /\ [ZeroEntry EXCEPT !.ip = g] \in ArpEntries
        /\ [ZeroEntry EXCEPT !.ip = g].ip = g
        /\ ~ ZeroEntry.fresh /\ ~ [ZeroEntry EXCEPT !.ip = g].fresh
    BY DEF ZeroEntry, ArpEntries
  <1>4. arp \in [Refs -> ArpEntries] /\ \A r \in Refs : ~ arp[r].fresh
    BY <1>1, <1>3
  <1>5. L3TypeOK
    <2>1. MaxHops \in Nat /\ 2 <= MaxHops /\ OptSize \in Nat
      BY L3TableAssumption
    <2>2. lpm \in [Ips -> 0 .. MaxHops]
      BY <1>1, <2>1
    <2>3. nb_gws \in 0 .. MaxHops /\ n_pkts \in 0 .. OptSize /\ ip_hash \in Seq(Ips)
      BY <1>2, <2>1
    <2> QED BY <1>2, <1>4, <2>2, <2>3 DEF L3TypeOK
  <1>6. TablesUsed
    <2>1. l3_kind # "routes" => arp[Gw].ip = g
      BY <1>1, <1>3, RefKinds
    <2> QED BY <1>1, <1>2, <2>1 DEF TablesUsed
  <1>7. EntriesDistinct
    BY <1>2 DEF EntriesDistinct
  <1>8. FreshRight
    BY <1>4, RefKinds DEF FreshRight
  <1>9. WaitsQuiet /\ RightMac /\ RequestsPaced
    BY <1>2 DEF WaitsQuiet, RightMac, RequestsPaced, Idle
  <1> QED BY <1>5, <1>6, <1>7, <1>8, <1>9 DEF L3Inv

LEMMA L3Kept == L3Inv /\ [L3Next]_l3_vars => L3Inv'
  <1> SUFFICES ASSUME L3Inv, [L3Next]_l3_vars PROVE L3Inv'
    OBVIOUS
  <1>1. ASSUME NEW ip \in Ips, Send(ip) PROVE L3Inv'
    BY <1>1, StepSend
  <1>2. ASSUME NEW ip \in Ips, handle_ctrl_plane_pkts(ip) PROVE L3Inv'
    BY <1>2, StepCtrl
  <1>3. ASSUME NEW ip \in Ips, SetGateway(ip) PROVE L3Inv'
    BY <1>3, StepGateway
  <1>4. ASSUME NEW r \in Refs, TimePasses(r) PROVE L3Inv'
    BY <1>4, StepTime
  <1>5. CASE UNCHANGED l3_vars
    BY <1>5 DEF l3_vars, L3Inv, L3TypeOK, TablesUsed, EntriesDistinct, FreshRight, WaitsQuiet,
                InUse, Owner, RightMac, RequestsPaced, HopsTo
  <1> QED BY <1>1, <1>2, <1>3, <1>4, <1>5 DEF L3Next

\* A task in L3 mode sends a packet with the MAC address of its next hop, and
\* asks for no address twice in a retransmission time but as it is said above:
\* write_dst_mac, write_ip6_dst_mac, handle_ctrl_plane_pkts.
THEOREM AddressesRight == L3Spec => []AddressesSound
  <1>1. L3Inv => AddressesSound
    BY DEF L3Inv, AddressesSound
  <1> QED BY <1>1, L3Starts, L3Kept, PTL DEF L3Spec

\* An address that was resolved is so still, when its entry is kept.
LEMMA ResolvedKept ==
  ASSUME L3Inv, L3Inv', lpm' = lpm, l3_kind' = l3_kind, mac_known => mac_known',
         EntriesKept, HopsKept, NEW ip \in Ips, Resolved(ip)
  PROVE  Resolved(ip)'
  <1> PICK r \in Refs : r = Ref(ip)
    BY EntryOfHop DEF Resolved
  <1>1. InUse(r) /\ Owner(r) = Hop(ip) /\ arp[r].fresh /\ (r = Gw => mac_known)
    BY EntryOfHop DEF Resolved, Usable
  <1> PICK s \in Refs : /\ InUse(s)' /\ Owner(s)' = Hop(ip) /\ arp'[s].fresh
                        /\ s = Gw => r = Gw
                        /\ l3_kind = "routes" => s = r
    BY <1>1 DEF EntriesKept
  <1>2. Hop(ip)' = Hop(ip) /\ Routed(ip)' = Routed(ip)
    BY DEF HopsKept
  <1>3. \/ Ref(ip)' = s
        \/ l3_kind = "routes" /\ Routed(ip) /\ s # HopAt(lpm[ip])
        \/ l3_kind = "routes" /\ ~ Routed(ip) /\ s[1] = "hop"
    BY <1>2, HopOfEntryNext
  <1>4. Ref(ip)' = s
    <2>1. CASE l3_kind = "routes" /\ Routed(ip)
      <3>1. s = HopAt(lpm[ip])
        BY <2>1 DEF Ref
      <3> QED BY <1>3, <2>1, <3>1
    <2>2. CASE l3_kind = "routes" /\ ~ Routed(ip)
      <3>1. s = Position(ip) /\ s # New
        BY <2>2, RefKinds DEF Ref
      <3>2. s[1] = "slot"
        BY <3>1, Positions, RefsDiffer
      <3> QED BY <1>3, <2>2, <3>2
    <2>3. CASE l3_kind # "routes"
      BY <1>3, <2>3
    <2> QED BY <2>1, <2>2, <2>3
  <1>5. s # New /\ (s = Gw => mac_known')
    BY <1>1, RefKinds
  <1> QED BY <1>4, <1>5 DEF Resolved, Usable

\* An address that was resolved stays so until it times out, whatever other
\* addresses are asked for or answered: the linear search, the copy to the hash
\* and the positions of the hash.
THEOREM AddressesStay == L3Spec => ResolvedStays
  <1>1. ASSUME L3Inv, L3Inv', [L3Next]_l3_vars
        PROVE  [lpm' = lpm /\ ~ (\E r \in Refs : TimePasses(r)) =>
                  \A ip \in Ips : Resolved(ip) => Resolved(ip)']_l3_vars
    <2> SUFFICES ASSUME L3Next, lpm' = lpm, ~ (\E r \in Refs : TimePasses(r)),
                        NEW ip \in Ips, Resolved(ip)
                 PROVE  Resolved(ip)'
      BY <1>1
    <2>1. ASSUME NEW a \in Ips, Send(a) PROVE Resolved(ip)'
      <3>1. EntriesKept /\ HopsKept
        BY <1>1, <2>1, StepSend
      <3>2. l3_kind' = l3_kind /\ mac_known' = mac_known
        BY <2>1 DEF Send, l3_config
      <3> QED BY <1>1, <3>1, <3>2, ResolvedKept
    <2>2. ASSUME NEW a \in Ips, handle_ctrl_plane_pkts(a) PROVE Resolved(ip)'
      <3>1. EntriesKept /\ HopsKept
        BY <1>1, <2>2, StepCtrl
      <3>2. l3_kind' = l3_kind /\ (mac_known => mac_known')
        <4>1. CASE mac_info(a)
          <5>1. mac_known' = (mac_known \/ LearntAt(a) = Gw)
            BY <4>1 DEF mac_info
          <5> QED BY <2>2, <5>1 DEF handle_ctrl_plane_pkts
        <4>2. CASE ~ mac_info(a)
          <5>1. mac_known' = mac_known
            BY <2>2, <4>2 DEF handle_ctrl_plane_pkts, mac_timeout, route_add, route_del
          <5> QED BY <2>2, <5>1 DEF handle_ctrl_plane_pkts
        <4> QED BY <4>1, <4>2
      <3> QED BY <1>1, <3>1, <3>2, ResolvedKept
    <2>3. ASSUME NEW a \in Ips, SetGateway(a) PROVE Resolved(ip)'
      BY <1>1, <2>3, StepGateway
    <2> QED BY <2>1, <2>2, <2>3 DEF L3Next
  <1> QED BY <1>1, L3Starts, L3Kept, PTL DEF L3Spec, ResolvedStays

=============================================================================
