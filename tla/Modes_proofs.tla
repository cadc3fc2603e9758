---------------------------- MODULE Modes_proofs ----------------------------
(***************************************************************************)
(* Proofs about the modes of a worker's tasks.  The tables of carrier-grade*)
(* NAT agree with each other and with the free ports, for any addresses,   *)
(* ports and static mappings; what the border network gateway learns       *)
(* upstream leads back downstream, for any tunnels, workers and buckets;   *)
(* impairment keeps the packets of its ring in order and those of its slots*)
(* on time, for any burst, slots and delays; what one task decides about   *)
(* the packets of a burst is there for the next; and a packet that a task  *)
(* keeps between two calls leaves it once.                                 *)
(***************************************************************************)
EXTENDS Cgnat, Bng, Impair, Bursts, Holding, NumberLemmas, FiniteSetTheorems, SequenceTheorems, TLAPS

-----------------------------------------------------------------------------
(***************************************************************************)
(* The addresses and the ports.                                            *)
(***************************************************************************)

\* get_new_ip finds an address that has a free port, or none has one; last_ip
\* stays an index.
LEMMA NewIpHasPort ==
  ASSUME NEW free, NEW last \in 1 .. CgPublicIps + 1,
         NEW new, new = NewIp(free, last)
  PROVE  /\ new.last \in PublicIps
         /\ new.idx # 0 => new.idx \in PublicIps /\ free[new.idx] # <<>>
  <1> DEFINE start == IF last + 1 > CgPublicIps THEN 1 ELSE last + 1
             rank(i) == (i - start) % CgPublicIps
             ok == {i \in 1 .. CgPublicIps : free[i] # <<>>}
             best == CHOOSE i \in ok : \A j \in ok : rank(i) <= rank(j)
  <1>1. start \in PublicIps
    BY CgAssumption DEF PublicIps
  <1>2. CASE ok = {}
    <2>1. new = [idx |-> 0, last |-> start]
      BY <1>2 DEF NewIp
    <2> QED BY <1>1, <2>1
  <1>3. CASE ok # {}
    <2>1. \E i \in ok : \A j \in ok : rank(i) <= rank(j)
      <3> DEFINE ranks == {rank(i) : i \in ok}
      <3>1. \A i \in Int : (i - start) % CgPublicIps \in Nat
        BY CgAssumption
      <3>2. ranks \in SUBSET Nat /\ ranks # {}
        BY <1>3, <3>1, CgAssumption
      <3>3. PICK r \in ranks : \A q \in ranks : r <= q
        BY <3>2, LeastNatural
      <3> QED BY <3>3
    <2>2. best \in ok
      BY <2>1
    <2>3. new = [idx |-> best, last |-> best]
      BY <1>3 DEF NewIp
    <2> HIDE DEF best
    <2> QED BY <2>2, <2>3 DEF PublicIps
  <1> QED BY <1>2, <1>3

\* The list of free ports of an address: the last one is taken, and given back.
LEMMA FreePort ==
  ASSUME CgTypeOK, PortsListed, NEW i \in PublicIps, cg_free[i] # <<>>
  PROVE  /\ PortOf(i) \in PublicPorts
         /\ LessOne(i) \in [PublicIps -> Seq(PublicPorts)]
         /\ LessOne(i)[i] = Front(cg_free[i])
         /\ Len(LessOne(i)[i]) = Len(cg_free[i]) - 1
         /\ \A k \in 1 .. Len(cg_free[i]) - 1 : LessOne(i)[i][k] = cg_free[i][k]
         /\ PortOf(i) = cg_free[i][Len(cg_free[i])]
         /\ Released(LessOne(i), i, PortOf(i)) = cg_free
  <1> DEFINE s == cg_free[i]
             n == Len(s)
  <1>1. /\ cg_free \in [PublicIps -> Seq(PublicPorts)]
        /\ s \in Seq(PublicPorts) /\ s # <<>>
    BY DEF CgTypeOK
  <1>2. /\ n \in Nat \ {0} /\ n <= CgPublicPorts
        /\ s \in [1 .. n -> PublicPorts] /\ DOMAIN s = 1 .. n
    BY <1>1, EmptySeq, LenProperties DEF PortsListed
  <1>3. /\ Last(s) = s[n] /\ s[n] \in PublicPorts
        /\ Front(s) \in Seq(PublicPorts) /\ Len(Front(s)) = n - 1
        /\ \A k \in 1 .. n - 1 : Front(s)[k] = s[k]
    <2> HIDE DEF n, s
    <2>1. Front(s) = [k \in 1 .. n - 1 |-> s[k]]
      BY <1>1, <1>2 DEF Front, n
    <2>2. Front(s) \in [1 .. n - 1 -> PublicPorts]
      BY <1>2, <2>1
    <2>3. n - 1 \in Nat
      BY <1>2
    <2>4. Front(s) \in Seq(PublicPorts) /\ Len(Front(s)) = n - 1
      BY <2>2, <2>3
    <2> QED BY <1>2, <2>1, <2>4 DEF Last, n
  <1>4. /\ LessOne(i) = [cg_free EXCEPT ![i] = Front(s)]
        /\ LessOne(i)[i] = Front(s)
        /\ LessOne(i) \in [PublicIps -> Seq(PublicPorts)]
    BY SMTT(60), <1>1, <1>3 DEF LessOne
  <1>5. Append(Front(s), s[n]) = s
    <2> HIDE DEF n, s
    <2>1. Append(Front(s), s[n]) \in Seq(PublicPorts)
      BY <1>3
    <2>2. Len(Append(Front(s), s[n])) = n
      BY <1>2, <1>3
    <2>3. \A k \in 1 .. n : Append(Front(s), s[n])[k] = s[k]
      BY <1>2, <1>3
    <2> QED BY <1>1, <1>2, <2>1, <2>2, <2>3, SeqEqual DEF n
  <1>6. Released(LessOne(i), i, PortOf(i)) = cg_free
    <2>1. Len(LessOne(i)[i]) < CgPublicPorts
      BY <1>2, <1>3, <1>4, CgAssumption
    <2>2. Released(LessOne(i), i, PortOf(i)) = [LessOne(i) EXCEPT ![i] = Append(@, PortOf(i))]
      BY <2>1 DEF Released
    <2>3. Append(LessOne(i)[i], PortOf(i)) = cg_free[i]
      BY <1>3, <1>4, <1>5 DEF PortOf
    <2> QED BY <1>1, <1>4, <2>2, <2>3
  <1> QED BY <1>2, <1>3, <1>4, <1>6 DEF PortOf

-----------------------------------------------------------------------------
(***************************************************************************)
(* The start, and a packet that is sent.                                   *)
(***************************************************************************)

\* Each of the configured flows has a public entry of its own.
LEMMA CgStart == CgInit => CgInv
  <1> SUFFICES ASSUME CgInit PROVE CgInv
    OBVIOUS
  <1>1. /\ cg_flows = CgStatic
        /\ DOMAIN cg_public = {CgStatic[f] : f \in DOMAIN CgStatic}
        /\ \A e \in DOMAIN cg_public :
             cg_public[e] = CHOOSE f \in DOMAIN CgStatic : CgStatic[f] = e
        /\ DOMAIN cg_ips = StaticIps /\ \A ip \in DOMAIN cg_ips : cg_ips[ip] = Zeroed
        /\ cg_free = [i \in PublicIps |-> [k \in PublicPorts |-> k]]
        /\ cg_last = CgPublicIps + 1 /\ cg_todo = <<>> /\ cg_found = {} /\ cg_sent = <<>>
        /\ cg_stranded = {} /\ Mapped = DOMAIN cg_flows
    BY DEF CgInit, Mapped, StaticIps, PublicIps, PublicPorts
  <1>2. \A i \in PublicIps : /\ cg_free[i] \in [PublicPorts -> PublicPorts]
                             /\ cg_free[i] \in Seq(PublicPorts) /\ Len(cg_free[i]) = CgPublicPorts
    BY <1>1, CgAssumption DEF PublicPorts
  <1>3. CgTypeOK
    <2>1. cg_free \in [PublicIps -> Seq(PublicPorts)]
      BY <1>1, <1>2
    <2>2. /\ DOMAIN cg_flows \subseteq Ends /\ DOMAIN cg_public \subseteq Ends
          /\ \A f \in DOMAIN cg_flows : cg_flows[f] \in Ends
      BY <1>1 DEF Ends
    <2>3. cg_todo \in Seq(Flows) /\ cg_sent \in Seq({"private", "public"} \X Ends \X Ends)
      BY <1>1
    <2> QED BY <1>1, <2>1, <2>2, <2>3, CgAssumption DEF CgTypeOK
  <1>4. TablesInverse
    <2>1. \A f \in Mapped : cg_flows[f] \in DOMAIN cg_public /\ cg_public[cg_flows[f]] = f
      BY <1>1, CgAssumption
    <2>2. \A e \in DOMAIN cg_public : cg_public[e] \in Mapped /\ cg_flows[cg_public[e]] = e
      BY <1>1
    <2> QED BY <2>1, <2>2 DEF TablesInverse
  <1>5. AnswersReach
    BY <1>1 DEF AnswersReach
  <1>6. AddressesKnown
    BY <1>1, CgAssumption DEF AddressesKnown, Zeroed, PublicIps
  <1>7. PortsListed
    <2> SUFFICES ASSUME NEW i \in PublicIps
                 PROVE  /\ Len(cg_free[i]) <= CgPublicPorts
                        /\ \A k, l \in DOMAIN cg_free[i] : cg_free[i][k] = cg_free[i][l] => k = l
                        /\ \A port \in PublicPorts :
                             <<i, port>> \in DOMAIN cg_public <=> ~ \E k \in DOMAIN cg_free[i] : cg_free[i][k] = port
      BY DEF PortsListed
    <2>1. cg_free[i] = [k \in PublicPorts |-> k]
      BY <1>1
    <2>2. \A port : <<i, port>> \notin DOMAIN cg_public
      BY <1>1, CgAssumption DEF PublicIps
    <2> QED BY <1>2, <2>1, <2>2, CgAssumption
  <1>8. BurstLeft
    BY <1>1 DEF BurstLeft
  <1> QED BY <1>3, <1>4, <1>5, <1>6, <1>7, <1>8 DEF CgInv

\* A flow, a public entry and a port of a dynamic address are ends of a packet's way.
LEMMA EndsOf ==
  ASSUME CgInv
  PROVE  /\ Flows \subseteq Ends /\ Dropped \in Ends
         /\ \A f \in DOMAIN cg_flows : f \in Ends /\ cg_flows[f] \in Ends
         /\ \A e \in DOMAIN cg_public : e \in Ends /\ cg_public[e] \in Ends
         /\ \A i \in 0 .. CgPublicIps, port \in 0 .. CgPublicPorts : <<i, port>> \in Ends
  BY DEF CgInv, CgTypeOK, TablesInverse, Mapped, Ends

\* What a packet that is sent leaves of the ones before it.
LEMMA SentLast ==
  ASSUME CgInv, NEW f \in Flows, NEW to \in Ends, Sent(f, to)
  PROVE  /\ cg_sent' \in Seq({"private", "public"} \X Ends \X Ends)
         /\ DOMAIN cg_sent = 1 .. Len(cg_sent) /\ Len(cg_sent) \in Nat
         /\ DOMAIN cg_sent' = 1 .. Len(cg_sent) + 1
         /\ \A j \in 1 .. Len(cg_sent) : cg_sent'[j] = cg_sent[j]
         /\ cg_sent'[Len(cg_sent) + 1] = <<"private", f, to>>
  <1> DEFINE S == {"private", "public"} \X Ends \X Ends
  <1>1. cg_sent \in Seq(S) /\ <<"private", f, to>> \in S
    BY EndsOf DEF CgInv, CgTypeOK
  <1> HIDE DEF S
  <1>2. cg_sent' = Append(cg_sent, <<"private", f, to>>)
    BY DEF Sent
  <1> QED BY <1>1, <1>2, LenProperties DEF S

\* The answers to the packets before it still reach, and to this one if its own does.
LEMMA SentReaches ==
  ASSUME CgInv, NEW f \in Flows, NEW to \in Ends, Sent(f, to),
         \A a \in DOMAIN cg_public : a \in DOMAIN cg_public' /\ cg_public'[a] = cg_public[a],
         \/ to = Dropped
         \/ to \in DOMAIN cg_public' /\ cg_public'[to] = f
         \/ \E j \in DOMAIN cg_sent : cg_sent[j][2] = f /\ cg_sent[j][3] # Dropped
         \/ f[1] \in StaticIps /\ to[1] = 0
         \/ f \in cg_stranded',
         cg_stranded \subseteq cg_stranded'
  PROVE  AnswersReach'
  <1> PICK n \in Nat : n = Len(cg_sent)
    BY SentLast
  <1>1. /\ DOMAIN cg_sent = 1 .. n
        /\ DOMAIN cg_sent' = 1 .. n + 1
        /\ \A j \in 1 .. n : cg_sent'[j] = cg_sent[j]
        /\ cg_sent'[n + 1] = <<"private", f, to>>
    BY SentLast
  <1> DEFINE Reaches(i) ==
               \/ cg_sent[i][1] = "public" \/ cg_sent[i][3] = Dropped
               \/ cg_sent[i][3] \in DOMAIN cg_public /\ cg_public[cg_sent[i][3]] = cg_sent[i][2]
               \/ \E k \in 1 .. i - 1 : cg_sent[k][2] = cg_sent[i][2] /\ cg_sent[k][3] # Dropped
               \/ cg_sent[i][2][1] \in StaticIps /\ cg_sent[i][3][1] = 0
               \/ cg_sent[i][2] \in cg_stranded
  <1>2. \A i \in 1 .. n : Reaches(i)
    BY <1>1 DEF CgInv, AnswersReach, LedBack, Astray, Repeated, StaticIps
  <1>3. ASSUME NEW i \in 1 .. n PROVE Reaches(i)'
    <2>1. Reaches(i)
      BY <1>2
    <2>2. i \in 1 .. n /\ \A k \in 1 .. i - 1 : k \in 1 .. n
      BY <1>1
    <2>3. cg_sent'[i] = cg_sent[i] /\ \A k \in 1 .. i - 1 : cg_sent'[k] = cg_sent[k]
      BY <1>1, <2>2
    <2> QED BY <2>1, <2>3 DEF StaticIps
  <1>4. Reaches(n + 1)'
    <2>1. 1 .. (n + 1) - 1 = 1 .. n
      BY <1>1
    <2>2. \/ to = Dropped
          \/ to \in DOMAIN cg_public' /\ cg_public'[to] = f
          \/ \E j \in 1 .. n : cg_sent'[j][2] = f /\ cg_sent'[j][3] # Dropped
          \/ f[1] \in StaticIps /\ to[1] = 0
          \/ f \in cg_stranded'
      BY <1>1
    <2>3. cg_sent'[n + 1][2] = f /\ cg_sent'[n + 1][3] = to
      BY <1>1
    <2>4. ASSUME NEW j \in 1 .. n, cg_sent'[j][2] = f, cg_sent'[j][3] # Dropped
          PROVE  Reaches(n + 1)'
      <3>1. j \in 1 .. (n + 1) - 1
        BY <2>1
      <3> QED BY <2>3, <2>4, <3>1
    <2> QED BY <2>2, <2>3, <2>4 DEF StaticIps
  <1>5. \A i \in DOMAIN cg_sent' : Reaches(i)'
    <2>1. \A i \in 1 .. n + 1 : i \in 1 .. n \/ i = n + 1
      BY <1>1
    <2> QED BY <1>1, <1>3, <1>4, <2>1
  <1> QED BY <1>5 DEF AnswersReach, LedBack, Astray, Repeated, StaticIps

-----------------------------------------------------------------------------
(***************************************************************************)
(* The flow of one packet.                                                 *)
(***************************************************************************)

\* The packets that are left.
LEMMA TodoLeft ==
  ASSUME CgInv, cg_todo # <<>>, cg_todo' = Tail(cg_todo)
  PROVE  /\ Head(cg_todo) \in Flows /\ cg_todo' \in Seq(Flows)
         /\ 1 \in DOMAIN cg_todo /\ cg_todo[1] = Head(cg_todo)
         /\ \A k \in DOMAIN cg_todo' : \E l \in DOMAIN cg_todo : cg_todo'[k] = cg_todo[l]
  <1>1. cg_todo \in Seq(Flows)
    BY DEF CgInv, CgTypeOK
  <1>2. /\ Len(cg_todo) \in Nat \ {0} /\ DOMAIN cg_todo = 1 .. Len(cg_todo)
        /\ Tail(cg_todo) \in Seq(Flows) /\ Len(Tail(cg_todo)) = Len(cg_todo) - 1
        /\ \A k \in 1 .. Len(cg_todo) - 1 : Tail(cg_todo)[k] = cg_todo[k + 1]
    BY <1>1, EmptySeq, LenProperties
  <1>3. DOMAIN cg_todo' = 1 .. Len(cg_todo) - 1
    BY <1>2, LenProperties
  <1>4. ASSUME NEW k \in DOMAIN cg_todo' PROVE \E l \in DOMAIN cg_todo : cg_todo'[k] = cg_todo[l]
    <2>1. k + 1 \in DOMAIN cg_todo /\ cg_todo'[k] = cg_todo[k + 1]
      BY <1>2, <1>3
    <2> QED BY <2>1
  <1>5. cg_todo[1] \in Flows /\ 1 \in DOMAIN cg_todo /\ cg_todo[1] = Head(cg_todo)
    BY <1>1, <1>2
  <1> QED BY <1>2, <1>4, <1>5

\* The flows that are there, of the packets that are left, were sent.
LEMMA LeftSent ==
  ASSUME CgInv, cg_todo # <<>>, cg_todo' = Tail(cg_todo),
         NEW f \in Flows, NEW to \in Ends, Sent(f, to),
         \A g \in Mapped' : g \in Mapped \/ (g = f /\ to # Dropped)
  PROVE  \A k \in DOMAIN cg_todo' : cg_todo'[k] \in Mapped' =>
           \E j \in DOMAIN cg_sent' : cg_sent'[j][2] = cg_todo'[k] /\ cg_sent'[j][3] # Dropped
  <1>1. PICK n \in Nat : n = Len(cg_sent)
    BY SentLast
  <1>2. /\ DOMAIN cg_sent = 1 .. n /\ DOMAIN cg_sent' = 1 .. n + 1
        /\ \A j \in 1 .. n : j \in 1 .. n + 1 /\ cg_sent'[j] = cg_sent[j]
        /\ n + 1 \in 1 .. n + 1
        /\ cg_sent'[n + 1] = <<"private", f, to>>
    BY <1>1, SentLast
  <1> SUFFICES ASSUME NEW k \in DOMAIN cg_todo', cg_todo'[k] \in Mapped'
               PROVE  \E j \in DOMAIN cg_sent' : cg_sent'[j][2] = cg_todo'[k] /\ cg_sent'[j][3] # Dropped
    OBVIOUS
  <1>3. PICK l \in DOMAIN cg_todo : cg_todo'[k] = cg_todo[l]
    BY TodoLeft
  <1>4. CASE cg_todo[l] \in Mapped
    <2>1. PICK j \in DOMAIN cg_sent : cg_sent[j][2] = cg_todo[l] /\ cg_sent[j][3] # Dropped
      BY <1>4 DEF CgInv, BurstLeft
    <2> QED BY <1>2, <1>3, <2>1
  <1>5. CASE cg_todo[l] = f /\ to # Dropped
    <2>1. cg_sent'[n + 1][2] = f /\ cg_sent'[n + 1][3] = to
      BY <1>2
    <2> QED BY <1>2, <1>3, <1>5, <2>1
  <1> QED BY <1>3, <1>4, <1>5

\* What one packet's flow can disturb of the invariant.
TablesGood ==
  /\ TablesInverse /\ PortsListed /\ AnswersReach
  /\ DOMAIN cg_flows \subseteq Ends /\ DOMAIN cg_public \subseteq Ends
  /\ \A f \in DOMAIN cg_flows : cg_flows[f] \in Ends
  /\ cg_stranded \subseteq DOMAIN cg_flows
  /\ cg_free \in [PublicIps -> Seq(PublicPorts)]
  /\ cg_todo \in Seq(Flows)
  /\ cg_sent \in Seq({"private", "public"} \X Ends \X Ends)
  /\ \A k \in DOMAIN cg_todo : cg_todo[k] \in Mapped =>
       \E j \in DOMAIN cg_sent : cg_sent[j][2] = cg_todo[k] /\ cg_sent[j][3] # Dropped

\* Flows stay as they are.
FlowsThere == \A g \in DOMAIN cg_flows : g \in DOMAIN cg_flows' /\ cg_flows'[g] = cg_flows[g]

\* A packet that is dropped, or whose flow is there, changes no table.
LEMMA TablesSame ==
  ASSUME CgInv, cg_todo # <<>>, cg_todo' = Tail(cg_todo),
         NEW f \in Flows, f = Head(cg_todo), NEW to \in Ends, Sent(f, to),
         to = Dropped \/ f \in DOMAIN cg_flows,
         UNCHANGED <<cg_flows, cg_public, cg_free, cg_stranded>>
  PROVE  TablesGood' /\ FlowsThere
  <1>1. TablesInverse' /\ PortsListed' /\ Mapped' = Mapped
    BY DEF CgInv, TablesInverse, Mapped, PortsListed, PublicIps, PublicPorts
  <1>2. f \in Mapped => \E j \in DOMAIN cg_sent : cg_sent[j][2] = f /\ cg_sent[j][3] # Dropped
    BY TodoLeft DEF CgInv, BurstLeft
  <1>3. AnswersReach'
    BY <1>2, SentReaches DEF Mapped
  <1>4. \A k \in DOMAIN cg_todo' : cg_todo'[k] \in Mapped' =>
          \E j \in DOMAIN cg_sent' : cg_sent'[j][2] = cg_todo'[k] /\ cg_sent'[j][3] # Dropped
    BY <1>1, LeftSent
  <1>5. /\ DOMAIN cg_flows' \subseteq Ends' /\ DOMAIN cg_public' \subseteq Ends'
        /\ \A g \in DOMAIN cg_flows' : cg_flows'[g] \in Ends'
        /\ cg_stranded' \subseteq DOMAIN cg_flows'
        /\ cg_free' \in [PublicIps -> Seq(PublicPorts)]'
    BY DEF CgInv, CgTypeOK, Ends, Flows, PublicIps, PublicPorts
  <1>6. cg_todo' \in Seq(Flows)' /\ cg_sent' \in Seq({"private", "public"} \X Ends \X Ends)'
    BY TodoLeft, SentLast DEF Ends, Flows
  <1> QED BY <1>1, <1>3, <1>4, <1>5, <1>6 DEF TablesGood, FlowsThere

\* A flow that the table of answers refuses: its port stays in the list.
LEMMA TablesStrand ==
  ASSUME CgInv, cg_todo # <<>>, cg_todo' = Tail(cg_todo),
         NEW f \in Flows, f = Head(cg_todo), NEW idx \in PublicIps,
         AnswerRefused(f, idx)
  PROVE  TablesGood' /\ FlowsThere
  <1> PICK port \in PublicPorts : port = PortOf(idx)
    BY FreePort DEF CgInv, AnswerRefused
  <1> DEFINE e == <<idx, port>>
  <1>1. /\ f \notin DOMAIN cg_flows /\ cg_free' = cg_free /\ cg_public' = cg_public
        /\ cg_flows' = Entered(cg_flows, f, e)
        /\ cg_stranded' = cg_stranded \cup {f}
        /\ Sent(f, Dropped)
    BY FreePort DEF CgInv, AnswerRefused, GiveBack
  <1>2. e \in Ends
    <2>1. idx \in 0 .. CgPublicIps /\ port \in 0 .. CgPublicPorts
      BY CgAssumption DEF PublicIps, PublicPorts
    <2> QED BY <2>1, EndsOf
  <1>3. /\ DOMAIN cg_flows' = DOMAIN cg_flows \cup {f} /\ cg_flows'[f] = e
        /\ \A g \in DOMAIN cg_flows : cg_flows'[g] = cg_flows[g]
    BY <1>1 DEF Entered
  <1>4. Mapped' = Mapped /\ \A g \in Mapped : cg_flows'[g] = cg_flows[g]
    BY <1>1, <1>3 DEF Mapped
  <1>5. TablesInverse' /\ PortsListed'
    BY <1>1, <1>4 DEF CgInv, TablesInverse, PortsListed, PublicIps, PublicPorts
  <1>6. AnswersReach'
    BY <1>1, EndsOf, SentReaches
  <1>7. \A k \in DOMAIN cg_todo' : cg_todo'[k] \in Mapped' =>
          \E j \in DOMAIN cg_sent' : cg_sent'[j][2] = cg_todo'[k] /\ cg_sent'[j][3] # Dropped
    BY <1>1, <1>4, EndsOf, LeftSent
  <1>8. /\ DOMAIN cg_flows' \subseteq Ends /\ DOMAIN cg_public' \subseteq Ends
        /\ \A g \in DOMAIN cg_flows' : cg_flows'[g] \in Ends
        /\ cg_stranded' \subseteq DOMAIN cg_flows'
        /\ cg_free' \in [PublicIps -> Seq(PublicPorts)]
    BY <1>1, <1>2, <1>3, EndsOf DEF CgInv, CgTypeOK
  <1>9. cg_todo' \in Seq(Flows) /\ cg_sent' \in Seq({"private", "public"} \X Ends \X Ends)
    BY <1>1, TodoLeft, EndsOf, SentLast
  <1>10. Ends' = Ends /\ Flows' = Flows /\ PublicIps' = PublicIps /\ PublicPorts' = PublicPorts
    BY DEF Ends, Flows, PublicIps, PublicPorts
  <1> HIDE DEF e
  <1> QED BY <1>3, <1>5, <1>6, <1>7, <1>8, <1>9, <1>10 DEF TablesGood, FlowsThere

\* A new flow takes a port that no other flow has.
LEMMA TablesGrow ==
  ASSUME CgInv, cg_todo # <<>>, cg_todo' = Tail(cg_todo),
         NEW f \in Flows, f = Head(cg_todo), NEW idx \in PublicIps, NEW ip \in 0 .. CgPublicIps,
         ip = idx \/ (ip = 0 /\ f[1] \in StaticIps),
         PortAdded(f, idx, ip)
  PROVE  TablesGood' /\ FlowsThere
  <1> PICK port \in PublicPorts : port = PortOf(idx)
    BY FreePort DEF CgInv, PortAdded
  <1> DEFINE e == <<idx, port>>
  <1> PICK to : to = <<ip, port>>
    OBVIOUS
  <1>1. /\ f \notin DOMAIN cg_flows
        /\ cg_free' = LessOne(idx) /\ cg_free[idx] # <<>>
        /\ cg_flows' = Entered(cg_flows, f, e)
        /\ cg_public' = Entered(cg_public, e, f)
        /\ Sent(f, to) /\ cg_stranded' = cg_stranded
        /\ f \notin cg_stranded
    BY DEF PortAdded, CgInv, CgTypeOK
  <1>2. /\ DOMAIN cg_flows' = DOMAIN cg_flows \cup {f} /\ cg_flows'[f] = e
        /\ \A g \in DOMAIN cg_flows : cg_flows'[g] = cg_flows[g]
        /\ Mapped' = Mapped \cup {f} /\ f \notin Mapped
        /\ Mapped \subseteq DOMAIN cg_flows
    BY <1>1 DEF Entered, Mapped
  <1>3. e \notin DOMAIN cg_public
    <2>1. \E k \in DOMAIN cg_free[idx] : cg_free[idx][k] = port
      <3>1. cg_free[idx] \in Seq(PublicPorts)
        BY DEF CgInv, CgTypeOK
      <3>2. Len(cg_free[idx]) \in DOMAIN cg_free[idx]
        BY <1>1, <3>1, EmptySeq, LenProperties
      <3> QED BY <1>1, <3>2, FreePort DEF CgInv
    <2> QED BY <2>1 DEF CgInv, PortsListed
  <1>4. /\ DOMAIN cg_public' = DOMAIN cg_public \cup {e} /\ cg_public'[e] = f
        /\ \A a \in DOMAIN cg_public : cg_public'[a] = cg_public[a]
    BY <1>1, <1>3 DEF Entered
  <1>5. to \in Ends /\ to # Dropped /\ e \in Ends
    <2>1. ip \in 0 .. CgPublicIps /\ idx \in 0 .. CgPublicIps /\ port \in 1 .. CgPublicPorts
      BY CgAssumption DEF PublicIps, PublicPorts
    <2>2. to \in Ends /\ e \in Ends
      BY <2>1, EndsOf
    <2>3. to # Dropped
      BY <2>1, CgAssumption DEF Dropped
    <2> QED BY <2>2, <2>3
  <1>6. TablesInverse'
    <2> HIDE DEF e
    <2> QED BY <1>1, <1>2, <1>3, <1>4 DEF CgInv, TablesInverse
  <1>7. AnswersReach'
    <2>1. to = e \/ (f[1] \in StaticIps /\ to[1] = 0)
      OBVIOUS
    <2> HIDE DEF e
    <2> QED BY <1>1, <1>4, <1>5, <2>1, SentReaches
  <1>8. PortsListed'
    <2> SUFFICES ASSUME NEW i \in PublicIps
                 PROVE  /\ Len(cg_free'[i]) <= CgPublicPorts
                        /\ \A k, l \in DOMAIN cg_free'[i] : cg_free'[i][k] = cg_free'[i][l] => k = l
                        /\ \A q \in PublicPorts :
                             <<i, q>> \in DOMAIN cg_public' <=> ~ \E k \in DOMAIN cg_free'[i] : cg_free'[i][k] = q
      BY DEF PortsListed, PublicIps, PublicPorts
    <2>1. /\ Len(cg_free[i]) <= CgPublicPorts
          /\ \A k, l \in DOMAIN cg_free[i] : cg_free[i][k] = cg_free[i][l] => k = l
          /\ \A q \in PublicPorts :
               <<i, q>> \in DOMAIN cg_public <=> ~ \E k \in DOMAIN cg_free[i] : cg_free[i][k] = q
      BY DEF CgInv, PortsListed
    <2>2. CASE i # idx
      <3>1. cg_free'[i] = cg_free[i]
        BY <1>1, <2>2 DEF LessOne, CgInv, CgTypeOK
      <3>2. \A q : <<i, q>> \in DOMAIN cg_public' <=> <<i, q>> \in DOMAIN cg_public
        BY <1>4, <2>2
      <3> QED BY <2>1, <3>1, <3>2
    <2>3. CASE i = idx
      <3> PICK n \in Nat \ {0} : /\ n = Len(cg_free[idx]) /\ DOMAIN cg_free[idx] = 1 .. n
        BY <1>1, EmptySeq, LenProperties DEF CgInv, CgTypeOK
      <3>1. /\ Len(cg_free'[idx]) = n - 1 /\ DOMAIN cg_free'[idx] = 1 .. n - 1
            /\ \A k \in 1 .. n - 1 : cg_free'[idx][k] = cg_free[idx][k]
            /\ cg_free[idx][n] = port
        <4>1. cg_free'[idx] \in Seq(PublicPorts)
          BY <1>1, FreePort DEF CgInv
        <4> QED BY <1>1, <4>1, FreePort, LenProperties DEF CgInv
      <3>2. \A k \in 1 .. n : k \in 1 .. n - 1 \/ k = n
        OBVIOUS
      <3>3. n \in 1 .. n /\ \A k \in 1 .. n - 1 : k \in 1 .. n /\ k # n
        OBVIOUS
      <3>4. \A k, l \in 1 .. n : cg_free[idx][k] = cg_free[idx][l] => k = l
        BY <2>1, <2>3
      <3>5. n - 1 <= CgPublicPorts
        BY <2>1, <2>3, CgAssumption
      <3>6. \A q \in PublicPorts :
              <<idx, q>> \in DOMAIN cg_public' <=> ~ \E k \in 1 .. n - 1 : cg_free'[idx][k] = q
        <4> SUFFICES ASSUME NEW q \in PublicPorts
                     PROVE  <<idx, q>> \in DOMAIN cg_public' <=> ~ \E k \in 1 .. n - 1 : cg_free[idx][k] = q
          BY <3>1
        <4>1. CASE q = port
          <5>1. \A k \in 1 .. n - 1 : cg_free[idx][k] # port
            BY <3>1, <3>3, <3>4
          <5> QED BY <1>4, <4>1, <5>1
        <4>2. CASE q # port
          <5>1. <<idx, q>> \in DOMAIN cg_public' <=> <<idx, q>> \in DOMAIN cg_public
            BY <1>4, <4>2
          <5>2. (\E k \in 1 .. n : cg_free[idx][k] = q) <=> \E k \in 1 .. n - 1 : cg_free[idx][k] = q
            BY <3>1, <3>2, <3>3, <4>2
          <5> QED BY <2>1, <2>3, <5>1, <5>2
        <4> QED BY <4>1, <4>2
      <3>7. \A k, l \in 1 .. n - 1 : cg_free'[idx][k] = cg_free'[idx][l] => k = l
        BY <3>1, <3>3, <3>4
      <3> QED BY <2>3, <3>1, <3>5, <3>6, <3>7
    <2> QED BY <2>2, <2>3
  <1>9. \A k \in DOMAIN cg_todo' : cg_todo'[k] \in Mapped' =>
          \E j \in DOMAIN cg_sent' : cg_sent'[j][2] = cg_todo'[k] /\ cg_sent'[j][3] # Dropped
    BY <1>1, <1>2, <1>5, LeftSent
  <1>10. /\ DOMAIN cg_flows' \subseteq Ends /\ DOMAIN cg_public' \subseteq Ends
         /\ \A g \in DOMAIN cg_flows' : cg_flows'[g] \in Ends
         /\ cg_stranded' \subseteq DOMAIN cg_flows'
    BY <1>1, <1>2, <1>4, <1>5, EndsOf DEF CgInv, CgTypeOK
  <1>11. cg_free' \in [PublicIps -> Seq(PublicPorts)]
    BY <1>1, FreePort DEF CgInv
  <1>12. cg_todo' \in Seq(Flows) /\ cg_sent' \in Seq({"private", "public"} \X Ends \X Ends)
    BY <1>1, <1>5, TodoLeft, SentLast
  <1>13. Ends' = Ends /\ Flows' = Flows /\ PublicIps' = PublicIps /\ PublicPorts' = PublicPorts
    BY DEF Ends, Flows, PublicIps, PublicPorts
  <1> HIDE DEF e
  <1> QED BY <1>2, <1>6, <1>7, <1>8, <1>9, <1>10, <1>11, <1>12, <1>13 DEF TablesGood, FlowsThere

\* add_new_port_entry, whichever way it goes.
LEMMA AddPortKeeps ==
  ASSUME CgInv, cg_todo # <<>>, cg_todo' = Tail(cg_todo),
         NEW f \in Flows, f = Head(cg_todo), NEW idx \in PublicIps, NEW ip \in 0 .. CgPublicIps,
         ip = idx \/ (ip = 0 /\ f[1] \in StaticIps),
         AddPort(f, idx, ip)
  PROVE  TablesGood' /\ FlowsThere
  <1>1. CASE NoPort(f, idx)
    BY <1>1, EndsOf, TablesSame DEF NoPort
  <1>2. CASE PortGivenBack(f, idx, ip)
    <2>1. PortOf(idx) \in PublicPorts /\ cg_free' = cg_free
      BY <1>2, FreePort DEF CgInv, PortGivenBack, GiveBack
    <2>2. <<ip, PortOf(idx)>> \in Ends
      BY <2>1, EndsOf, CgAssumption DEF PublicPorts
    <2> QED BY <1>2, <2>1, <2>2, TablesSame DEF PortGivenBack
  <1>4. CASE FlowRefused(f, idx)
    <2>1. cg_free' = cg_free
      BY <1>4, FreePort DEF CgInv, FlowRefused, GiveBack
    <2> QED BY <1>4, <2>1, EndsOf, TablesSame DEF FlowRefused
  <1>5. CASE AnswerRefused(f, idx)
    BY <1>5, TablesStrand
  <1>3. CASE PortAdded(f, idx, ip)
    BY <1>3, TablesGrow
  <1> QED BY <1>1, <1>2, <1>3, <1>4, <1>5 DEF AddPort, NotAdded, Added

\* The address of the packet was found, or not, or an earlier packet added it.
LEMMA StepNewFlow ==
  ASSUME CgInv, CgNewFlow PROVE CgInv' /\ FlowsKept
  <1> PICK f \in Flows : f = Head(cg_todo)
    BY TodoLeft DEF CgNewFlow
  <1>1. /\ cg_todo # <<>> /\ cg_todo' = Tail(cg_todo) /\ cg_found' = cg_found
        /\ FlowOfKnown(f) \/ NoAddress(f) \/ AddressRefused(f) \/ FlowOfAdded(f) \/ FlowOfNew(f)
    BY DEF CgNewFlow
  <1>2. PICK new : new = NewIp(cg_free, cg_last)
    OBVIOUS
  <1>3. /\ new.last \in 1 .. CgPublicIps + 1
        /\ new.idx # 0 => new.idx \in PublicIps /\ cg_free[new.idx] # <<>>
    BY <1>2, NewIpHasPort, CgAssumption DEF CgInv, CgTypeOK, PublicIps
  <1>4. \A ip \in DOMAIN cg_ips :
          /\ cg_ips[ip].idx \in PublicIps /\ cg_ips[ip].ip \in 0 .. CgPublicIps
          /\ cg_ips[ip].ip = cg_ips[ip].idx \/ (cg_ips[ip].ip = 0 /\ ip \in StaticIps)
    BY CgAssumption DEF CgInv, AddressesKnown, PublicIps
  <1>5. cg_found \subseteq DOMAIN cg_ips /\ \A ip \in DOMAIN cg_ips : cg_ips[ip].ip = 0 => ip \in cg_found
    BY <1>1 DEF CgInv, BurstLeft
  <1>6. CASE FlowOfKnown(f)
    <2>1. /\ f[1] \in DOMAIN cg_ips /\ AddPort(f, cg_ips[f[1]].idx, cg_ips[f[1]].ip)
          /\ cg_ips' = cg_ips /\ cg_last' = cg_last
      BY <1>5, <1>6 DEF FlowOfKnown, Known
    <2>2. AddressesKnown'
      BY <2>1 DEF CgInv, AddressesKnown, PublicIps, StaticIps
    <2> QED BY <1>1, <1>4, <1>5, <2>1, <2>2, AddPortKeeps
            DEF CgInv, CgTypeOK, BurstLeft, FlowsKept, TablesGood, FlowsThere, PublicIps, PublicPorts, Ends, Flows
  <1>7. CASE NoAddress(f) \/ AddressRefused(f)
    <2>1. /\ Sent(f, Dropped) /\ cg_last' = new.last
          /\ UNCHANGED <<cg_flows, cg_public, cg_free, cg_ips, cg_stranded>>
      BY <1>2, <1>7 DEF NoAddress, AddressRefused
    <2>2. AddressesKnown'
      BY <2>1 DEF CgInv, AddressesKnown, PublicIps, StaticIps
    <2> QED BY <1>1, <1>3, <1>5, <2>1, <2>2, EndsOf, TablesSame
            DEF CgInv, CgTypeOK, BurstLeft, FlowsKept, TablesGood, FlowsThere, PublicIps, PublicPorts, Ends, Flows
  <1>8. CASE FlowOfAdded(f)
    <2>1. /\ f[1] \in DOMAIN cg_ips /\ AddPort(f, cg_ips[f[1]].idx, cg_ips[f[1]].ip)
          /\ cg_ips' = cg_ips /\ cg_last' = new.last
      BY <1>2, <1>8 DEF FlowOfAdded, There
    <2>2. AddressesKnown'
      BY <2>1 DEF CgInv, AddressesKnown, PublicIps, StaticIps
    <2> QED BY <1>1, <1>3, <1>4, <1>5, <2>1, <2>2, AddPortKeeps
            DEF CgInv, CgTypeOK, BurstLeft, FlowsKept, TablesGood, FlowsThere, PublicIps, PublicPorts, Ends, Flows
  <1>9. CASE FlowOfNew(f)
    <2>1. /\ f[1] \notin cg_found /\ new.idx # 0 /\ ~There(f[1])
          /\ cg_ips' = Entered(cg_ips, f[1], [idx |-> new.idx, ip |-> new.idx])
          /\ AddPort(f, new.idx, new.idx)
          /\ \/ cg_last' = new.last
             \/ cg_last' = IF new.last > 1 THEN new.last - 1 ELSE CgPublicIps
      BY <1>2, <1>9 DEF FlowOfNew, Known, AddPort
    <2>2. f[1] \notin DOMAIN cg_ips
      BY <1>5, <2>1 DEF There
    <2>3. /\ DOMAIN cg_ips' = DOMAIN cg_ips \cup {f[1]}
          /\ cg_ips'[f[1]] = [idx |-> new.idx, ip |-> new.idx]
          /\ \A ip \in DOMAIN cg_ips : cg_ips'[ip] = cg_ips[ip]
      BY <2>1, <2>2 DEF Entered
    <2>4. new.idx \in PublicIps /\ new.idx \in 0 .. CgPublicIps /\ new.idx # 0 /\ cg_last' \in 1 .. CgPublicIps + 1
      BY <1>3, <2>1, CgAssumption DEF PublicIps
    <2>5. AddressesKnown'
      BY <1>4, <2>3, <2>4 DEF AddressesKnown, PublicIps, StaticIps
    <2>6. \A ip \in DOMAIN cg_ips' : cg_ips'[ip].ip = 0 => ip \in cg_found'
      BY <1>1, <1>5, <2>3, <2>4
    <2>7. cg_found' \subseteq DOMAIN cg_ips'
      BY <1>1, <1>5, <2>3
    <2> QED BY <1>1, <1>3, <2>1, <2>3, <2>4, <2>5, <2>6, <2>7, AddPortKeeps
            DEF CgInv, CgTypeOK, BurstLeft, FlowsKept, TablesGood, FlowsThere, PublicIps, PublicPorts, Ends, Flows
  <1> QED BY <1>1, <1>6, <1>7, <1>8, <1>9

\* A burst from the private side: flows that are there are sent as they are, and
\* none of the packets that are left has one.
LEMMA StepPrivateBurst ==
  ASSUME CgInv, CgPrivateBurst PROVE CgInv' /\ FlowsKept
  <1> PICK m \in 0 .. CgBurst, n \in 0 .. CgBurst :
           \E known \in [1 .. m -> DOMAIN cg_flows], new \in [1 .. n -> Flows \ DOMAIN cg_flows] :
             /\ cg_sent' = [k \in 1 .. m |-> <<"private", known[k], cg_flows[known[k]]>>]
             /\ cg_todo' = new
    BY DEF CgPrivateBurst
  <1> PICK known \in [1 .. m -> DOMAIN cg_flows], new \in [1 .. n -> Flows \ DOMAIN cg_flows] :
             /\ cg_sent' = [k \in 1 .. m |-> <<"private", known[k], cg_flows[known[k]]>>]
             /\ cg_todo' = new
    OBVIOUS
  <1>1. cg_found' = DOMAIN cg_ips /\ UNCHANGED <<cg_flows, cg_public, cg_ips, cg_free, cg_last, cg_stranded>>
    BY DEF CgPrivateBurst, cg_tables
  <1>2. m \in Nat /\ n \in Nat
    OBVIOUS
  <1> DEFINE S == {"private", "public"} \X Ends \X Ends
  <1>3. \A k \in 1 .. m : cg_sent'[k] \in S
    BY EndsOf
  <1>4. cg_sent' \in Seq(S) /\ DOMAIN cg_sent' = 1 .. m
    <2> HIDE DEF S
    <2> QED BY SMTT(60), <1>2, <1>3
  <1>5. cg_todo' \in Seq(Flows)
    BY <1>2
  <1>6. CgTypeOK'
    BY <1>1, <1>4, <1>5 DEF CgInv, CgTypeOK, PublicIps, PublicPorts, Ends, Flows
  <1>7. AnswersReach'
    <2>1. \A k \in 1 .. m : /\ cg_sent'[k][2] = known[k] /\ cg_sent'[k][3] = cg_flows[known[k]]
                            /\ known[k] \in DOMAIN cg_flows
      OBVIOUS
    <2>2. \A g \in DOMAIN cg_flows :
            \/ cg_flows[g] \in DOMAIN cg_public' /\ cg_public'[cg_flows[g]] = g
            \/ g \in cg_stranded'
      BY <1>1 DEF CgInv, TablesInverse, Mapped
    <2> QED BY <1>4, <2>1, <2>2 DEF AnswersReach, LedBack, Astray
  <1>8. TablesInverse' /\ PortsListed' /\ AddressesKnown'
    BY <1>1 DEF CgInv, TablesInverse, Mapped, PortsListed, AddressesKnown, PublicIps, PublicPorts, StaticIps
  <1>9. BurstLeft'
    BY <1>1 DEF BurstLeft, Mapped
  <1> QED BY <1>1, <1>6, <1>7, <1>8, <1>9 DEF CgInv, FlowsKept

\* A burst of answers.
LEMMA StepPublicBurst ==
  ASSUME CgInv, CgPublicBurst PROVE CgInv' /\ FlowsKept
  <1>1. cg_todo = <<>> /\ cg_todo' = cg_todo
        /\ UNCHANGED <<cg_flows, cg_public, cg_ips, cg_free, cg_last, cg_stranded, cg_found>>
    BY DEF CgPublicBurst, cg_tables
  <1>2. PICK a \in DOMAIN cg_public \cup {<<1, 0>>} :
          cg_sent' = <<<<"public", a, IF a \in DOMAIN cg_public THEN cg_public[a] ELSE Dropped>>>>
    BY DEF CgPublicBurst
  <1>3. a \in Ends
    BY EndsOf, CgAssumption
  <1>4. PICK b \in Ends : cg_sent' = <<<<"public", a, b>>>>
    BY <1>2, EndsOf
  <1>5. cg_sent' \in Seq({"private", "public"} \X Ends \X Ends)
    BY <1>3, <1>4
  <1>6. CgTypeOK'
    BY <1>1, <1>5 DEF CgInv, CgTypeOK, PublicIps, PublicPorts, Ends, Flows
  <1>7. AnswersReach'
    BY <1>4 DEF AnswersReach, LedBack
  <1>8. TablesInverse' /\ PortsListed' /\ AddressesKnown'
    BY <1>1 DEF CgInv, TablesInverse, Mapped, PortsListed, AddressesKnown, PublicIps, PublicPorts, StaticIps
  <1>9. BurstLeft'
    BY <1>1 DEF CgInv, CgTypeOK, BurstLeft
  <1> QED BY <1>1, <1>6, <1>7, <1>8, <1>9 DEF CgInv, FlowsKept

\* Every step keeps the invariant.
LEMMA CgStep == CgInv /\ [CgNext]_cg_vars => CgInv'
  <1> SUFFICES ASSUME CgInv, [CgNext]_cg_vars PROVE CgInv'
    OBVIOUS
  <1>1. CASE CgNext
    BY <1>1, StepNewFlow, StepPrivateBurst, StepPublicBurst DEF CgNext
  <1>2. CASE UNCHANGED cg_vars
    BY <1>2 DEF cg_vars, cg_tables, CgInv, CgTypeOK, TablesInverse, Mapped, AnswersReach, LedBack, Astray, Repeated,
                AddressesKnown, PortsListed, BurstLeft, PublicIps, PublicPorts, StaticIps, Ends, Flows
  <1> QED BY <1>1, <1>2

\* A port that is listed once is counted once.
LEMMA PortsCounted == CgInv => PortsAccounted
  <1> SUFFICES ASSUME CgInv, NEW i \in PublicIps, NEW port \in PublicPorts
               PROVE  Cardinality({k \in DOMAIN cg_free[i] : cg_free[i][k] = port})
                        + Cardinality({f \in Mapped : cg_flows[f] = <<i, port>>}) = 1
    BY DEF PortsAccounted, PublicIps, PublicPorts
  <1> DEFINE listed == {k \in DOMAIN cg_free[i] : cg_free[i][k] = port}
             users == {f \in Mapped : cg_flows[f] = <<i, port>>}
  <1>1. CASE <<i, port>> \in DOMAIN cg_public
    <2>1. listed = {}
      BY <1>1 DEF CgInv, PortsListed
    <2>2. users = {cg_public[<<i, port>>]}
      BY <1>1 DEF CgInv, TablesInverse
    <2>3. Cardinality(listed) = 0 /\ Cardinality(users) = 1
      BY <2>1, <2>2, FS_EmptySet, FS_Singleton
    <2> QED BY <2>3
  <1>2. CASE <<i, port>> \notin DOMAIN cg_public
    <2>1. PICK k \in DOMAIN cg_free[i] : cg_free[i][k] = port
      BY <1>2 DEF CgInv, PortsListed
    <2>2. listed = {k}
      BY <2>1 DEF CgInv, PortsListed
    <2>3. users = {}
      BY <1>2 DEF CgInv, TablesInverse
    <2>4. Cardinality(listed) = 1 /\ Cardinality(users) = 0
      BY <2>2, <2>3, FS_EmptySet, FS_Singleton
    <2> QED BY <2>4
  <1> QED BY <1>1, <1>2

\* handle_cgnat.c: whatever the bursts and whatever the hash tables refuse, the
\* tables agree with each other and with the free ports, and what a packet was sent
\* with leads its answer back, the packets apart that AnswersReach names.
THEOREM TablesAgree == CgSpec => []CgnatSound
  <1>1. CgInv => CgnatSound
    BY PortsCounted DEF CgInv, CgnatSound
  <1> QED BY <1>1, CgStart, CgStep, PTL DEF CgSpec

\* No packet changes the public address or port of a flow, or the public address of
\* a private one.
THEOREM FlowsStay == CgSpec => FlowsStable
  <1>1. CgInv /\ [CgNext]_cg_vars => [FlowsKept]_cg_vars
    BY StepNewFlow, StepPrivateBurst, StepPublicBurst DEF CgNext
  <1> QED BY <1>1, CgStart, CgStep, PTL DEF CgSpec, FlowsStable

-----------------------------------------------------------------------------
(***************************************************************************)
(* The border network gateway.                                             *)
(***************************************************************************)

LEMMA EntryNotVacant ==
  ASSUME NEW e \in CpeEntries
  PROVE  e # Vacant
  <1>1. DOMAIN e = {"key", "line", "mac", "tsc"}
    BY DEF CpeEntries
  <1>2. DOMAIN Vacant = {}
    BY DEF Vacant
  <1> QED BY <1>1, <1>2

\* A part of a bucket.
LEMMA PartProperties ==
  ASSUME NEW s \in Seq(Slots), NEW n \in Nat, Len(s) = n * BngDepth, NEW k \in 1 .. n
  PROVE  /\ Part(s, k) \in Seq(Slots) /\ Len(Part(s, k)) = BngDepth
         /\ \A i \in 1 .. BngDepth : /\ (k - 1) * BngDepth + i \in 1 .. k * BngDepth
                                     /\ (k - 1) * BngDepth + i \in DOMAIN s
                                     /\ Part(s, k)[i] = s[(k - 1) * BngDepth + i]
  <1> DEFINE m == (k - 1) * BngDepth + 1
             l == k * BngDepth
             p == SubSeq(s, m, l)
  <1>1. BngDepth \in Nat \ {0} /\ k \in Nat \ {0} /\ k <= n
    BY BngAssumption
  <1>2. (k - 1) * BngDepth \in Nat /\ k * BngDepth = (k - 1) * BngDepth + BngDepth
    BY <1>1
  <1>3. k * BngDepth <= n * BngDepth /\ n * BngDepth \in Nat
    <2>1. n - k \in Nat /\ n * BngDepth = k * BngDepth + (n - k) * BngDepth
      BY <1>1
    <2>2. (n - k) * BngDepth \in Nat
      BY <1>1, <2>1
    <2> QED BY <1>1, <2>1, <2>2
  <1>4. m \in Int /\ l \in Int /\ l = m + BngDepth - 1 /\ m >= 1 /\ l <= Len(s)
    BY <1>1, <1>2, <1>3
  <1> HIDE DEF m, l
  <1>5. DOMAIN s = 1 .. Len(s)
    OBVIOUS
  <1>6. \A i \in m .. l : s[i] \in Slots
    BY <1>1, <1>4, ElementOfSeq
  <1>7. /\ p \in Seq(Slots)
        /\ Len(p) = (IF m <= l THEN l - m + 1 ELSE 0)
        /\ \A i \in 1 .. l - m + 1 : p[i] = s[m + i - 1]
    BY <1>4, <1>6, SubSeqProperties
  <1>8. Len(p) = BngDepth
    BY <1>1, <1>4, <1>7
  <1>9. ASSUME NEW i \in 1 .. BngDepth
        PROVE  /\ m - 1 + i \in 1 .. l /\ m - 1 + i \in DOMAIN s /\ p[i] = s[m - 1 + i]
    <2>1. i \in 1 .. l - m + 1 /\ m + i - 1 = m - 1 + i
      BY <1>1, <1>4
    <2>2. m - 1 + i \in 1 .. l /\ m - 1 + i \in 1 .. Len(s)
      BY <1>1, <1>4
    <2> QED BY <1>5, <1>7, <2>1, <2>2
  <1>10. m - 1 = (k - 1) * BngDepth
    BY <1>2 DEF m
  <1> QED BY <1>7, <1>8, <1>9, <1>10 DEF Part, m, l

\* What the first k parts leave, and the function that says so.
Linked(g, s) ==
  g = [k \in 0 .. Len(s) \div BngDepth |->
         IF k = 0 THEN <<>>
         ELSE IF k = 1 \/ InUse(Part(s, k)) THEN g[k - 1] \o Part(s, k)
         ELSE g[k - 1]]

LEMMA LinkedExists ==
  ASSUME NEW s \in Seq(Slots), NEW n \in Nat, Len(s) = n * BngDepth
  PROVE  (Len(s) \div BngDepth = n) /\ \E g : Linked(g, s)
  <1>1. BngDepth \in Nat \ {0}
    BY BngAssumption
  <1>2. Len(s) \div BngDepth = n
    <2>1. n * BngDepth = BngDepth * n + 0 /\ 0 \in 0 .. BngDepth - 1 /\ n * BngDepth \in Nat
      BY <1>1
    <2> QED BY <1>1, <2>1
  <1> DEFINE step == [k \in 1 .. n |-> [x \in Seq(Slots) |->
                        IF k = 1 \/ InUse(Part(s, k)) THEN x \o Part(s, k) ELSE x]]
  <1>3. ASSUME NEW k \in 1 .. n, NEW x \in Seq(Slots)
        PROVE  x \o Part(s, k) \in Seq(Slots)
    BY <1>3, PartProperties, ConcatProperties
  <1>4. \A k \in 1 .. n : \A x \in Seq(Slots) : step[k][x] \in Seq(Slots)
    BY <1>3
  <1>5. <<>> \in Seq(Slots)
    OBVIOUS
  <1>6. ASSUME NEW k \in 1 .. n, NEW x \in Seq(Slots)
        PROVE  step[k][x] = IF k = 1 \/ InUse(Part(s, k)) THEN x \o Part(s, k) ELSE x
    OBVIOUS
  <1> HIDE DEF step
  <1>7. PICK g \in [0 .. n -> Seq(Slots)] :
          g[0] = <<>> /\ \A k \in 1 .. n : g[k] = step[k][g[k - 1]]
    <2> DEFINE base == <<>>
               S == Seq(Slots)
               h == n
    <2>1. StepsWithin(h, S, base, step)
      BY <1>4, <1>5 DEF StepsWithin
    <2> HIDE DEF base, S, h
    <2>2. \E g \in [0 .. h -> S] : g[0] = base /\ \A k \in 1 .. h : g[k] = step[k][g[k - 1]]
      BY <2>1, StepsExist
    <2> QED BY <2>2 DEF base, S, h
  <1>8. ASSUME NEW k \in 0 .. n
        PROVE  g[k] = IF k = 0 THEN <<>>
                      ELSE IF k = 1 \/ InUse(Part(s, k)) THEN g[k - 1] \o Part(s, k)
                      ELSE g[k - 1]
    <2>1. CASE k # 0
      <3>1. k \in 1 .. n /\ k - 1 \in 0 .. n
        BY <2>1
      <3> QED BY <1>6, <1>7, <2>1, <3>1
    <2> QED BY <1>7, <2>1
  <1>9. g = [k \in 0 .. n |-> g[k]]
    BY <1>7
  <1>10. g = [k \in 0 .. n |->
               IF k = 0 THEN <<>>
               ELSE IF k = 1 \/ InUse(Part(s, k)) THEN g[k - 1] \o Part(s, k)
               ELSE g[k - 1]]
    BY <1>8, <1>9, Zenon
  <1>11. Linked(g, s)
    BY <1>2, <1>10, Zenon DEF Linked
  <1> QED BY <1>2, <1>11

\* What the first k parts leave: their entries, each once, in parts; the first
\* part stays where it is.
Leaves(t, s, k) ==
  /\ t \in Seq(Slots) /\ Len(t) % BngDepth = 0
  /\ k = 0 => t = <<>>
  /\ k # 0 => Len(t) >= BngDepth /\ \A i \in 1 .. BngDepth : t[i] = s[i]
  /\ \A i \in DOMAIN t : t[i] # Vacant => \E j \in 1 .. k * BngDepth : s[j] = t[i]
  /\ \A j \in 1 .. k * BngDepth : s[j] # Vacant => \E i \in DOMAIN t : t[i] = s[j]
  /\ \A i, j \in DOMAIN t : t[i] # Vacant /\ t[j] # Vacant /\ t[i].key = t[j].key => i = j

\* One more part.
LEMMA LeavesNext ==
  ASSUME NEW s, WellLinked(s), NEW n \in Nat, Len(s) = n * BngDepth,
         NEW k \in 0 .. n - 1, NEW t, Leaves(t, s, k)
  PROVE  /\ k = 0 \/ InUse(Part(s, k + 1)) => Leaves(t \o Part(s, k + 1), s, k + 1)
         /\ k # 0 /\ ~ InUse(Part(s, k + 1)) => Leaves(t, s, k + 1)
  <1> DEFINE D == BngDepth
             m == k * D
             p == Part(s, k + 1)
             u == t \o p
  <1>1. D \in Nat \ {0} /\ m \in Nat /\ (k + 1) * D = m + D /\ k + 1 \in 1 .. n
    BY BngAssumption
  <1>2. s \in Seq(Slots) /\ DOMAIN s = 1 .. Len(s) /\ Len(s) \in Nat
    BY DEF WellLinked
  <1>3. /\ p \in Seq(Slots) /\ Len(p) = D
        /\ \A i \in 1 .. D : m + i \in 1 .. m + D /\ m + i \in DOMAIN s /\ p[i] = s[m + i]
    <2> DEFINE h == k + 1
    <2>1. h \in 1 .. n /\ h - 1 = k
      BY <1>1
    <2> HIDE DEF h
    <2>2. Part(s, h) \in Seq(Slots) /\ Len(Part(s, h)) = BngDepth
      BY <1>2, <2>1, PartProperties
    <2>3. ASSUME NEW i \in 1 .. BngDepth
          PROVE  /\ k * BngDepth + i \in 1 .. h * BngDepth /\ k * BngDepth + i \in DOMAIN s
                 /\ Part(s, h)[i] = s[k * BngDepth + i]
      BY <1>2, <2>1, PartProperties
    <2> QED BY <1>1, <2>2, <2>3 DEF h
  <1>4. t \in Seq(Slots) /\ Len(t) \in Nat /\ DOMAIN t = 1 .. Len(t)
    BY DEF Leaves
  <1> HIDE DEF p, m, D
  <1>5. ASSUME NEW j \in 1 .. m + D, j \notin 1 .. m
        PROVE  j - m \in 1 .. D /\ m + (j - m) = j /\ p[j - m] = s[j]
    <2>1. j - m \in 1 .. D /\ m + (j - m) = j
      BY <1>1, <1>5
    <2> QED BY <1>3, <2>1
  <1>6. ASSUME k # 0, ~ InUse(p) PROVE Leaves(t, s, k + 1)
    <2>1. \A i \in 1 .. D : p[i] = Vacant
      BY <1>6 DEF InUse, D
    <2>2. \A j \in 1 .. m + D : j \in 1 .. m \/ s[j] = Vacant
      BY <1>5, <2>1
    <2>3. \A j \in 1 .. m : j \in 1 .. m + D
      BY <1>1
    <2> QED BY <1>1, <1>6, <2>2, <2>3 DEF Leaves, m, D
  <1>7. ASSUME k = 0 \/ InUse(p) PROVE Leaves(u, s, k + 1)
    <2>1. /\ u \in Seq(Slots) /\ Len(u) = Len(t) + D /\ DOMAIN u = 1 .. Len(t) + D
          /\ \A i \in 1 .. Len(t) + D : u[i] = IF i <= Len(t) THEN t[i] ELSE p[i - Len(t)]
      <3>1. /\ u \in Seq(Slots) /\ Len(u) = Len(t) + Len(p)
            /\ \A i \in 1 .. Len(t) + Len(p) : u[i] = IF i <= Len(t) THEN t[i] ELSE p[i - Len(t)]
        BY <1>3, <1>4, ConcatProperties
      <3>2. DOMAIN u = 1 .. Len(u)
        BY <3>1
      <3> QED BY <1>3, <3>1, <3>2
    <2> HIDE DEF u
    <2>2. Len(u) % D = 0
      <3>1. Len(t) % D = 0
        BY DEF Leaves, D
      <3>2. Len(t) \in Int
        BY <1>4
      <3>3. (Len(t) + D) % D = 0
        BY <1>1, <3>1, <3>2, MultiplePlus, Zenon
      <3> QED BY <2>1, <3>3
    <2>3. \A i \in 1 .. Len(t) : i \in DOMAIN u /\ u[i] = t[i]
      BY <1>1, <1>4, <2>1
    <2>4. \A i \in DOMAIN u : i \in DOMAIN t \/ (i - Len(t) \in 1 .. D /\ u[i] = p[i - Len(t)])
      BY <1>1, <1>4, <2>1
    <2>5. \A i \in 1 .. D : Len(t) + i \in DOMAIN u /\ u[Len(t) + i] = p[i]
      <3> TAKE i \in 1 .. D
      <3>1. Len(t) + i \in 1 .. Len(t) + D /\ ~ (Len(t) + i <= Len(t)) /\ Len(t) + i - Len(t) = i
        BY <1>1, <1>4
      <3> QED BY <2>1, <3>1
    <2>6. Len(u) >= D /\ \A i \in 1 .. D : u[i] = s[i]
      <3>1. Len(u) >= D
        BY <1>1, <1>4, <2>1
      <3>2. CASE k = 0
        <4>1. t = <<>> /\ m = 0
          BY <1>1, <3>2 DEF Leaves, m
        <4>2. Len(t) = 0
          BY <4>1
        <4>3. \A i \in 1 .. D : 0 + i = i
          BY <1>1
        <4> QED BY <1>3, <2>5, <3>1, <4>1, <4>2, <4>3
      <3>3. CASE k # 0
        <4>1. Len(t) >= D /\ \A i \in 1 .. D : t[i] = s[i]
          BY <3>3 DEF Leaves, D
        <4>2. \A i \in 1 .. D : i \in 1 .. Len(t)
          BY <1>1, <1>4, <4>1
        <4> QED BY <2>3, <3>1, <4>1, <4>2
      <3> QED BY <3>2, <3>3
    <2>7. \A i \in DOMAIN u : u[i] # Vacant => \E j \in 1 .. m + D : s[j] = u[i]
      <3> SUFFICES ASSUME NEW i \in DOMAIN u, u[i] # Vacant PROVE \E j \in 1 .. m + D : s[j] = u[i]
        OBVIOUS
      <3>1. CASE i \in DOMAIN t
        <4>1. u[i] = t[i]
          BY <1>4, <2>3, <3>1
        <4>2. PICK j \in 1 .. m : s[j] = t[i]
          BY <3>1, <4>1 DEF Leaves, m, D
        <4>3. j \in 1 .. m + D
          BY <1>1
        <4> QED BY <4>1, <4>2, <4>3
      <3>2. CASE i \notin DOMAIN t
        BY <1>3, <2>4, <3>2
      <3> QED BY <3>1, <3>2
    <2>8. \A j \in 1 .. m + D : s[j] # Vacant => \E i \in DOMAIN u : u[i] = s[j]
      <3> SUFFICES ASSUME NEW j \in 1 .. m + D, s[j] # Vacant PROVE \E i \in DOMAIN u : u[i] = s[j]
        OBVIOUS
      <3>1. CASE j \in 1 .. m
        <4>1. PICK i \in DOMAIN t : t[i] = s[j]
          BY <3>1 DEF Leaves, m, D
        <4> QED BY <1>4, <2>3, <4>1
      <3>2. CASE j \notin 1 .. m
        BY <1>5, <2>5, <3>2
      <3> QED BY <3>1, <3>2
    <2>9. ASSUME NEW i \in DOMAIN u, NEW j \in DOMAIN u, i \in DOMAIN t, j \notin DOMAIN t,
                 u[i] # Vacant, u[j] # Vacant, u[i].key = u[j].key
          PROVE  FALSE
      <3>1. u[i] = t[i]
        BY <1>4, <2>3, <2>9
      <3>2. PICK a \in 1 .. m : s[a] = u[i]
        BY <2>9, <3>1 DEF Leaves, m, D
      <3>3. j - Len(t) \in 1 .. D /\ u[j] = s[m + (j - Len(t))] /\ m + (j - Len(t)) \in DOMAIN s
        BY <1>3, <2>4, <2>9
      <3>4. a \in DOMAIN s /\ a # m + (j - Len(t))
        BY SMTT(60), <1>1, <1>2, <1>4, <2>1, <3>3
      <3> QED BY <2>9, <3>2, <3>3, <3>4 DEF WellLinked
    <2>10. \A i, j \in DOMAIN u : u[i] # Vacant /\ u[j] # Vacant /\ u[i].key = u[j].key => i = j
      <3> SUFFICES ASSUME NEW i \in DOMAIN u, NEW j \in DOMAIN u,
                          u[i] # Vacant, u[j] # Vacant, u[i].key = u[j].key
                   PROVE  i = j
        OBVIOUS
      <3>1. CASE i \in DOMAIN t /\ j \in DOMAIN t
        BY <1>4, <2>3, <3>1 DEF Leaves
      <3>2. CASE i \notin DOMAIN t /\ j \notin DOMAIN t
        <4>1. /\ i - Len(t) \in 1 .. D /\ u[i] = s[m + (i - Len(t))] /\ m + (i - Len(t)) \in DOMAIN s
              /\ j - Len(t) \in 1 .. D /\ u[j] = s[m + (j - Len(t))] /\ m + (j - Len(t)) \in DOMAIN s
          BY <1>3, <2>4, <3>2
        <4>2. m + (i - Len(t)) = m + (j - Len(t))
          BY <4>1 DEF WellLinked
        <4> QED BY SMTT(60), <1>1, <1>4, <2>1, <4>2
      <3> QED BY <2>9, <3>1, <3>2
    <2>11. k + 1 # 0
      OBVIOUS
    <2> QED BY <1>1, <2>1, <2>2, <2>6, <2>7, <2>8, <2>10, <2>11 DEF Leaves, D
  <1> QED BY <1>6, <1>7 DEF p

\* Unlinking keeps every entry, and those of the bucket itself in their places.
LEMMA UnlinkedProperties ==
  ASSUME NEW s, WellLinked(s)
  PROVE  LET t == Unlinked(s) IN
         /\ WellLinked(t)
         /\ \A i \in 1 .. BngDepth : t[i] = s[i]
         /\ \A i \in DOMAIN t : t[i] # Vacant => \E j \in DOMAIN s : s[j] = t[i]
         /\ \A j \in DOMAIN s : s[j] # Vacant => \E i \in DOMAIN t : t[i] = s[j]
  <1> DEFINE n == Len(s) \div BngDepth
             g == CHOOSE f : Linked(f, s)
             T == {k \in 0 .. n : Leaves(g[k], s, k)}
  <1>1. BngDepth \in Nat \ {0} /\ s \in Seq(Slots) /\ Len(s) \in Nat /\ DOMAIN s = 1 .. Len(s)
    BY BngAssumption DEF WellLinked
  <1>2. n \in Nat \ {0} /\ Len(s) = n * BngDepth
    <2>1. Len(s) = BngDepth * n + (Len(s) % BngDepth) /\ n \in Int
      <3>1. Len(s) \in Int
        BY <1>1
      <3> QED BY <1>1, <3>1, Division, Zenon
    <2>5. Len(s) >= BngDepth /\ Len(s) % BngDepth = 0
      BY DEF WellLinked
    <2> HIDE DEF n
    <2>2. Len(s) = BngDepth * n
      <3>1. \A d \in Nat \ {0}, x, q, r \in Int : x = d * q + r /\ r = 0 => x = d * q
        OBVIOUS
      <3>2. Len(s) \in Int /\ Len(s) % BngDepth \in Int /\ n \in Int
        BY <1>1, <2>1, <2>5
      <3> QED BY <1>1, <2>1, <2>5, <3>1, <3>2, ZenonT(60)
    <2>3. n > 0
      <3>1. \A d \in Nat \ {0}, x \in Int : x <= 0 => d * x <= 0
        OBVIOUS
      <3>2. BngDepth * n >= BngDepth
        BY <2>2, <2>5
      <3> QED BY <1>1, <2>1, <3>1, <3>2
    <2> QED BY <1>1, <2>1, <2>2, <2>3
  <1>3. Linked(g, s)
    BY <1>1, <1>2, LinkedExists
  <1>4. Unlinked(s) = g[n]
    BY DEF Unlinked, Linked
  <1> HIDE DEF g
  <1>5. \A k \in 0 .. n : g[k] = IF k = 0 THEN <<>>
                                ELSE IF k = 1 \/ InUse(Part(s, k)) THEN g[k - 1] \o Part(s, k)
                                ELSE g[k - 1]
    BY <1>3 DEF Linked
  <1> HIDE DEF n
  <1>6. 0 \in T
    <2>1. g[0] = <<>>
      BY <1>2, <1>5
    <2>2. 0 * BngDepth = 0 /\ 0 % BngDepth = 0
      BY <1>1
    <2>3. 0 \in 0 .. n /\ <<>> \in Seq(Slots) /\ Len(<<>>) = 0 /\ DOMAIN <<>> = {}
      BY <1>2
    <2>4. Leaves(<<>>, s, 0)
      BY <1>1, <2>2, <2>3 DEF Leaves
    <2> QED BY <2>1, <2>3, <2>4
  <1>7. ASSUME NEW k \in 0 .. n - 1, k \in T PROVE k + 1 \in T
    <2>1. k + 1 \in 0 .. n /\ k + 1 # 0 /\ (k + 1) - 1 = k /\ (k + 1 = 1 <=> k = 0)
      BY <1>2
    <2>2. g[k + 1] = IF k = 0 \/ InUse(Part(s, k + 1)) THEN g[k] \o Part(s, k + 1) ELSE g[k]
      BY <1>5, <2>1
    <2>3. Leaves(g[k], s, k)
      BY <1>7
    <2>4. Leaves(g[k + 1], s, k + 1)
      BY <1>2, <2>2, <2>3, LeavesNext
    <2> QED BY <2>1, <2>4
  <1> HIDE DEF T
  <1>8. 0 .. n \subseteq T
    BY <1>2, <1>6, <1>7, ReachesAll
  <1>9. Leaves(g[n], s, n)
    <2>1. n \in 0 .. n
      BY <1>2
    <2> QED BY <1>8, <2>1 DEF T
  <1>10. Leaves(Unlinked(s), s, n) /\ n # 0 /\ 1 .. n * BngDepth = DOMAIN s
    BY <1>1, <1>2, <1>4, <1>9
  <1> HIDE DEF WellLinked
  <1> QED
    <2>1. WellLinked(Unlinked(s))
      BY <1>10 DEF Leaves, WellLinked
    <2> QED BY <1>10, <2>1 DEF Leaves

\* Where a key and a line belong.
LEMMA KeyPlaces ==
  ASSUME NEW key \in Keys
  PROVE  Bucket(key) \in Buckets /\ WorkerFromMask(key[2]) \in BngThreads
  <1>1. key[1] \in Nat /\ key[2] \in Nat
    BY BngAssumption DEF Keys, Range
  <1> DEFINE x == key[1] + key[2]
             y == key[2]
  <1>2. x \in Int /\ y \in Int
    BY <1>1
  <1> HIDE DEF x, y
  <1>3. x % BngBuckets \in 0 .. BngBuckets - 1 /\ y % BngWorkers \in 0 .. BngWorkers - 1
    BY <1>2, BngAssumption, Division
  <1> QED BY <1>3 DEF Bucket, WorkerFromMask, Buckets, BngThreads, x, y

LEMMA LineWorker ==
  /\ \A line \in Lines \cup BngUnknown : WorkerTable(line) \in BngThreads
  /\ \A line \in Lines : line \in LinesOf(WorkerTable(line))
  /\ \A w \in BngThreads : \A line \in LinesOf(w) : line \in Lines /\ WorkerFromMask(BngTunnels[line]) = w
  <1>1. ASSUME NEW line \in Lines
        PROVE  WorkerTable(line) \in BngThreads /\ line \in LinesOf(WorkerTable(line))
    <2> DEFINE w == BngTunnels[line] % BngWorkers
    <2>1. BngTunnels[line] \in Int
      BY BngAssumption DEF Lines
    <2>2. w \in BngThreads /\ line \in LinesOf(w)
      BY <2>1, BngAssumption DEF BngThreads, LinesOf
    <2>3. \E v \in BngThreads : line \in LinesOf(v)
      BY <2>2
    <2> QED BY <2>3 DEF WorkerTable
  <1>2. ASSUME NEW line \in BngUnknown, line \notin Lines PROVE WorkerTable(line) \in BngThreads
    BY <1>2, BngAssumption DEF WorkerTable, BngThreads
  <1>3. \A w \in BngThreads : \A line \in LinesOf(w) : line \in Lines /\ WorkerFromMask(BngTunnels[line]) = w
    BY DEF LinesOf, WorkerFromMask
  <1> QED BY <1>1, <1>2, <1>3

\* What an added entry does to its bucket.
EntryAdded(t, u, e) ==
  /\ WellLinked(u)
  /\ \E i \in DOMAIN u : u[i] = e
  /\ \A i \in DOMAIN u :
       u[i] = e \/ u[i] = Vacant \/ (i \in DOMAIN t /\ u[i] = t[i] /\ u[i].key # e.key)
  /\ \A i \in DOMAIN t : t[i] # Vacant /\ t[i].key # e.key => i \in DOMAIN u /\ u[i] = t[i]

LEMMA AddInSlot ==
  ASSUME NEW t, WellLinked(t), NEW e \in CpeEntries, NEW i \in DOMAIN t,
         t[i] = Vacant \/ t[i].key = e.key,
         t[i] = Vacant => \A j \in DOMAIN t : t[j] # Vacant => t[j].key # e.key
  PROVE  EntryAdded(t, [t EXCEPT ![i] = e], e)
  <1> DEFINE u == [t EXCEPT ![i] = e]
  <1>1. t \in Seq(Slots) /\ DOMAIN t = 1 .. Len(t) /\ e \in Slots /\ e # Vacant
    BY EntryNotVacant DEF WellLinked, Slots
  <1>2. u \in Seq(Slots) /\ Len(u) = Len(t)
    BY <1>1, ExceptSeq
  <1>3. DOMAIN u = DOMAIN t /\ \A j \in DOMAIN t : u[j] = IF j = i THEN e ELSE t[j]
    OBVIOUS
  <1> HIDE DEF u
  <1>4. \A j \in DOMAIN t : j # i /\ t[j] # Vacant => t[j].key # e.key
    BY DEF WellLinked
  <1>5. WellLinked(u)
    <2>1. \A a, b \in DOMAIN u : u[a] # Vacant /\ u[b] # Vacant /\ u[a].key = u[b].key => a = b
      BY <1>3, <1>4 DEF WellLinked
    <2> QED BY <1>2, <2>1 DEF WellLinked
  <1>6. \A j \in DOMAIN u : u[j] = e \/ u[j] = Vacant \/ (j \in DOMAIN t /\ u[j] = t[j] /\ u[j].key # e.key)
    BY <1>3, <1>4
  <1>7. \A j \in DOMAIN t : t[j] # Vacant /\ t[j].key # e.key => j \in DOMAIN u /\ u[j] = t[j]
    BY <1>3
  <1> QED BY <1>3, <1>5, <1>6, <1>7 DEF EntryAdded, u

LEMMA AddInExtension ==
  ASSUME NEW t, WellLinked(t), NEW e \in CpeEntries,
         \A j \in DOMAIN t : t[j] # Vacant => t[j].key # e.key
  PROVE  EntryAdded(t, t \o [k \in 1 .. BngDepth |-> IF k = 1 THEN e ELSE Vacant], e)
  <1> DEFINE D == BngDepth
             p == [k \in 1 .. D |-> IF k = 1 THEN e ELSE Vacant]
             u == t \o p
  <1>1. t \in Seq(Slots) /\ DOMAIN t = 1 .. Len(t) /\ e \in Slots /\ Len(t) \in Nat
    BY DEF WellLinked, Slots
  <1>2. D \in Nat \ {0}
    BY BngAssumption
  <1>3. p \in Seq(Slots) /\ Len(p) = D /\ p[1] = e /\ \A k \in 2 .. D : p[k] = Vacant
    <2>1. \A k \in 1 .. D : (IF k = 1 THEN e ELSE Vacant) \in Slots
      BY <1>1 DEF Slots
    <2> HIDE DEF D
    <2> QED BY <1>2, <2>1
  <1> HIDE DEF p, D
  <1>4. /\ u \in Seq(Slots) /\ Len(u) = Len(t) + Len(p)
        /\ \A i \in 1 .. Len(t) + Len(p) : u[i] = IF i <= Len(t) THEN t[i] ELSE p[i - Len(t)]
    BY ZenonT(60), <1>1, <1>3, ConcatProperties
  <1> HIDE DEF u
  <1>5. DOMAIN u = 1 .. Len(t) + D
    BY <1>3, <1>4
  <1>6. Len(u) >= D /\ Len(u) % D = 0
    <2>1. Len(t) % D = 0 /\ Len(t) >= D /\ Len(t) \in Int
      BY <1>1 DEF WellLinked, D
    <2>2. (Len(t) + D) % D = 0
      BY <1>2, <2>1, MultiplePlus, Zenon
    <2> QED BY <1>1, <1>2, <1>3, <1>4, <2>1, <2>2
  <1>7. u[Len(t) + 1] = e /\ Len(t) + 1 \in DOMAIN u
    BY <1>1, <1>2, <1>3, <1>4, <1>5
  <1>8. \A i \in DOMAIN t : i \in DOMAIN u /\ u[i] = t[i]
    BY <1>1, <1>2, <1>3, <1>4, <1>5
  <1>9. \A i \in DOMAIN u : i \in DOMAIN t \/ i = Len(t) + 1 \/ u[i] = Vacant
    <2> TAKE i \in DOMAIN u
    <2>1. CASE i > Len(t) + 1
      <3>1. i - Len(t) \in 2 .. D /\ i \in 1 .. Len(t) + Len(p) /\ ~ (i <= Len(t))
        BY <1>1, <1>2, <1>3, <1>5, <2>1
      <3> QED BY <1>3, <1>4, <3>1
    <2>2. CASE ~ (i > Len(t) + 1)
      BY <1>1, <1>5, <2>2
    <2> QED BY <2>1, <2>2
  <1>10. WellLinked(u)
    <2>1. \A a, b \in DOMAIN u : u[a] # Vacant /\ u[b] # Vacant /\ u[a].key = u[b].key => a = b
      BY <1>7, <1>8, <1>9 DEF WellLinked
    <2> QED BY <1>4, <1>6, <2>1 DEF WellLinked, D
  <1>11. \A j \in DOMAIN u : u[j] = e \/ u[j] = Vacant \/ (j \in DOMAIN t /\ u[j] = t[j] /\ u[j].key # e.key)
    BY <1>7, <1>8, <1>9
  <1> QED BY <1>7, <1>8, <1>10, <1>11 DEF EntryAdded, u, p, D

LEMMA AddProperties ==
  ASSUME NEW t \in [Buckets -> Seq(Slots)], \A b \in Buckets : WellLinked(t[b]), NEW e \in CpeEntries
  PROVE  /\ AddCpe(t, e) \in [Buckets -> Seq(Slots)]
         /\ EntryAdded(t[Bucket(e.key)], AddCpe(t, e)[Bucket(e.key)], e)
         /\ \A b \in Buckets \ {Bucket(e.key)} : AddCpe(t, e)[b] = t[b]
  <1> DEFINE B == Bucket(e.key)
             slots == t[B]
             of == SlotsOf(t, e.key)
             free == FreeSlots(slots)
             at == IF of # {} THEN of ELSE free
             i == CHOOSE j \in at : \A h \in at : j <= h
             u == IF at # {} THEN [slots EXCEPT ![i] = e]
                  ELSE slots \o [k \in 1 .. BngDepth |-> IF k = 1 THEN e ELSE Vacant]
  <1>1. e.key \in Keys /\ B \in Buckets
    BY KeyPlaces DEF CpeEntries
  <1>2. WellLinked(slots) /\ DOMAIN slots = 1 .. Len(slots) /\ Len(slots) \in Nat
    BY <1>1 DEF WellLinked
  <1>3. /\ of = {j \in DOMAIN slots : slots[j] # Vacant /\ slots[j].key = e.key}
        /\ free = {j \in DOMAIN slots : slots[j] = Vacant}
    BY DEF SlotsOf, FreeSlots
  <1>4. AddCpe(t, e) = [t EXCEPT ![B] = u]
    BY DEF AddCpe
  <1> HIDE DEF of, free, slots, B
  <1>5. at # {} => i \in at
    <2>1. at \in SUBSET Nat
      BY <1>2, <1>3
    <2> HIDE DEF at
    <2> QED BY <2>1, LeastNatural
  <1> HIDE DEF i
  <1>6. EntryAdded(slots, u, e)
    <2>1. CASE at # {}
      <3>1. i \in DOMAIN slots /\ (slots[i] = Vacant \/ slots[i].key = e.key)
        BY <1>3, <1>5, <2>1
      <3>2. slots[i] = Vacant => \A j \in DOMAIN slots : slots[j] # Vacant => slots[j].key # e.key
        BY <1>3, <1>5, <2>1
      <3>3. u = [slots EXCEPT ![i] = e]
        BY <2>1
      <3> HIDE DEF u, at
      <3> QED BY <1>2, <3>1, <3>2, <3>3, AddInSlot
    <2>2. CASE at = {}
      <3>1. \A j \in DOMAIN slots : slots[j] # Vacant => slots[j].key # e.key
        BY <1>3, <2>2
      <3>2. u = slots \o [k \in 1 .. BngDepth |-> IF k = 1 THEN e ELSE Vacant]
        BY <2>2
      <3> HIDE DEF u, at
      <3> QED BY <1>2, <3>1, <3>2, AddInExtension
    <2> QED BY <2>1, <2>2
  <1> HIDE DEF u
  <1>7. u \in Seq(Slots)
    BY <1>6 DEF EntryAdded, WellLinked
  <1> QED BY <1>1, <1>4, <1>6, <1>7 DEF slots, B

LEMMA FoundIs ==
  ASSUME NEW t, NEW key
  PROVE  /\ FindCpe(t, key) # {} <=>
              \E i \in DOMAIN t[Bucket(key)] : t[Bucket(key)][i] # Vacant /\ t[Bucket(key)][i].key = key
         /\ \A e \in FindCpe(t, key) :
              \E i \in DOMAIN t[Bucket(key)] : t[Bucket(key)][i] # Vacant /\ t[Bucket(key)][i] = e /\ e.key = key
  BY DEF FindCpe, SlotsOf

LEMMA UntilBounds ==
  ASSUME BngTypes, NEW w \in BngThreads, NEW b \in Buckets
  PROVE  /\ bng_index[w] \in Buckets /\ (b - bng_index[w]) % BngBuckets \in Buckets
         /\ Until(w, b) \in 0 .. BngBuckets
  <1> DEFINE x == b - bng_index[w]
  <1>1. BngBuckets \in Nat \ {0} /\ bng_index[w] \in Buckets /\ x \in Int
    BY BngAssumption DEF BngTypes, Buckets
  <1> HIDE DEF x
  <1>2. x % BngBuckets \in 0 .. BngBuckets - 1
    BY <1>1, Division
  <1> QED BY <1>1, <1>2 DEF Until, x, Buckets

LEMMA BngStart == BngInit => BngInv
  <1> SUFFICES ASSUME BngInit PROVE BngInv
    OBVIOUS
  <1> DEFINE s == [i \in 1 .. BngDepth |-> Vacant]
  <1>1. BngDepth \in Nat \ {0} /\ BngBuckets \in Nat \ {0}
    BY BngAssumption
  <1>2. s \in Seq(Slots) /\ Len(s) = BngDepth /\ DOMAIN s = 1 .. BngDepth
    BY <1>1 DEF Slots
  <1>3. \A i \in DOMAIN s : s[i] = Vacant
    OBVIOUS
  <1> HIDE DEF s
  <1>4. BngDepth % BngDepth = 0
    <2>1. BngDepth = BngDepth * 1 + 0 /\ 0 \in 0 .. BngDepth - 1 /\ BngDepth \in Int
      BY <1>1
    <2> QED BY <1>1, <2>1, RemainderUnique
  <1>5. WellLinked(s)
    BY <1>1, <1>2, <1>3, <1>4 DEF WellLinked
  <1>6. bng_cpe = [w \in BngThreads |-> [b \in Buckets |-> s]] /\ bng_known = <<>>
    BY DEF BngInit, Buckets, s
  <1>7. \A w \in BngThreads, b \in Buckets : bng_cpe[w][b] = s
    BY <1>6
  <1>8. DOMAIN bng_known = {}
    BY <1>6
  <1>9. BngTypes
    <2>1. bng_cpe \in [BngThreads -> [Buckets -> Seq(Slots)]]
      BY <1>2, <1>6
    <2>2. bng_index \in [BngThreads -> Buckets] /\ bng_arp \in [BngThreads -> Seq(ArpPackets)]
      BY <1>1 DEF BngInit, Buckets
    <2>3. bng_learn \in BngLearns /\ bng_now \in Nat \ {0} /\ bng_ran \subseteq BngThreads
      BY DEF BngInit
    <2> QED BY <1>5, <1>7, <1>8, <2>1, <2>2, <2>3 DEF BngTypes
  <1>10. EntriesKnown
    BY <1>3, <1>7 DEF EntriesKnown
  <1>11. FreshAtVisit
    BY <1>2, <1>3, <1>7 DEF FreshAtVisit
  <1> QED BY <1>8, <1>9, <1>10, <1>11 DEF BngInv, KnownEntered

\* An ARP packet that only waits changes none of it.
LEMMA ArpWaits ==
  ASSUME BngInv, bng_arp' \in [BngThreads -> Seq(ArpPackets)],
         UNCHANGED <<bng_learn, bng_cpe, bng_index, bng_now, bng_ran, bng_known>>
  PROVE  BngInv'
  <1>1. BngTypes'
    BY DEF BngInv, BngTypes, WellLinked
  <1>2. EntriesKnown'
    BY DEF BngInv, EntriesKnown, Placed
  <1>4. KnownEntered'
    <2>1. \A key : Downstream(key)' = Downstream(key)
      BY DEF Downstream
    <2> QED BY <2>1 DEF BngInv, KnownEntered
  <1>3. FreshAtVisit'
    BY DEF BngInv, FreshAtVisit, Until
  <1> QED BY <1>1, <1>2, <1>3, <1>4 DEF BngInv

LEMMA LearnKeeps ==
  ASSUME BngInv, NEW w \in BngThreads, NEW line \in LinesOf(w), NEW ip \in BngIps, NEW mac \in Macs,
         Learn(w, line, ip, mac), bng_arp' \in [BngThreads -> Seq(ArpPackets)],
         UNCHANGED <<bng_learn, bng_index, bng_now, bng_ran>>
  PROVE  BngInv'
  <1> DEFINE key == <<ip, BngTunnels[line]>>
             e == [key |-> key, line |-> line, mac |-> mac, tsc |-> bng_now + BngTimeout]
             B == Bucket(key)
  <1>1. CASE ~ RoomFor(bng_cpe[w], key)
    <2>1. UNCHANGED <<bng_cpe, bng_known>>
      BY <1>1 DEF Learn
    <2> QED BY <2>1, ArpWaits
  <1>2. CASE RoomFor(bng_cpe[w], key)
    <2>1. /\ bng_cpe' = [bng_cpe EXCEPT ![w] = AddCpe(bng_cpe[w], e)]
          /\ bng_known' = [k \in DOMAIN bng_known \cup {key} |-> IF k = key THEN e ELSE bng_known[k]]
      BY <1>2 DEF Learn
    <2>2. BngTypes
      BY DEF BngInv
    <2>3. /\ key \in Keys /\ e \in CpeEntries /\ e.key = key /\ e # Vacant
          /\ e.tsc = bng_now + BngTimeout /\ bng_now \in Nat /\ BngTimeout \in Nat
      <3>1. line \in Lines
        BY LineWorker
      <3>2. BngTunnels[line] \in Range(BngTunnels)
        BY <3>1 DEF Lines, Range
      <3>3. key \in Keys
        BY <3>2 DEF Keys
      <3>4. bng_now \in Nat /\ BngTimeout \in Nat /\ bng_now + BngTimeout \in Nat
        BY <2>2, BngAssumption DEF BngTypes
      <3>5. e \in CpeEntries
        BY <3>1, <3>3, <3>4 DEF CpeEntries
      <3> QED BY <3>3, <3>4, <3>5, EntryNotVacant
    <2>4. WorkerFromMask(key[2]) = w /\ B \in Buckets
      BY <2>3, KeyPlaces, LineWorker
    <2> DEFINE t == bng_cpe[w]
               u == AddCpe(t, e)
    <2>5. t \in [Buckets -> Seq(Slots)] /\ \A b \in Buckets : WellLinked(t[b])
      BY <2>2 DEF BngTypes
    <2> HIDE DEF t, e
    <2>6. /\ u \in [Buckets -> Seq(Slots)] /\ EntryAdded(t[B], u[B], e)
          /\ \A b \in Buckets \ {B} : u[b] = t[b]
      BY <2>3, <2>5, AddProperties
    <2> HIDE DEF u, key, B
    <2>7. /\ bng_cpe' \in [BngThreads -> [Buckets -> Seq(Slots)]]
          /\ bng_cpe'[w] = u /\ \A v \in BngThreads \ {w} : bng_cpe'[v] = bng_cpe[v]
      BY <2>1, <2>2, <2>6 DEF BngTypes, t, u
    <2>8. /\ DOMAIN bng_known' = DOMAIN bng_known \cup {key} /\ bng_known'[key] = e
          /\ \A k \in DOMAIN bng_known \ {key} : bng_known'[k] = bng_known[k]
      BY <2>1
    <2>9. \A v \in BngThreads, b \in Buckets : v # w \/ b # B => bng_cpe'[v][b] = bng_cpe[v][b]
      BY <2>6, <2>7 DEF t
    <2>10. bng_cpe'[w][B] = u[B] /\ t[B] = bng_cpe[w][B]
      BY <2>7 DEF t
    <2>11. BngTypes'
      <3>1. \A v \in BngThreads, b \in Buckets : WellLinked(bng_cpe'[v][b])
        BY ZenonT(60), <2>2, <2>6, <2>9, <2>10 DEF EntryAdded, BngTypes
      <3>2. DOMAIN bng_known' \subseteq Keys
        BY <2>2, <2>3, <2>8 DEF BngTypes
      <3>3. \A k \in DOMAIN bng_known' : bng_known'[k] \in CpeEntries /\ bng_known'[k].key = k
        BY <2>2, <2>3, <2>8 DEF BngTypes
      <3> QED BY <2>2, <2>7, <3>1, <3>2, <3>3 DEF BngTypes
    <2> DEFINE Stays(v, b, x) == /\ b = Bucket(x.key) /\ v = WorkerFromMask(x.key[2])
                                 /\ x.key \in DOMAIN bng_known' /\ x = bng_known'[x.key]
    <2>12. \A v, b, x : Placed(v, b, x) /\ x.key # key => Stays(v, b, x)
      BY <2>8 DEF Placed
    <2>13. EntriesKnown'
      <3> SUFFICES ASSUME NEW v \in BngThreads, NEW b \in Buckets, NEW i \in DOMAIN bng_cpe'[v][b],
                          bng_cpe'[v][b][i] # Vacant
                   PROVE  Stays(v, b, bng_cpe'[v][b][i])
        BY DEF EntriesKnown, Placed
      <3>1. CASE v # w \/ b # B
        <4>1. bng_cpe'[v][b] = bng_cpe[v][b]
          BY <2>9, <3>1
        <4>2. Placed(v, b, bng_cpe[v][b][i])
          BY <4>1 DEF BngInv, EntriesKnown
        <4>3. bng_cpe[v][b][i].key # key
          BY <2>4, <3>1, <4>2 DEF Placed, B
        <4> QED BY <2>12, <4>1, <4>2, <4>3
      <3>2. CASE v = w /\ b = B
        <4>1. CASE u[B][i] = e
          BY <2>3, <2>4, <2>8, <2>10, <3>2, <4>1 DEF B
        <4>2. CASE u[B][i] # e
          <5>1. i \in DOMAIN t[B] /\ u[B][i] = t[B][i] /\ u[B][i].key # key
            BY <2>3, <2>6, <2>10, <3>2, <4>2 DEF EntryAdded
          <5>2. Placed(w, B, t[B][i])
            BY <2>4, <2>10, <3>2, <5>1 DEF BngInv, EntriesKnown
          <5> QED BY <2>4, <2>10, <2>12, <3>2, <5>1, <5>2
        <4> QED BY <4>1, <4>2
      <3> QED BY <3>1, <3>2
    <2>14. KnownEntered'
      <3> SUFFICES ASSUME NEW k \in DOMAIN bng_known', bng_known'[k].tsc >= bng_now
                   PROVE  Downstream(k)' # {}
        BY DEF KnownEntered
      <3> DEFINE v == WorkerFromMask(k[2])
                 b == Bucket(k)
      <3>1. k \in Keys /\ v \in BngThreads /\ b \in Buckets
        <4>1. k \in Keys
          BY <2>2, <2>3, <2>8 DEF BngTypes
        <4> QED BY <4>1, KeyPlaces
      <3>2. SUFFICES \E i \in DOMAIN bng_cpe'[v][b] : bng_cpe'[v][b][i] # Vacant /\ bng_cpe'[v][b][i].key = k
        BY <3>2 DEF Downstream, FindCpe, SlotsOf
      <3>3. CASE k = key
        <4>1. v = w /\ b = B
          BY <2>4, <3>3 DEF B
        <4> QED BY <2>3, <2>6, <2>10, <3>3, <4>1 DEF EntryAdded
      <3>4. CASE k # key
        <4>1. Downstream(k) # {}
          BY <2>8, <3>4 DEF BngInv, KnownEntered
        <4>2. PICK i \in DOMAIN bng_cpe[v][b] : bng_cpe[v][b][i] # Vacant /\ bng_cpe[v][b][i].key = k
          BY <4>1, FoundIs DEF Downstream
        <4>3. CASE v # w \/ b # B
          BY <2>9, <3>1, <4>2, <4>3
        <4>4. CASE v = w /\ b = B
          BY <2>3, <2>6, <2>10, <3>4, <4>2, <4>4 DEF EntryAdded
        <4> QED BY <4>3, <4>4
      <3> QED BY <3>3, <3>4
    <2>15. FreshAtVisit'
      <3> SUFFICES ASSUME NEW v \in BngThreads, NEW b \in Buckets, NEW i \in 1 .. BngDepth,
                          bng_cpe'[v][b][i] # Vacant
                   PROVE  bng_now + Until(v, b) <= bng_cpe'[v][b][i].tsc + BngBuckets
        BY DEF FreshAtVisit, Until
      <3>1. Until(v, b) \in 0 .. BngBuckets /\ BngBuckets \in Nat
        BY <2>2, UntilBounds, BngAssumption
      <3>2. CASE v # w \/ b # B
        BY <2>9, <3>2 DEF BngInv, FreshAtVisit
      <3>3. CASE v = w /\ b = B
        <4>1. i \in DOMAIN u[B]
          <5>1. WellLinked(u[B])
            BY <2>6 DEF EntryAdded
          <5> QED BY <5>1, BngAssumption DEF WellLinked
        <4>2. CASE u[B][i] = e
          BY <2>3, <2>10, <3>1, <3>3, <4>2
        <4>3. CASE u[B][i] # e
          <5>1. i \in DOMAIN t[B] /\ u[B][i] = t[B][i]
            BY <2>6, <2>10, <3>3, <4>1, <4>3 DEF EntryAdded
          <5> QED BY <2>10, <3>3, <5>1 DEF BngInv, FreshAtVisit
        <4> QED BY <4>2, <4>3
      <3> QED BY <3>2, <3>3
    <2> QED BY <2>11, <2>13, <2>14, <2>15 DEF BngInv
  <1> QED BY <1>1, <1>2

LEMMA StepUpstream ==
  ASSUME BngInv, NEW line \in Lines \cup BngUnknown, NEW ip \in BngIps, NEW mac \in BngMacs,
         NEW arp \in BOOLEAN, BngUpstream(line, ip, mac, arp)
  PROVE  BngInv'
  <1> DEFINE w == WorkerTable(line)
             p == [line |-> line, ip |-> ip, mac |-> mac]
             waits == arp /\ bng_learn = "control"
             learns == line \in LinesOf(w) /\ (bng_learn = "always" \/ (arp /\ bng_learn = "fast path"))
  <1>1. w \in BngThreads /\ p \in ArpPackets /\ mac \in Macs
    BY LineWorker DEF ArpPackets, Macs
  <1>2. UNCHANGED <<bng_learn, bng_index, bng_now, bng_ran>>
    BY DEF BngUpstream
  <1>3. bng_arp \in [BngThreads -> Seq(ArpPackets)]
    BY DEF BngInv, BngTypes
  <1>4. CASE waits
    <2>1. bng_arp' = [bng_arp EXCEPT ![w] = Append(@, p)] /\ UNCHANGED <<bng_cpe, bng_known>>
      BY <1>4 DEF BngUpstream
    <2>2. Append(bng_arp[w], p) \in Seq(ArpPackets)
      BY <1>1, <1>3, AppendProperties
    <2>3. bng_arp' \in [BngThreads -> Seq(ArpPackets)]
      BY <1>3, <2>1, <2>2
    <2> QED BY <1>2, <2>1, <2>3, ArpWaits
  <1>5. CASE ~ waits /\ learns
    <2>1. Learn(w, line, ip, mac) /\ UNCHANGED bng_arp
      BY <1>5 DEF BngUpstream
    <2>2. w \in BngThreads /\ line \in LinesOf(w) /\ bng_arp' \in [BngThreads -> Seq(ArpPackets)]
      BY <1>1, <1>3, <1>5, <2>1
    <2> HIDE DEF w
    <2> QED BY <1>1, <1>2, <2>1, <2>2, LearnKeeps
  <1>6. CASE ~ waits /\ ~ learns
    <2>1. UNCHANGED <<bng_cpe, bng_known, bng_arp>>
      BY <1>6 DEF BngUpstream
    <2> QED BY <1>2, <1>3, <2>1, ArpWaits
  <1> QED BY <1>4, <1>5, <1>6

LEMMA StepArpUpdate ==
  ASSUME BngInv, NEW w \in BngThreads, BngArpUpdate(w)
  PROVE  BngInv'
  <1> DEFINE p == Head(bng_arp[w])
  <1>1. UNCHANGED <<bng_learn, bng_index, bng_now, bng_ran>>
    BY DEF BngArpUpdate
  <1>2. bng_arp \in [BngThreads -> Seq(ArpPackets)] /\ bng_arp[w] # <<>>
    BY DEF BngInv, BngTypes, BngArpUpdate
  <1>3. p \in ArpPackets /\ Tail(bng_arp[w]) \in Seq(ArpPackets)
    BY <1>2, HeadTailProperties
  <1>4. bng_arp' \in [BngThreads -> Seq(ArpPackets)]
    BY <1>2, <1>3 DEF BngArpUpdate
  <1>5. CASE p.line \in LinesOf(w)
    <2>1. Learn(w, p.line, p.ip, p.mac)
      BY <1>5 DEF BngArpUpdate
    <2>2. p.ip \in BngIps /\ p.mac \in Macs
      BY <1>3 DEF ArpPackets, Macs
    <2> HIDE DEF p
    <2> QED BY <1>1, <1>4, <1>5, <2>1, <2>2, LearnKeeps
  <1>6. CASE p.line \notin LinesOf(w)
    <2>1. UNCHANGED <<bng_cpe, bng_known>>
      BY <1>6 DEF BngArpUpdate
    <2> QED BY <1>1, <1>4, <2>1, ArpWaits
  <1> QED BY <1>5, <1>6

LEMMA StepArpMsg ==
  ASSUME BngInv, NEW line \in Lines, NEW ip \in BngIps, NEW mac \in BngMacs, BngArpMsg(line, ip, mac)
  PROVE  BngInv'
  <1> DEFINE w == WorkerTable(line)
  <1>1. w \in BngThreads /\ line \in LinesOf(w) /\ -mac \in Macs
    BY LineWorker DEF Macs
  <1>2. /\ Learn(w, line, ip, -mac) /\ bng_arp' \in [BngThreads -> Seq(ArpPackets)]
        /\ UNCHANGED <<bng_learn, bng_index, bng_now, bng_ran>>
    BY DEF BngArpMsg, BngInv, BngTypes
  <1> HIDE DEF w
  <1> QED BY <1>1, <1>2, LearnKeeps

\* The first BngDepth slots are always among those that are looked at.
LEMMA FrontExamined ==
  ASSUME NEW s, WellLinked(s), NEW i \in 1 .. BngDepth, s[i] # Vacant
  PROVE  i \in Examined(s)
  <1> DEFINE T == {j \in 1 .. i : s[j] # Vacant}
  <1>1. BngDepth \in Nat /\ i \in Nat \ {0} /\ i <= BngDepth
    BY BngAssumption
  <1>2. IsFiniteSet(1 .. i) /\ Cardinality(1 .. i) = i
    BY <1>1, FS_Interval
  <1>3. IsFiniteSet(T) /\ Cardinality(T) <= Cardinality(1 .. i)
    <2>1. T \in SUBSET (1 .. i)
      OBVIOUS
    <2> QED BY <1>2, <2>1, FS_Subset
  <1>4. Cardinality(T) <= BngDepth
    <2>1. Cardinality(T) \in Nat
      BY <1>3, FS_CardinalityType
    <2> QED BY <1>1, <1>2, <1>3, <2>1
  <1>5. i \in DOMAIN s
    BY <1>1 DEF WellLinked
  <1> QED BY <1>4, <1>5 DEF Examined

\* What a step of the period function leaves of a bucket.
LEMMA CleanedProperties ==
  ASSUME NEW s, WellLinked(s)
  PROVE  LET cleaned == [i \in DOMAIN s |-> IF i \in Examined(s) /\ Expired(s[i]) THEN Vacant ELSE s[i]]
             t == Unlinked(cleaned)
         IN /\ WellLinked(t)
            /\ \A i \in 1 .. BngDepth : t[i] # Vacant => t[i] = s[i] /\ ~ Expired(s[i])
            /\ \A i \in DOMAIN t : t[i] # Vacant => \E j \in DOMAIN s : s[j] = t[i]
            /\ \A j \in DOMAIN s : s[j] # Vacant /\ ~ Expired(s[j]) => \E i \in DOMAIN t : t[i] = s[j]
  <1> DEFINE c == [i \in DOMAIN s |-> IF i \in Examined(s) /\ Expired(s[i]) THEN Vacant ELSE s[i]]
             t == Unlinked(c)
  <1>1. s \in Seq(Slots) /\ DOMAIN s = 1 .. Len(s) /\ Len(s) \in Nat
    BY DEF WellLinked
  <1>2. \A i \in DOMAIN s : c[i] \in Slots /\ c[i] = (IF i \in Examined(s) /\ Expired(s[i]) THEN Vacant ELSE s[i])
    BY <1>1 DEF Slots
  <1>3. c \in Seq(Slots) /\ Len(c) = Len(s) /\ DOMAIN c = DOMAIN s
    BY <1>1, <1>2
  <1> HIDE DEF c
  <1>4. WellLinked(c)
    BY <1>2, <1>3 DEF WellLinked
  <1>5. /\ WellLinked(t) /\ \A i \in 1 .. BngDepth : t[i] = c[i]
        /\ \A i \in DOMAIN t : t[i] # Vacant => \E j \in DOMAIN c : c[j] = t[i]
        /\ \A j \in DOMAIN c : c[j] # Vacant => \E i \in DOMAIN t : t[i] = c[j]
    BY <1>4, UnlinkedProperties
  <1> HIDE DEF t
  <1>6. ASSUME NEW i \in 1 .. BngDepth, t[i] # Vacant PROVE t[i] = s[i] /\ ~ Expired(s[i])
    <2>1. i \in DOMAIN s
      BY <1>1, BngAssumption DEF WellLinked
    <2>2. c[i] # Vacant
      BY <1>5, <1>6
    <2>3. c[i] = s[i]
      BY <1>2, <2>1, <2>2
    <2> QED BY <1>2, <1>5, <2>1, <2>2, <2>3, FrontExamined
  <1>7. ASSUME NEW i \in DOMAIN t, t[i] # Vacant PROVE \E j \in DOMAIN s : s[j] = t[i]
    BY <1>2, <1>3, <1>5, <1>7
  <1>8. ASSUME NEW j \in DOMAIN s, s[j] # Vacant, ~ Expired(s[j]) PROVE \E i \in DOMAIN t : t[i] = s[j]
    <2>1. c[j] = s[j]
      BY <1>2, <1>8
    <2> QED BY <1>3, <1>5, <1>8, <2>1
  <1> QED BY <1>5, <1>6, <1>7, <1>8 DEF t, c

\* The turn of a bucket comes one step nearer, and after its turn is a round away.
LEMMA NextTurn ==
  ASSUME NEW x \in Buckets, NEW b \in Buckets
  PROVE  (b - ((x + 1) % BngBuckets)) % BngBuckets =
           IF b = x THEN BngBuckets - 1 ELSE ((b - x) % BngBuckets) - 1
  <1> DEFINE B == BngBuckets
             d == b - x
             r == d % B
             y == x + 1
  <1>1. B \in Nat \ {0} /\ x \in 0 .. B - 1 /\ b \in 0 .. B - 1 /\ y \in Int /\ d \in Int
    BY BngAssumption DEF Buckets
  <1>2. (b - (y % B)) % B = (b - y) % B
    <2>1. b \in Int /\ y \in Int /\ B \in Nat \ {0}
      BY <1>1
    <2> HIDE DEF y, B
    <2> QED BY <2>1, RemainderMinus
  <1>3. b - y = d - 1
    BY <1>1
  <1> HIDE DEF y, d, B
  <1>4. CASE b = x
    <2>1. d - 1 = B * (-1) + (B - 1) /\ d - 1 \in Int /\ B - 1 \in 0 .. B - 1 /\ -1 \in Int
      BY <1>1, <1>4 DEF d
    <2>2. (d - 1) % B = B - 1
      BY <1>1, <2>1, RemainderUnique
    <2> QED BY <1>2, <1>3, <1>4, <2>2 DEF y, B
  <1>5. CASE b # x
    <2>1. d = B * (d \div B) + r /\ d \div B \in Int /\ r \in 0 .. B - 1
      BY <1>1, Division
    <2> DEFINE q == d \div B
    <2> HIDE DEF r, q
    <2>2. r # 0
      <3>1. q = 0 \/ q >= 1 \/ q <= -1
        BY <2>1 DEF q
      <3>2. d # 0 /\ d < B /\ d > -B
        BY <1>1, <1>5 DEF d
      <3>3. q >= 1 => B * q >= B
        BY <1>1, <2>1 DEF q
      <3>4. q <= -1 => B * q <= -B
        BY <1>1, <2>1 DEF q
      <3>5. B * q \in Int /\ d = B * q + r /\ (q = 0 => B * q = 0)
        BY <1>1, <2>1 DEF q
      <3> QED BY <1>1, <2>1, <3>1, <3>2, <3>3, <3>4, <3>5
    <2>3. d - 1 = B * q + (r - 1) /\ r - 1 \in 0 .. B - 1 /\ d - 1 \in Int /\ q \in Int
      <3>1. B * q \in Int
        BY <1>1, <2>1 DEF q
      <3> QED BY <1>1, <2>1, <2>2, <3>1 DEF q
    <2>4. (d - 1) % B = r - 1
      BY <1>1, <2>3, RemainderUnique
    <2> QED BY <1>2, <1>3, <1>5, <2>4 DEF y, B, r, d
  <1> QED BY <1>4, <1>5

LEMMA StepExpire ==
  ASSUME BngInv, NEW w \in BngThreads, BngExpire(w)
  PROVE  BngInv'
  <1> DEFINE B == bng_index[w]
             s == bng_cpe[w][B]
             c == [i \in DOMAIN s |-> IF i \in Examined(s) /\ Expired(s[i]) THEN Vacant ELSE s[i]]
             t == Unlinked(c)
  <1>1. BngTypes /\ B \in Buckets /\ WellLinked(s) /\ bng_index \in [BngThreads -> Buckets]
    BY DEF BngInv, BngTypes
  <1>2. /\ w \notin bng_ran /\ bng_ran' = bng_ran \cup {w}
        /\ bng_index' = [bng_index EXCEPT ![w] = (bng_index[w] + 1) % BngBuckets]
        /\ UNCHANGED <<bng_learn, bng_arp, bng_now, bng_known>>
    BY DEF BngExpire
  <1>3. bng_cpe' = [bng_cpe EXCEPT ![w][B] = t]
    BY DEF BngExpire
  <1>4. /\ WellLinked(t)
        /\ \A i \in 1 .. BngDepth : t[i] # Vacant => t[i] = s[i] /\ ~ Expired(s[i])
        /\ \A i \in DOMAIN t : t[i] # Vacant => \E j \in DOMAIN s : s[j] = t[i]
        /\ \A j \in DOMAIN s : s[j] # Vacant /\ ~ Expired(s[j]) => \E i \in DOMAIN t : t[i] = s[j]
    <2>1. WellLinked(s)
      BY <1>1
    <2> HIDE DEF s
    <2> QED BY <2>1, CleanedProperties
  <1> HIDE DEF t
  <1>5. /\ bng_cpe' \in [BngThreads -> [Buckets -> Seq(Slots)]] /\ bng_cpe'[w][B] = t
        /\ \A v \in BngThreads, b \in Buckets : v # w \/ b # B => bng_cpe'[v][b] = bng_cpe[v][b]
    <2>1. t \in Seq(Slots)
      BY <1>4 DEF WellLinked
    <2> QED BY <1>1, <1>3, <2>1 DEF BngTypes
  <1>6. bng_index' \in [BngThreads -> Buckets]
    <2> DEFINE x == B + 1
    <2>1. x \in Int /\ BngBuckets \in Nat \ {0}
      BY <1>1, BngAssumption DEF Buckets
    <2> HIDE DEF x
    <2>2. x % BngBuckets \in Buckets
      BY <2>1, Division DEF Buckets
    <2> QED BY <1>1, <1>2, <2>2 DEF x
  <1> HIDE DEF B
  <1>7. BngTypes'
    <2>1. \A v \in BngThreads, b \in Buckets : WellLinked(bng_cpe'[v][b])
      BY ZenonT(60), <1>1, <1>4, <1>5 DEF BngTypes
    <2> QED BY <1>1, <1>2, <1>5, <1>6, <2>1 DEF BngTypes
  <1>8. EntriesKnown'
    <2> SUFFICES ASSUME NEW v \in BngThreads, NEW b \in Buckets, NEW i \in DOMAIN bng_cpe'[v][b],
                        bng_cpe'[v][b][i] # Vacant
                 PROVE  Placed(v, b, bng_cpe'[v][b][i])
      BY <1>2 DEF EntriesKnown, Placed
    <2>1. CASE v = w /\ b = B
      <3>1. PICK j \in DOMAIN s : s[j] = bng_cpe'[v][b][i]
        BY <1>4, <1>5, <2>1
      <3> QED BY <1>1, <2>1, <3>1 DEF BngInv, EntriesKnown
    <2>2. CASE v # w \/ b # B
      BY <1>5, <2>2 DEF BngInv, EntriesKnown
    <2> QED BY <2>1, <2>2
  <1>9. KnownEntered'
    <2> SUFFICES ASSUME NEW k \in DOMAIN bng_known, bng_known[k].tsc >= bng_now
                 PROVE  Downstream(k)' # {}
      BY <1>2 DEF KnownEntered
    <2> DEFINE v == WorkerFromMask(k[2])
               b == Bucket(k)
    <2>1. v \in BngThreads /\ b \in Buckets /\ bng_now \in Nat /\ bng_known[k] \in CpeEntries
      <3>1. k \in Keys
        BY <1>1 DEF BngTypes
      <3> QED BY <1>1, <3>1, KeyPlaces DEF BngTypes
    <2>2. SUFFICES \E i \in DOMAIN bng_cpe'[v][b] : bng_cpe'[v][b][i] # Vacant /\ bng_cpe'[v][b][i].key = k
      BY <2>2 DEF Downstream, FindCpe, SlotsOf
    <2>3. Downstream(k) # {}
      BY DEF BngInv, KnownEntered
    <2>4. PICK i \in DOMAIN bng_cpe[v][b] : bng_cpe[v][b][i] # Vacant /\ bng_cpe[v][b][i].key = k
      BY <2>3, FoundIs DEF Downstream
    <2>5. CASE v = w /\ b = B
      <3>1. s[i] = bng_known[k]
        BY <2>1, <2>4, <2>5 DEF BngInv, EntriesKnown, Placed
      <3>2. ~ Expired(s[i])
        BY <2>1, <3>1 DEF Expired, CpeEntries
      <3> QED BY <1>4, <1>5, <2>4, <2>5, <3>2
    <2>6. CASE v # w \/ b # B
      BY <1>5, <2>1, <2>4, <2>6
    <2> QED BY <2>5, <2>6
  <1>10. FreshAtVisit'
    <2> SUFFICES ASSUME NEW v \in BngThreads, NEW b \in Buckets, NEW i \in 1 .. BngDepth,
                        bng_cpe'[v][b][i] # Vacant
                 PROVE  bng_now + Until(v, b)' <= bng_cpe'[v][b][i].tsc + BngBuckets
      BY <1>2 DEF FreshAtVisit, Until
    <2>1. BngBuckets \in Nat \ {0} /\ bng_now \in Nat
      BY <1>1, BngAssumption DEF BngTypes
    <2>2. CASE v # w
      <3>1. Until(v, b)' = Until(v, b)
        BY <1>1, <1>2, <2>2 DEF Until
      <3> QED BY <1>5, <2>2, <3>1 DEF BngInv, FreshAtVisit
    <2>3. CASE v = w
      <3> DEFINE r == (b - B) % BngBuckets
      <3>1. Until(v, b)' = ((b - ((B + 1) % BngBuckets)) % BngBuckets) + 1
        BY <1>1, <1>2, <2>3 DEF Until, B
      <3>2. Until(v, b) = r + 0 /\ r \in Buckets
        BY <1>1, <1>2, <2>3, UntilBounds DEF Until, B
      <3> HIDE DEF r
      <3>3. Until(v, b)' = (IF b = B THEN BngBuckets - 1 ELSE r - 1) + 1
        BY <1>1, <3>1, NextTurn DEF r
      <3>4. CASE b = B
        <4>1. t[i] = s[i] /\ ~ Expired(s[i]) /\ bng_cpe'[v][b][i] = s[i]
          BY <1>4, <1>5, <2>3, <3>4
        <4>2. s[i] \in CpeEntries
          <5>1. i \in DOMAIN s
            BY <1>1, BngAssumption DEF WellLinked
          <5> QED BY <1>1, <2>3, <3>4, <4>1, <5>1, ElementOfSeq DEF WellLinked, Slots
        <4>3. s[i].tsc \in Nat /\ s[i].tsc >= bng_now
          BY <2>1, <4>1, <4>2 DEF Expired, CpeEntries
        <4> QED BY <2>1, <3>3, <3>4, <4>1, <4>3
      <3>5. CASE b # B
        <4>1. bng_cpe'[v][b] = bng_cpe[v][b]
          BY <1>5, <3>5
        <4>2. Until(v, b)' = Until(v, b)
          BY <2>1, <3>2, <3>3, <3>5 DEF Buckets
        <4> QED BY <4>1, <4>2 DEF BngInv, FreshAtVisit
      <3> QED BY <3>4, <3>5
    <2> QED BY <2>2, <2>3
  <1> QED BY <1>7, <1>8, <1>9, <1>10 DEF BngInv

LEMMA StepBngTick ==
  ASSUME BngInv, BngTick
  PROVE  BngInv'
  <1>1. /\ bng_ran = BngThreads /\ bng_now' = bng_now + 1 /\ bng_ran' = {} /\ bng_now \in Nat \ {0}
        /\ UNCHANGED <<bng_learn, bng_cpe, bng_index, bng_arp, bng_known>> /\ BngTypes
    BY DEF BngTick, BngInv, BngTypes
  <1>2. BngTypes'
    BY <1>1 DEF BngTypes, WellLinked
  <1>3. EntriesKnown'
    BY <1>1 DEF BngInv, EntriesKnown, Placed
  <1>4. KnownEntered'
    <2>1. \A k : Downstream(k)' = Downstream(k)
      BY <1>1 DEF Downstream
    <2>2. \A k \in DOMAIN bng_known : bng_known[k].tsc >= bng_now + 1 => bng_known[k].tsc >= bng_now
      BY <1>1 DEF BngTypes, CpeEntries
    <2> QED BY <1>1, <2>1, <2>2 DEF BngInv, KnownEntered
  <1>5. FreshAtVisit'
    <2> SUFFICES ASSUME NEW v \in BngThreads, NEW b \in Buckets, NEW i \in 1 .. BngDepth,
                        bng_cpe[v][b][i] # Vacant
                 PROVE  bng_now + 1 + Until(v, b)' <= bng_cpe[v][b][i].tsc + BngBuckets
      BY <1>1 DEF FreshAtVisit
    <2> DEFINE r == (b - bng_index[v]) % BngBuckets
    <2>1. Until(v, b)' = r + 0 /\ Until(v, b) = r + 1 /\ r \in Nat
      BY <1>1, UntilBounds DEF Until, Buckets
    <2> HIDE DEF r
    <2>2. bng_now + Until(v, b) <= bng_cpe[v][b][i].tsc + BngBuckets
      BY DEF BngInv, FreshAtVisit
    <2>3. bng_now + 1 + Until(v, b)' = bng_now + Until(v, b)
      BY <1>1, <2>1
    <2> QED BY <2>2, <2>3
  <1> QED BY <1>2, <1>3, <1>4, <1>5 DEF BngInv

LEMMA BngStep == BngInv /\ [BngNext]_bng_vars => BngInv'
  <1> SUFFICES ASSUME BngInv, [BngNext]_bng_vars PROVE BngInv'
    OBVIOUS
  <1>1. ASSUME NEW line \in Lines \cup BngUnknown, NEW ip \in BngIps, NEW mac \in BngMacs,
               NEW arp \in BOOLEAN, BngUpstream(line, ip, mac, arp)
        PROVE  BngInv'
    BY <1>1, StepUpstream
  <1>2. ASSUME NEW w \in BngThreads, BngArpUpdate(w) PROVE BngInv'
    BY <1>2, StepArpUpdate
  <1>3. ASSUME NEW w \in BngThreads, BngExpire(w) PROVE BngInv'
    BY <1>3, StepExpire
  <1>4. ASSUME NEW line \in Lines, NEW ip \in BngIps, NEW mac \in BngMacs, BngArpMsg(line, ip, mac)
        PROVE  BngInv'
    BY <1>4, StepArpMsg
  <1>5. CASE UNCHANGED bng_vars
    <2>1. UNCHANGED <<bng_learn, bng_cpe, bng_index, bng_now, bng_ran, bng_known>> /\ bng_arp' = bng_arp
      BY <1>5 DEF bng_vars
    <2>2. bng_arp' \in [BngThreads -> Seq(ArpPackets)]
      BY <2>1 DEF BngInv, BngTypes
    <2> QED BY <2>1, <2>2, ArpWaits
  <1> QED BY <1>1, <1>2, <1>3, <1>4, <1>5, StepBngTick DEF BngNext

LEMMA BngInvSound == BngInv => BngSound
  <1> SUFFICES ASSUME BngInv PROVE BngSound
    OBVIOUS
  <1>1. BngTypes
    BY DEF BngInv
  <1>2. LearnedLeadsBack
    <2> SUFFICES ASSUME NEW key \in Keys
                 PROVE  /\ Downstream(key) \subseteq (IF key \in DOMAIN bng_known THEN {bng_known[key]} ELSE {})
                        /\ key \in DOMAIN bng_known /\ bng_known[key].tsc >= bng_now => Downstream(key) # {}
      BY DEF LearnedLeadsBack
    <2>1. WorkerFromMask(key[2]) \in BngThreads /\ Bucket(key) \in Buckets
      BY KeyPlaces
    <2>2. \A e \in Downstream(key) : key \in DOMAIN bng_known /\ e = bng_known[key]
      <3> SUFFICES ASSUME NEW e \in Downstream(key) PROVE key \in DOMAIN bng_known /\ e = bng_known[key]
        OBVIOUS
      <3> DEFINE s == bng_cpe[WorkerFromMask(key[2])][Bucket(key)]
      <3>1. PICK i \in DOMAIN s : s[i] # Vacant /\ s[i] = e /\ e.key = key
        BY FoundIs DEF Downstream
      <3> QED BY <2>1, <3>1 DEF BngInv, EntriesKnown, Placed
    <2> QED BY <2>2 DEF BngInv, KnownEntered
  <1>3. StaleGoes
    <2> SUFFICES ASSUME NEW w \in BngThreads, NEW b \in Buckets, NEW i \in 1 .. BngDepth,
                        bng_cpe[w][b][i] # Vacant
                 PROVE  bng_now <= bng_cpe[w][b][i].tsc + BngBuckets
      BY DEF StaleGoes, Buckets
    <2>1. bng_now \in Nat /\ Until(w, b) \in Nat /\ bng_now + Until(w, b) <= bng_cpe[w][b][i].tsc + BngBuckets
      BY <1>1, UntilBounds, BngAssumption DEF BngInv, BngTypes, FreshAtVisit
    <2>2. bng_cpe[w][b][i].tsc + BngBuckets \in Nat
      <3>1. WellLinked(bng_cpe[w][b])
        BY <1>1 DEF BngTypes
      <3>2. i \in DOMAIN bng_cpe[w][b]
        BY <3>1, BngAssumption DEF WellLinked
      <3>3. bng_cpe[w][b][i] \in CpeEntries
        BY <3>1, <3>2, ElementOfSeq DEF WellLinked, Slots
      <3> QED BY <3>3, BngAssumption DEF CpeEntries
    <2> QED BY <2>1, <2>2
  <1> QED BY <1>2, <1>3 DEF BngSound

\* For any map of lines and any number of workers, buckets and extensions: what
\* was learned upstream is found downstream by the worker the other balancer
\* picks, until it expires; nothing else is; and the buckets are cleaned in time.
THEOREM LearnedStays == BngSpec => []BngSound
  <1>1. BngSpec => []BngInv
    BY BngStart, BngStep, PTL DEF BngSpec
  <1> QED BY <1>1, BngInvSound, PTL

-----------------------------------------------------------------------------
(***************************************************************************)
(* Impairment: the ring of a constant delay.                               *)
(***************************************************************************)

\* Two places of a ring: their sum and their distance, wrapped.
LEMMA WrapPlus ==
  ASSUME NEW m \in Nat \ {0}, NEW a \in 0 .. m - 1, NEW k \in 0 .. m - 1
  PROVE  (a + k) % m = IF a + k < m THEN a + k ELSE a + k - m
  <1>1. CASE a + k < m
    <2>1. a + k \in 0 .. (m - 1)
      BY <1>1
    <2> QED BY <1>1, <2>1, RemainderSmall
  <1>2. CASE ~ (a + k < m)
    <2>1. a + k - m \in 0 .. (m - 1) /\ a + k = m * 1 + (a + k - m) /\ a + k \in Int /\ 1 \in Int
      BY <1>2
    <2>2. (a + k) % m = a + k - m
      BY <2>1, RemainderUnique
    <2> QED BY <1>2, <2>2
  <1> QED BY <1>1, <1>2
LEMMA WrapMinus ==
  ASSUME NEW m \in Nat \ {0}, NEW a \in 0 .. m - 1, NEW b \in 0 .. m - 1
  PROVE  (a - b) % m = IF b <= a THEN a - b ELSE a - b + m
  <1>1. CASE b <= a
    <2>1. a - b \in 0 .. (m - 1)
      BY <1>1
    <2> QED BY <1>1, <2>1, RemainderSmall
  <1>2. CASE ~ (b <= a)
    <2>1. a - b + m \in 0 .. (m - 1) /\ a - b = m * (-1) + (a - b + m) /\ a - b \in Int /\ -1 \in Int
      BY <1>2
    <2>2. (a - b) % m = a - b + m
      BY <2>1, RemainderUnique
    <2> QED BY <1>2, <2>2
  <1> QED BY <1>1, <1>2

\* The room in the ring, which handle_bulk_impair computes.
LEMMA RoomInRing ==
  ASSUME NEW m \in Nat \ {0}, NEW h \in 0 .. m - 1, NEW t \in 0 .. m - 1
  PROVE  /\ (t - h + (m - 1)) % m = m - 1 - ((h - t) % m)
         /\ \A k \in Nat : k < m - ((h - t) % m) =>
              ((h + k + 1 - t) % m = 0 <=> k = m - 1 - ((h - t) % m))
  <1> DEFINE d == (h - t) % m
  <1>1. d = IF t <= h THEN h - t ELSE h - t + m
    BY WrapMinus
  <1>2. d \in 0 .. m - 1 /\ (h - t = d \/ h - t = d - m)
    BY <1>1
  <1> HIDE DEF d
  <1>3. (t - h + (m - 1)) % m = m - 1 - d
    <2> DEFINE x == t - h + (m - 1)
               r == m - 1 - d
    <2>1. x \in Int /\ r \in 0 .. (m - 1) /\ (x = m * 0 + r \/ x = m * 1 + r) /\ 0 \in Int /\ 1 \in Int
      BY <1>2
    <2> HIDE DEF x, r
    <2>2. x % m = r
      BY <2>1, RemainderUnique
    <2> QED BY <2>2 DEF x, r
  <1>4. ASSUME NEW k \in Nat, k < m - d
        PROVE  (h + k + 1 - t) % m = 0 <=> k = m - 1 - d
    <2> DEFINE x == h + k + 1 - t
               r == IF k = m - 1 - d THEN 0 ELSE d + k + 1
    <2>1. x \in Int /\ r \in 0 .. (m - 1) /\ (x = m * 0 + r \/ x = m * 1 + r \/ x = m * (-1) + r)
          /\ 0 \in Int /\ 1 \in Int /\ -1 \in Int
      BY <1>2, <1>4
    <2>2. r = 0 <=> k = m - 1 - d
      BY <1>2
    <2> HIDE DEF x, r
    <2>3. x % m = r
      BY <2>1, RemainderUnique
    <2> QED BY <2>2, <2>3 DEF x
  <1> QED BY <1>3, <1>4 DEF d

\* No more packets are taken than there is room for.
LEMMA TakenFits ==
  ASSUME im_mask \in Nat, im_head \in 0 .. im_mask, im_tail \in 0 .. im_mask, NEW n \in Nat
  PROVE  Taken(n) \in 0 .. n /\ ((im_head - im_tail) % (im_mask + 1)) + Taken(n) <= im_mask
  <1> DEFINE m == im_mask + 1
             d == (im_head - im_tail) % m
             k0 == m - 1 - d
  <1>1. m \in Nat \ {0} /\ im_head \in 0 .. m - 1 /\ im_tail \in 0 .. m - 1 /\ im_mask = m - 1
    OBVIOUS
  <1> HIDE DEF m
  <1>2. d \in 0 .. m - 1
    <2>1. im_head - im_tail \in Int
      BY <1>1
    <2> QED BY <1>1, <2>1, Division
  <1>3. NbEmptySlots = k0
    <2>1. (im_tail - im_head + (m - 1)) % m = k0
      BY <1>1, RoomInRing
    <2> QED BY <1>1, <2>1 DEF NbEmptySlots, m
  <1>4. \A k \in Nat : k < m - d => (FullAfter(k) <=> k = k0)
    <2>1. \A k \in Nat : k < m - d => ((im_head + k + 1 - im_tail) % m = 0 <=> k = k0)
      BY <1>1, RoomInRing
    <2> QED BY <2>1 DEF FullAfter, m
  <1>5. CASE NbEmptySlots >= n
    <2>1. Taken(n) = n
      BY <1>5 DEF Taken
    <2> HIDE DEF d
    <2> QED BY <1>1, <1>2, <1>3, <1>5, <2>1 DEF m, d
  <1>6. CASE ~ (NbEmptySlots >= n)
    <2>1. k0 \in 0 .. n /\ k0 \in Nat /\ k0 < m - d
      <3> HIDE DEF d
      <3> QED BY <1>1, <1>2, <1>3, <1>6
    <2>2. FullAfter(k0) /\ \A j \in 0 .. k0 - 1 : ~ FullAfter(j)
      <3>1. \A j \in 0 .. k0 - 1 : j \in Nat /\ j < m - d /\ j # k0
        <4> HIDE DEF d
        <4> QED BY <1>1, <1>2
      <3> HIDE DEF k0
      <3> QED BY <1>4, <2>1, <3>1
    <2>3. \E k \in 0 .. n : FullAfter(k) /\ \A j \in 0 .. k - 1 : ~ FullAfter(j)
      <3> HIDE DEF k0
      <3> QED BY <2>1, <2>2
    <2>4. Taken(n) = CHOOSE k \in 0 .. n : FullAfter(k) /\ \A j \in 0 .. k - 1 : ~ FullAfter(j)
      BY <1>6 DEF Taken
    <2> DEFINE c == Taken(n)
    <2>5. c \in 0 .. n /\ \A j \in 0 .. c - 1 : ~ FullAfter(j)
      BY <2>3, <2>4
    <2> HIDE DEF c
    <2>6. ~ (k0 \in 0 .. c - 1)
      BY <2>2, <2>5
    <2>7. c <= k0
      <3> HIDE DEF k0
      <3> QED BY <2>1, <2>5, <2>6
    <2> HIDE DEF d
    <2> QED BY <1>1, <1>2, <2>5, <2>7 DEF c, d, m
  <1> QED BY <1>5, <1>6

\* A part of a sequence, as a function.
LEMMA SubSeqIs ==
  ASSUME NEW T, NEW s \in Seq(T), NEW a \in 1 .. Len(s) + 1
  PROVE  SubSeq(s, a, Len(s)) = [k \in 1 .. Len(s) - a + 1 |-> s[a + k - 1]]
  OBVIOUS

\* What is taken is put behind what waits, and overwrites nothing.
LEMMA RingFilled ==
  ASSUME ImTypeOK, im_fifo \in Seq(Nat), NEW n \in Nat,
         RingHolds(im_ring, im_mask, im_head, im_tail, im_fifo),
         NEW take, take = Taken(n), NEW fifo, fifo = im_fifo \o [k \in 1 .. take |-> im_arrived + k]
  PROVE  /\ take \in Nat /\ fifo \in Seq(Nat) /\ Len(fifo) = Len(im_fifo) + take
         /\ RingHolds(StoreAt(take), im_mask, (im_head + take) % (im_mask + 1), im_tail, fifo)
  <1> DEFINE m == im_mask + 1
             len == Len(im_fifo)
             head == (im_head + take) % m
             ring == StoreAt(take)
             new == [k \in 1 .. take |-> im_arrived + k]
             at(i) == (i - im_head) % m
             place(k) == (im_tail + k - 1) % m
  <1>1. /\ m \in Nat \ {0} /\ im_head \in 0 .. m - 1 /\ im_tail \in 0 .. m - 1 /\ im_mask = m - 1
        /\ im_mask \in Nat /\ im_arrived \in Nat /\ im_now + im_time_of \in Nat
    BY ImAssumption DEF ImTypeOK, RingHolds, Settings
  <1>0. /\ im_ring \in [0 .. m - 1 -> [p : Nat, tsc : Nat]]
        /\ len = (im_head - im_tail) % m
        /\ \A k \in 1 .. len : im_ring[place(k)].p = im_fifo[k]
    BY <1>1 DEF RingHolds
  <1>2. take \in 0 .. n /\ len = (im_head - im_tail) % m /\ len + take <= m - 1 /\ len \in Nat /\ take \in Nat
    <2>1. take \in 0 .. n /\ ((im_head - im_tail) % (im_mask + 1)) + take <= im_mask
      BY <1>1, TakenFits
    <2>2. len \in Nat
      OBVIOUS
    <2> HIDE DEF len
    <2> QED BY <1>0, <1>1, <2>1, <2>2
  <1>11. take \in Nat /\ len \in Nat /\ len + take <= m - 1
    BY <1>2
  <1> HIDE DEF m
  <1>3. head = IF im_head + take < m THEN im_head + take ELSE im_head + take - m
    <2> HIDE DEF len
    <2>1. take \in 0 .. m - 1
      BY <1>1, <1>2
    <2> QED BY <1>1, <2>1, WrapPlus
  <1>4. len = IF im_tail <= im_head THEN im_head - im_tail ELSE im_head - im_tail + m
    <2> HIDE DEF len
    <2> QED BY <1>0, <1>1, WrapMinus
  <1>5. head \in 0 .. m - 1 /\ len + take = (head - im_tail) % m
    <2> HIDE DEF head, len
    <2>1. head \in 0 .. m - 1
      BY SMTT(60), <1>1, <1>2, <1>3
    <2>2. (head - im_tail) % m = IF im_tail <= head THEN head - im_tail ELSE head - im_tail + m
      BY <1>1, <2>1, WrapMinus
    <2> DEFINE w == (head - im_tail) % m
    <2>3. w = IF im_tail <= head THEN head - im_tail ELSE head - im_tail + m
      BY <2>2
    <2> HIDE DEF w
    <2>4. len + take = w
      <3>1. CASE im_tail <= im_head /\ im_head + take < m
        BY <1>1, <1>11, <1>3, <1>4, <2>3, <3>1
      <3>2. CASE im_tail <= im_head /\ ~ (im_head + take < m)
        <4>1. head = im_head + take - m /\ len = im_head - im_tail
          BY <1>3, <1>4, <3>2
        <4>2. ~ (im_tail <= head)
          BY <1>1, <1>11, <4>1
        <4> QED BY SMTT(60), <1>1, <1>11, <2>3, <4>1, <4>2
      <3>3. CASE ~ (im_tail <= im_head)
        <4>1. len = im_head - im_tail + m
          BY <1>4, <3>3
        <4>2. im_head + take < m /\ im_head + take < im_tail
          BY <1>1, <1>11, <4>1
        <4> QED BY SMTT(60), <1>1, <1>11, <1>3, <2>3, <4>1, <4>2
      <3> QED BY <3>1, <3>2, <3>3
    <2> QED BY <2>1, <2>4 DEF w
  <1>6. new \in Seq(Nat) /\ Len(new) = take /\ \A k \in 1 .. take : new[k] = im_arrived + k
    <2>1. \A k \in 1 .. take : im_arrived + k \in Nat
      BY <1>1, <1>2
    <2> HIDE DEF len
    <2>2. new \in [1 .. take -> Nat]
      BY <2>1
    <2>3. take \in Nat /\ DOMAIN new = 1 .. take
      BY <1>11
    <2>4. new \in Seq(Nat) /\ Len(new) = take
      BY ONLY <2>2, <2>3
    <2> QED BY <2>4
  <1>7. /\ fifo \in Seq(Nat) /\ Len(fifo) = len + take
        /\ \A k \in 1 .. len : fifo[k] = im_fifo[k]
        /\ \A k \in len + 1 .. len + take : fifo[k] = im_arrived + (k - len)
    <2> HIDE DEF new
    <2>1. fifo = im_fifo \o new
      BY DEF new
    <2>2. fifo \in Seq(Nat) /\ Len(fifo) = len + take
      <3>1. im_fifo \in Seq(Nat) /\ new \in Seq(Nat) /\ Len(new) = take
        BY <1>6
      <3>2. fifo \in Seq(Nat) /\ Len(fifo) = Len(im_fifo) + Len(new)
        BY <2>1, <3>1, ConcatProperties
      <3> QED BY <3>1, <3>2 DEF len
    <2>3. ASSUME NEW k \in 1 .. len PROVE fifo[k] = im_fifo[k]
      BY <1>6, <2>1
    <2>4. ASSUME NEW k \in len + 1 .. len + take PROVE fifo[k] = im_arrived + (k - len)
      <3>1. k \in 1 .. Len(im_fifo) + Len(new) /\ ~ (k <= Len(im_fifo)) /\ k - len \in 1 .. take
        BY <1>2, <1>6
      <3>2. fifo[k] = new[k - Len(im_fifo)]
        BY <1>6, <2>1, <3>1
      <3> QED BY <1>6, <3>1, <3>2
    <2> QED BY <2>2, <2>3, <2>4
  <1>8. /\ ring \in [0 .. m - 1 -> [p : Nat, tsc : Nat]]
        /\ \A i \in 0 .. m - 1 : ring[i] = IF at(i) < take THEN [p |-> im_arrived + 1 + at(i), tsc |-> im_now + im_time_of]
                                           ELSE im_ring[i]
    <2>1. ring = [i \in 0 .. m - 1 |-> IF at(i) < take THEN [p |-> im_arrived + 1 + at(i), tsc |-> im_now + im_time_of]
                                           ELSE im_ring[i]]
      <3>1. DOMAIN im_ring = 0 .. m - 1
        BY <1>0
      <3> QED BY <3>1, <1>1 DEF StoreAt, m
    <2>2. \A i \in 0 .. m - 1 : at(i) \in Nat
      <3>1. \A i \in 0 .. m - 1 : i - im_head \in Int
        BY <1>1
      <3> QED BY <1>1, <3>1, Division
    <2>3. im_now + im_time_of \in Nat
      BY <1>1
    <2>4. \A i \in 0 .. m - 1 : im_arrived + 1 + at(i) \in Nat
      <3> HIDE DEF at
      <3> QED BY <1>1, <2>2
    <2>5. \A i \in 0 .. m - 1 : im_ring[i] \in [p : Nat, tsc : Nat]
      BY <1>0
    <2> HIDE DEF at, ring
    <2> QED BY <2>1, <2>3, <2>4, <2>5
  <1> HIDE DEF ring, new, len
  <1>9. ASSUME NEW k \in 1 .. len + take PROVE ring[place(k)].p = fifo[k]
    <2>1. /\ k - 1 \in 0 .. m - 1
          /\ place(k) = IF im_tail + (k - 1) < m THEN im_tail + (k - 1) ELSE im_tail + (k - 1) - m
      <3>1. k - 1 \in 0 .. m - 1 /\ im_tail + k - 1 = im_tail + (k - 1)
        BY <1>1, <1>2
      <3>2. (im_tail + (k - 1)) % m = IF im_tail + (k - 1) < m THEN im_tail + (k - 1) ELSE im_tail + (k - 1) - m
        BY <1>1, <3>1, WrapPlus
      <3> QED BY <3>1, <3>2
    <2> HIDE DEF place
    <2>2. place(k) \in 0 .. m - 1
      BY <1>1, <2>1
    <2>3. at(place(k)) = IF im_head <= place(k) THEN place(k) - im_head ELSE place(k) - im_head + m
      BY <1>1, <2>2, WrapMinus
    <2> HIDE DEF at
    <2>4. CASE k <= len
      <3>1. ~ (at(place(k)) < take)
        BY SMTT(60), <1>1, <1>2, <1>4, <2>1, <2>2, <2>3, <2>4
      <3>2. ring[place(k)] = im_ring[place(k)]
        BY <1>8, <2>2, <3>1
      <3>3. k \in 1 .. len
        BY <1>2, <2>4
      <3>4. im_ring[place(k)].p = im_fifo[k]
        BY <1>0, <3>3 DEF place
      <3> QED BY <1>7, <3>2, <3>3, <3>4
    <2>5. CASE ~ (k <= len)
      <3>1. at(place(k)) = k - len - 1 /\ at(place(k)) < take /\ k \in len + 1 .. len + take
        BY SMTT(60), <1>1, <1>2, <1>4, <2>1, <2>2, <2>3, <2>5
      <3>2. ring[place(k)].p = im_arrived + 1 + at(place(k))
        BY <1>8, <2>2, <3>1
      <3>3. fifo[k] = im_arrived + (k - len)
        BY <1>7, <3>1
      <3>4. im_arrived + 1 + (k - len - 1) = im_arrived + (k - len)
        BY <1>1, <1>11
      <3> QED BY <3>1, <3>2, <3>3, <3>4
    <2> QED BY <2>4, <2>5
  <1>10. RingHolds(ring, im_mask, head, im_tail, fifo)
    BY <1>1, <1>5, <1>7, <1>8, <1>9 DEF RingHolds, m
  <1> QED BY <1>2, <1>7, <1>10 DEF m, ring, len

\* What is due is taken off in front.
LEMMA RingSent ==
  ASSUME ImTypeOK, NEW ring, NEW head, NEW fifo \in Seq(Nat),
         RingHolds(ring, im_mask, head, im_tail, fifo),
         NEW due, due = DueFrom(ring, head)
  PROVE  /\ due \in Nat /\ due <= Len(fifo)
         /\ SubSeq(fifo, due + 1, Len(fifo)) \in Seq(Nat)
         /\ RingHolds(ring, im_mask, head, (im_tail + due) % (im_mask + 1), SubSeq(fifo, due + 1, Len(fifo)))
  <1> DEFINE m == im_mask + 1
             len == Len(fifo)
             tail == (im_tail + due) % m
             rest == SubSeq(fifo, due + 1, len)
             tsc(k) == ring[(im_tail + k) % m].tsc
             inside(k) == k < (head - im_tail) % m
             Stop(k) == k = ImBurst \/ ~ inside(k) \/ tsc(k) > im_now
             Due(k) == /\ \A j \in 0 .. k - 1 : inside(j) /\ tsc(j) <= im_now
                       /\ Stop(k)
  <1>1. /\ m \in Nat \ {0} /\ head \in 0 .. m - 1 /\ im_tail \in 0 .. m - 1 /\ im_mask = m - 1
        /\ im_now \in Nat
    BY DEF ImTypeOK, RingHolds
  <1>0. /\ ring \in [0 .. m - 1 -> [p : Nat, tsc : Nat]]
        /\ len = (head - im_tail) % m /\ len \in Nat
        /\ \A k \in 1 .. len : ring[(im_tail + k - 1) % m].p = fifo[k]
    BY <1>1 DEF RingHolds
  <1>2. len \in Nat /\ len = (head - im_tail) % m /\ len < m
    <2> HIDE DEF len, m
    <2>1. head - im_tail \in Int
      BY <1>1
    <2>2. (head - im_tail) % m \in 0 .. (m - 1)
      BY <1>1, <2>1, Division
    <2> QED BY <1>0, <1>1, <2>2
  <1>13. len \in Nat /\ len < m
    BY <1>2
  <1>3. due = CHOOSE k \in 0 .. ImBurst : Due(k)
    BY DEF DueFrom
  <1> HIDE DEF m
  <1>4. \E k \in 0 .. ImBurst : Due(k)
    <2> DEFINE T == {k \in 0 .. ImBurst : Stop(k)}
    <2>1. T \in SUBSET Nat /\ T # {}
      <3>1. ImBurst \in 0 .. ImBurst /\ Stop(ImBurst)
        BY ImAssumption
      <3>2. 0 .. ImBurst \subseteq Nat
        OBVIOUS
      <3> HIDE DEF Stop
      <3> QED BY <3>1, <3>2
    <2>2. PICK k \in T : \A j \in T : k <= j
      BY <2>1, LeastNatural
    <2>3. ASSUME NEW j \in 0 .. k - 1 PROVE inside(j) /\ tsc(j) <= im_now
      <3>1. j \in 0 .. ImBurst /\ ~ (k <= j)
        BY <2>2, ImAssumption
      <3>2. ~ Stop(j)
        BY <2>2, <3>1
      <3>3. tsc(j) \in Nat
        <4>1. im_tail + j \in Int
          BY <1>1, <3>1
        <4>2. (im_tail + j) % m \in 0 .. m - 1
          BY <1>1, <4>1, Division
        <4> QED BY <1>0, <4>2
      <3> HIDE DEF tsc
      <3> QED BY <1>1, <3>2, <3>3
    <2> QED BY <2>2, <2>3
  <1>5. due \in 0 .. ImBurst /\ Due(due)
    <2> HIDE DEF Due
    <2> QED BY <1>3, <1>4
  <1>6. due \in Nat /\ due <= len
    <2>1. CASE due = 0
      BY <1>2, <2>1
    <2>2. CASE due # 0
      <3>1. due \in Nat /\ due - 1 \in 0 .. due - 1
        <4>1. due \in 0 .. ImBurst
          BY <1>5
        <4> QED BY ONLY <4>1, <2>2, ImAssumption DEF ImAssumption
      <3>2. inside(due - 1)
        BY <1>5, <3>1
      <3>3. due - 1 < len
        BY <1>2, <3>2
      <3> QED BY <1>2, <3>1, <3>3
    <2> QED BY <2>1, <2>2
  <1> HIDE DEF Due, len
  <1>7. tail = IF im_tail + due < m THEN im_tail + due ELSE im_tail + due - m
    <2>1. due \in 0 .. m - 1
      BY <1>1, <1>2, <1>6
    <2> QED BY <1>1, <2>1, WrapPlus
  <1>8. len = IF im_tail <= head THEN head - im_tail ELSE head - im_tail + m
    BY <1>1, <1>2, WrapMinus
  <1>9. tail \in 0 .. m - 1 /\ (head - tail) % m = len - due
    <2> HIDE DEF tail
    <2>1. tail \in 0 .. m - 1
      BY <1>1, <1>2, <1>6, <1>7
    <2>2. (head - tail) % m = IF tail <= head THEN head - tail ELSE head - tail + m
      BY <1>1, <2>1, WrapMinus
    <2> DEFINE w == (head - tail) % m
    <2>3. w = IF tail <= head THEN head - tail ELSE head - tail + m
      BY <2>2
    <2> HIDE DEF w
    <2>4. w = len - due
      BY SMTT(60), <1>1, <1>13, <1>6, <1>7, <1>8, <2>1, <2>3
    <2> QED BY <2>1, <2>4 DEF w
  <1>10. rest \in Seq(Nat) /\ Len(rest) = len - due /\ \A k \in 1 .. len - due : rest[k] = fifo[k + due]
    <2>1. \A k \in 1 .. len - due : due + 1 + k - 1 = k + due /\ k + due \in 1 .. len
      BY <1>2, <1>6
    <2>2. due + 1 \in 1 .. len + 1 /\ len - (due + 1) + 1 = len - due
      BY <1>2, <1>6
    <2>3. rest = [k \in 1 .. len - due |-> fifo[due + 1 + k - 1]]
      BY SMTT(60), <2>2, SubSeqIs DEF len
    <2>4. \A k \in 1 .. len - due : fifo[k + due] \in Nat
      BY <2>1 DEF len
    <2>5. len - due \in Nat
      BY <1>2, <1>6
    <2> HIDE DEF rest
    <2>6. \A k \in 1 .. len - due : rest[k] = fifo[k + due]
      BY <2>1, <2>3
    <2>7. rest \in Seq(Nat) /\ Len(rest) = len - due
      BY <2>1, <2>3, <2>4, <2>5
    <2> QED BY <2>6, <2>7
  <1> HIDE DEF rest
  <1>11. ASSUME NEW k \in 1 .. len - due PROVE ring[(tail + k - 1) % m].p = rest[k]
    <2>1. k + due \in 1 .. len /\ k - 1 \in 0 .. m - 1 /\ k + due - 1 \in 0 .. m - 1
      BY <1>1, <1>2, <1>6
    <2>2. ring[(im_tail + (k + due) - 1) % m].p = fifo[k + due]
      BY <1>0, <2>1
    <2>3. (im_tail + (k + due - 1)) % m = IF im_tail + (k + due - 1) < m THEN im_tail + (k + due - 1) ELSE im_tail + (k + due - 1) - m
      BY <1>1, <2>1, WrapPlus
    <2>4. (tail + (k - 1)) % m = IF tail + (k - 1) < m THEN tail + (k - 1) ELSE tail + (k - 1) - m
      <3> HIDE DEF tail
      <3> QED BY <1>1, <1>9, <2>1, WrapPlus
    <2>5. im_tail + (k + due) - 1 = im_tail + (k + due - 1) /\ tail + k - 1 = tail + (k - 1)
      <3> HIDE DEF tail
      <3> QED BY <1>1, <1>6, <1>9, <2>1
    <2>6. (tail + (k - 1)) % m = (im_tail + (k + due - 1)) % m
      <3> DEFINE u == (tail + (k - 1)) % m
                 v == (im_tail + (k + due - 1)) % m
      <3>1. v = IF im_tail + (k + due - 1) < m THEN im_tail + (k + due - 1) ELSE im_tail + (k + due - 1) - m
        BY <2>3
      <3>2. u = IF tail + (k - 1) < m THEN tail + (k - 1) ELSE tail + (k - 1) - m
        BY <2>4
      <3> HIDE DEF u, v, tail
      <3>3. u = v
        <4>1. tail \in 0 .. m - 1
          BY <1>9
        <4>2. tail = IF im_tail + due < m THEN im_tail + due ELSE im_tail + due - m
          BY <1>7
        <4>3. CASE im_tail + due < m
          <5>1. tail + (k - 1) = im_tail + (k + due - 1)
            BY SMTT(60), <1>1, <1>6, <2>1, <4>2, <4>3
          <5> QED BY <5>1 DEF u, v
        <4>4. CASE ~ (im_tail + due < m)
          <5>4. k \in Nat /\ 1 <= k /\ k + due <= len
            BY <1>13, <1>6
          <5>3. tail = im_tail + due - m
            BY <4>2, <4>4
          <5>1. tail + (k - 1) = im_tail + (k + due - 1) - m
            BY SMTT(60), <1>1, <1>6, <5>3
          <5>5. im_tail \in Int /\ m \in Int /\ due \in Int /\ im_tail < m /\ len < m /\ len \in Int
            BY <1>1, <1>6, <1>13
          <5>6. tail + (k - 1) < m
            BY <5>3, <5>4, <5>5
          <5>7. m <= im_tail + (k + due - 1)
            BY <4>4, <5>4, <5>5
          <5>2. tail + (k - 1) < m /\ ~ (im_tail + (k + due - 1) < m)
            BY <5>4, <5>5, <5>6, <5>7
          <5> QED BY <3>1, <3>2, <5>1, <5>2
        <4> QED BY <4>3, <4>4
      <3> QED BY <3>3 DEF u, v
    <2> QED BY <1>10, <2>1, <2>2, <2>5, <2>6
  <1>12. RingHolds(ring, im_mask, head, tail, rest)
    BY <1>0, <1>1, <1>9, <1>10, <1>11 DEF m, RingHolds
  <1> QED BY <1>6, <1>10, <1>12 DEF m, rest, len

-----------------------------------------------------------------------------
(***************************************************************************)
(* Impairment: the slots of a random delay.                                *)
(***************************************************************************)

\* InsertAll stays in a set that Insert stays in.
InsertedBy(g, n, ds) ==
  g = [k \in 0 .. n |-> IF k = 0 THEN im_buffer ELSE Insert(g[k - 1], im_arrived + k, ds[k])]
LEMMA InsertAllStays ==
  ASSUME NEW n \in Nat, NEW ds, NEW S, im_buffer \in S,
         \A k \in 1 .. n : \A b \in S : Insert(b, im_arrived + k, ds[k]) \in S
  PROVE  InsertAll(n, ds) \in S
  <1> DEFINE step == [k \in 1 .. n |-> [b \in S |-> Insert(b, im_arrived + k, ds[k])]]
             base == im_buffer
             h == n
  <1>1. \A k \in 1 .. n : \A b \in S : step[k][b] = Insert(b, im_arrived + k, ds[k])
    OBVIOUS
  <1>2. StepsWithin(h, S, base, step)
    <2> HIDE DEF step
    <2> QED BY <1>1 DEF StepsWithin
  <1> HIDE DEF step, base, h
  <1>3. \E g \in [0 .. h -> S] : g[0] = base /\ \A k \in 1 .. h : g[k] = step[k][g[k - 1]]
    BY <1>2, StepsExist
  <1>4. PICK g \in [0 .. n -> S] : g[0] = im_buffer /\ \A k \in 1 .. n : g[k] = step[k][g[k - 1]]
    BY <1>3 DEF base, h
  <1>5. ASSUME NEW k \in 0 .. n
        PROVE  g[k] = IF k = 0 THEN im_buffer ELSE Insert(g[k - 1], im_arrived + k, ds[k])
    <2>1. CASE k # 0
      <3>1. k \in 1 .. n /\ k - 1 \in 0 .. n
        BY <2>1
      <3>2. g[k - 1] \in S
        BY <1>4, <3>1
      <3> QED BY <1>1, <1>4, <2>1, <3>1, <3>2
    <2> QED BY <1>4, <2>1
  <1>6. g = [k \in 0 .. n |-> g[k]]
    BY <1>4
  <1>7. InsertedBy(g, n, ds)
    BY <1>5, <1>6, Zenon DEF InsertedBy
  <1> DEFINE f == CHOOSE f : InsertedBy(f, n, ds)
  <1>8. InsertedBy(f, n, ds)
    BY <1>7, Zenon
  <1>9. InsertAll(n, ds) = f[n]
    BY Zenon DEF InsertAll, InsertedBy
  <1> HIDE DEF f
  <1>10. f[0] = im_buffer /\ \A k \in 1 .. n : f[k] = Insert(f[k - 1], im_arrived + k, ds[k])
    BY <1>8 DEF InsertedBy
  <1> DEFINE T == {k \in 0 .. n : f[k] \in S}
  <1>11. ASSUME NEW k \in 0 .. n - 1, k \in T PROVE k + 1 \in T
    <2>1. k + 1 \in 1 .. n /\ k + 1 \in 0 .. n /\ (k + 1) - 1 = k /\ f[k] \in S
      BY <1>11
    <2>2. f[k + 1] = Insert(f[k], im_arrived + (k + 1), ds[k + 1])
      BY <1>10, <2>1
    <2> QED BY <2>1, <2>2
  <1>12. 0 \in T
    BY <1>10
  <1> HIDE DEF T
  <1>13. 0 .. n \subseteq T
    BY <1>11, <1>12, ReachesAll
  <1>14. n \in T
    BY <1>13
  <1> QED BY <1>9, <1>14 DEF T

\* Drain stays in a set that DrainSlot stays in.
DrainStart(buffer) == [buffer |-> buffer, last |-> im_last, left |-> ImBurst, cut |-> {}]
DrainedBy(g, buffer) ==
  g = [k \in 0 .. ImSlots |-> IF k = 0 THEN DrainStart(buffer) ELSE DrainSlot(g[k - 1])]
LEMMA DrainStays ==
  ASSUME NEW buffer, NEW S, DrainStart(buffer) \in S, \A s \in S : DrainSlot(s) \in S
  PROVE  Drain(buffer) \in S
  <1> DEFINE n == ImSlots
             base == DrainStart(buffer)
             step == [k \in 1 .. n |-> [s \in S |-> DrainSlot(s)]]
  <1>0. n \in Nat
    BY ImAssumption
  <1> HIDE DEF n
  <1>1. \A k \in 1 .. n : \A s \in S : step[k][s] = DrainSlot(s)
    OBVIOUS
  <1>2. StepsWithin(n, S, base, step)
    <2> HIDE DEF step
    <2> QED BY <1>0, <1>1 DEF StepsWithin
  <1> HIDE DEF step, base
  <1>3. \E g \in [0 .. n -> S] : g[0] = base /\ \A k \in 1 .. n : g[k] = step[k][g[k - 1]]
    BY <1>2, StepsExist
  <1>4. PICK g \in [0 .. n -> S] : g[0] = base /\ \A k \in 1 .. n : g[k] = step[k][g[k - 1]]
    BY <1>3
  <1>5. ASSUME NEW k \in 0 .. n
        PROVE  g[k] = IF k = 0 THEN base ELSE DrainSlot(g[k - 1])
    <2>1. CASE k # 0
      <3>1. k \in 1 .. n /\ k - 1 \in 0 .. n
        BY <1>0, <2>1
      <3>2. g[k - 1] \in S
        BY <1>4, <3>1
      <3> QED BY <1>1, <1>4, <2>1, <3>1, <3>2
    <2> QED BY <1>4, <2>1
  <1>6. g = [k \in 0 .. n |-> g[k]]
    BY <1>4
  <1>7. DrainedBy(g, buffer)
    BY <1>5, <1>6, Zenon DEF DrainedBy, n, base
  <1> DEFINE f == CHOOSE f : DrainedBy(f, buffer)
  <1>8. DrainedBy(f, buffer)
    BY <1>7, Zenon
  <1>9. Drain(buffer) = f[n]
    BY Zenon DEF Drain, DrainedBy, DrainStart, n
  <1> HIDE DEF f
  <1>10. f[0] = base /\ \A k \in 1 .. n : f[k] = DrainSlot(f[k - 1])
    BY <1>0, <1>8 DEF DrainedBy, n, base
  <1> DEFINE T == {k \in 0 .. n : f[k] \in S}
  <1>11. ASSUME NEW k \in 0 .. n - 1, k \in T PROVE k + 1 \in T
    <2>1. k + 1 \in 1 .. n /\ k + 1 \in 0 .. n /\ (k + 1) - 1 = k /\ f[k] \in S
      BY <1>0, <1>11
    <2>2. f[k + 1] = DrainSlot(f[k])
      BY <1>10, <2>1
    <2> QED BY <2>1, <2>2
  <1>12. 0 \in T
    BY <1>0, <1>10 DEF base
  <1> HIDE DEF T
  <1>13. 0 .. n \subseteq T
    BY <1>0, <1>11, <1>12, ReachesAll
  <1>14. n \in T
    BY <1>0, <1>13
  <1> QED BY <1>9, <1>14 DEF T

\* The time last_idx stands for: the last one of its slot before now.
LEMMA BaseOfLast ==
  ASSUME im_now \in Nat, NEW last \in 0 .. ImSlots - 1
  PROVE  /\ Base(last) \in Int /\ Base(last) <= im_now - 1 /\ Slot(Base(last)) = last
         /\ Base(last) = im_now - 1 => last = Slot(im_now - 1)
         /\ Base(last) # im_now - 1 => Base(Slot(last + 1)) = Base(last) + 1
  <1> DEFINE w == ImSlots
             x == im_now - 1 - last
             q == x \div w
             r == x % w
             z == last + 1
  <1>1. w \in Nat \ {0}
    BY ImAssumption
  <1> HIDE DEF w
  <1>2. x \in Int /\ z \in Int /\ last \in 0 .. w - 1
    BY <1>1 DEF w
  <1>3. x = w * q + r /\ q \in Int /\ r \in 0 .. (w - 1)
    <2> HIDE DEF x
    <2> QED BY <1>1, <1>2, Division
  <1>4. Base(last) = im_now - 1 - r
    BY DEF Base, w
  <1> HIDE DEF q, r
  <1>5. im_now - 1 - r \in Int /\ im_now - 1 - r <= im_now - 1 /\ im_now - 1 - r = w * q + last
    BY <1>1, <1>2, <1>3
  <1>6. (im_now - 1 - r) % w = last
    <2> DEFINE y == im_now - 1 - r
    <2>1. y \in Int /\ y = w * q + last /\ last \in 0 .. (w - 1)
      BY <1>2, <1>5
    <2> HIDE DEF y
    <2>2. y % w = last
      BY <1>1, <1>3, <2>1, RemainderUnique
    <2> QED BY <2>2 DEF y
  <1>7. Slot(Base(last)) = last
    BY <1>4, <1>6 DEF Slot, w
  <1>8. Base(last) = im_now - 1 => last = Slot(im_now - 1)
    BY <1>7
  <1>9. ASSUME Base(last) # im_now - 1 PROVE Base(Slot(z)) = Base(last) + 1
    <2>1. r # 0
      BY <1>4, <1>9
    <2>2. r + (-1) \in 0 .. (w - 1)
      BY <1>1, <1>3, <2>1
    <2>3. (x + (-1)) % w = r + (-1)
      <3>1. (x % w) + (-1) \in 0 .. (w - 1) /\ -1 \in Int
        BY <2>2 DEF r
      <3> HIDE DEF x
      <3>2. (x + (-1)) % w = (x % w) + (-1)
        BY <1>1, <1>2, <3>1, RemainderShift
      <3> QED BY <3>2 DEF r
    <2>4. ((im_now - 1) - (z % w)) % w = ((im_now - 1) - z) % w
      <3> DEFINE y == im_now - 1
      <3>1. y \in Int
        OBVIOUS
      <3> HIDE DEF y, z
      <3>2. (y - (z % w)) % w = (y - z) % w
        BY <1>1, <1>2, <3>1, RemainderMinus
      <3> QED BY <3>2 DEF y
    <2>5. (im_now - 1) - z = x + (-1)
      BY <1>2
    <2>6. Base(Slot(z)) = im_now - 1 - ((im_now - 1 - (z % w)) % w)
      BY DEF Base, Slot, w
    <2>7. Base(Slot(z)) = im_now - 1 - (r + (-1))
      BY <2>3, <2>4, <2>5, <2>6
    <2> QED BY <1>3, <1>4, <2>7
  <1> QED BY <1>4, <1>5, <1>7, <1>8, <1>9 DEF z

\* Time does not pass last_idx by.
LEMMA BaseLater ==
  ASSUME im_now \in Nat, NEW last \in 0 .. ImSlots - 1, Slot(im_now) # last, im_now' = im_now + 1
  PROVE  im_now' - 1 - ((im_now' - 1 - last) % ImSlots) = Base(last)
  <1> DEFINE w == ImSlots
             y == im_now - last
             q == y \div w
             r == y % w
  <1>1. w \in Nat \ {0}
    BY ImAssumption
  <1> HIDE DEF w
  <1>2. y \in Int /\ last \in 0 .. (w - 1)
    BY <1>1 DEF w
  <1>3. y = w * q + r /\ q \in Int /\ r \in 0 .. (w - 1)
    <2> HIDE DEF y
    <2> QED BY <1>1, <1>2, Division
  <1>4. r # 0
    <2> SUFFICES ASSUME r = 0 PROVE FALSE
      OBVIOUS
    <2> HIDE DEF q, r
    <2>1. im_now = w * q + last /\ im_now \in Int
      BY <1>1, <1>2, <1>3
    <2>2. im_now % w = last
      BY <1>1, <1>2, <1>3, <2>1, RemainderUnique
    <2> QED BY <2>2 DEF Slot, w
  <1>5. (y + (-1)) % w = r + (-1)
    <2>1. (y % w) + (-1) \in 0 .. (w - 1) /\ -1 \in Int
      <3> HIDE DEF q
      <3>1. r + (-1) \in 0 .. (w - 1)
        <4> HIDE DEF r
        <4> QED BY <1>1, <1>3, <1>4
      <3> QED BY <3>1
    <2> HIDE DEF y, q
    <2> QED BY <1>1, <1>2, <2>1, RemainderShift
  <1>6. im_now - 1 - last = y + (-1) /\ im_now' - 1 - last = y
    BY <1>2
  <1>7. Base(last) = im_now - 1 - (r + (-1))
    BY <1>5, <1>6 DEF Base, w
  <1> HIDE DEF r, q
  <1>8. im_now - 1 - (r + (-1)) = im_now' - 1 - r
    BY <1>1, <1>3
  <1> QED BY <1>6, <1>7, <1>8 DEF r, w

\* What a sequence has after one more element, and a part of it.
LEMMA AppendedSet ==
  ASSUME NEW T, NEW s \in Seq(T), NEW e \in T
  PROVE  Append(s, e) \in Seq(T) /\ ToSet(Append(s, e)) = ToSet(s) \cup {e}
  <1> DEFINE t == Append(s, e)
             n == Len(s)
  <1>1. n \in Nat /\ t \in Seq(T) /\ DOMAIN t = 1 .. n + 1 /\ DOMAIN s = 1 .. n
        /\ (\A i \in 1 .. n : t[i] = s[i]) /\ t[n + 1] = e
    OBVIOUS
  <1> HIDE DEF t, n
  <1>2. ToSet(t) \subseteq ToSet(s) \cup {e}
    <2>1. ASSUME NEW i \in 1 .. n + 1 PROVE t[i] \in ToSet(s) \cup {e}
      <3>1. CASE i = n + 1
        BY <1>1, <3>1
      <3>2. CASE i # n + 1
        <4>1. i \in 1 .. n
          BY <1>1, <3>2
        <4> QED BY <1>1, <4>1 DEF ToSet
      <3> QED BY <3>1, <3>2
    <2> QED BY <1>1, <2>1 DEF ToSet
  <1>3. ToSet(s) \cup {e} \subseteq ToSet(t)
    <2>1. \A i \in 1 .. n : i \in 1 .. n + 1 /\ t[i] = s[i]
      BY <1>1
    <2>2. n + 1 \in 1 .. n + 1
      BY <1>1
    <2> QED BY <1>1, <2>1, <2>2 DEF ToSet
  <1> QED BY <1>1, <1>2, <1>3 DEF t
LEMMA RestOfSequence ==
  ASSUME NEW T, NEW s \in Seq(T), NEW n \in Nat, n <= Len(s)
  PROVE  /\ SubSeq(s, n + 1, Len(s)) \in Seq(T)
         /\ ToSet(SubSeq(s, n + 1, Len(s))) \subseteq ToSet(s)
  <1> DEFINE l == Len(s)
             a == n + 1
             t == SubSeq(s, a, l)
  <1>1. l \in Nat /\ a \in 1 .. Len(s) + 1 /\ DOMAIN s = 1 .. l /\ l - a + 1 \in Nat
    OBVIOUS
  <1>2. t = [k \in 1 .. l - a + 1 |-> s[a + k - 1]]
    <2> HIDE DEF a
    <2> QED BY <1>1, SubSeqIs
  <1>3. \A k \in 1 .. l - a + 1 : a + k - 1 \in 1 .. l
    OBVIOUS
  <1>4. \A k \in 1 .. l : s[k] \in T
    OBVIOUS
  <1> HIDE DEF a, l, t
  <1>5. t \in Seq(T)
    BY <1>1, <1>2, <1>3, <1>4
  <1>6. ToSet(t) \subseteq ToSet(s)
    BY <1>1, <1>2, <1>3 DEF ToSet
  <1> QED BY <1>5, <1>6 DEF a, l, t

\* A packet is put where its time is still to come, or not at all.
LEMMA InsertGood ==
  ASSUME im_now \in Nat, NEW last \in 0 .. ImSlots - 1, NEW cut, NEW buffer,
         InSlots(buffer), NoneLeftBehind(buffer, last, cut), NEW p \in Nat, NEW d \in Nat
  PROVE  InSlots(Insert(buffer, p, d)) /\ NoneLeftBehind(Insert(buffer, p, d), last, cut)
  <1> DEFINE free == {k \in d .. ImSlots - 2 : Len(buffer[Slot(im_now + k)]) < im_mask}
             k == FirstFree(buffer, d)
             at == im_now + k
             i == Slot(at)
             e == [p |-> p, at |-> at]
             new == [buffer EXCEPT ![i] = Append(@, e)]
  <1>1. CASE k = -1
    BY <1>1 DEF Insert
  <1>2. CASE k # -1
    <2>1. k \in Nat /\ k <= ImSlots - 2
      <3>1. free # {} /\ k = Min(free)
        BY <1>2 DEF FirstFree
      <3>2. free \in SUBSET Nat /\ \A j \in free : j <= ImSlots - 2
        BY ImAssumption
      <3> HIDE DEF free
      <3>3. \E x \in free : \A y \in free : x <= y
        BY <3>1, <3>2, LeastNatural
      <3>4. Min(free) \in free
        BY <3>3 DEF Min
      <3> QED BY <3>1, <3>2, <3>4
    <2> HIDE DEF k
    <2>2. at \in Int /\ at >= im_now /\ at < im_now - 1 + ImSlots
      BY <2>1, ImAssumption
    <2>3. i \in 0 .. ImSlots - 1
      <3> HIDE DEF at
      <3> QED BY <2>2, ImAssumption, Division DEF Slot
    <2>4. e \in Waiting
      BY <2>2 DEF Waiting
    <2>5. Insert(buffer, p, d) = new
      BY <1>2 DEF Insert, k
    <2>6. buffer \in [0 .. ImSlots - 1 -> Seq(Waiting)]
      BY DEF InSlots
    <2>7. Base(last) \in Int /\ Base(last) <= im_now - 1
      BY BaseOfLast
    <2> HIDE DEF at, i
    <2>8. Slot(e.at) = i /\ e.at < im_now - 1 + ImSlots /\ e.at >= Base(last)
      BY <2>2, <2>7 DEF i
    <2> HIDE DEF e
    <2>9. Append(buffer[i], e) \in Seq(Waiting) /\ ToSet(Append(buffer[i], e)) = ToSet(buffer[i]) \cup {e}
      BY <2>3, <2>4, <2>6, AppendedSet
    <2>10. /\ new \in [0 .. ImSlots - 1 -> Seq(Waiting)]
           /\ \A j \in 0 .. ImSlots - 1 : ToSet(new[j]) = IF j = i THEN ToSet(buffer[j]) \cup {e} ELSE ToSet(buffer[j])
      <3> DEFINE q == Append(buffer[i], e)
      <3> HIDE DEF q
      <3>1. new = [buffer EXCEPT ![i] = q]
        BY DEF q
      <3> QED BY <2>3, <2>6, <2>9, <3>1 DEF q
    <2> HIDE DEF new
    <2>11. InSlots(new)
      <3>1. ASSUME NEW j \in 0 .. ImSlots - 1, NEW x \in ToSet(new[j])
            PROVE  Slot(x.at) = j /\ x.at < im_now - 1 + ImSlots
        BY <2>8, <2>10, <3>1 DEF InSlots
      <3> QED BY <2>10, <3>1 DEF InSlots
    <2>12. NoneLeftBehind(new, last, cut)
      <3>1. ASSUME NEW j \in 0 .. ImSlots - 1, NEW x \in ToSet(new[j])
            PROVE  x.at >= Base(last) \/ x \in cut
        BY <2>8, <2>10, <3>1 DEF NoneLeftBehind
      <3> QED BY <3>1 DEF NoneLeftBehind
    <2> QED BY <2>5, <2>11, <2>12
  <1> QED BY <1>1, <1>2

\* The slot of last_idx is emptied, or what is left of it is cut; nothing else
\* has the time of last_idx.
DrainGood(s) ==
  /\ s \in [buffer : [0 .. ImSlots - 1 -> Seq(Waiting)], last : 0 .. ImSlots - 1,
            left : Int, cut : SUBSET Waiting]
  /\ InSlots(s.buffer) /\ NoneLeftBehind(s.buffer, s.last, im_cut \cup s.cut)
LEMMA DrainSlotGood ==
  ASSUME im_now \in Nat, NEW s, DrainGood(s), s.left >= 0
  PROVE  DrainGood(DrainSlot(s)) /\ DrainSlot(s).left >= 0
  <1> DEFINE last == s.last
             buffer == s.buffer
             q == buffer[last]
             n == IF Len(q) < s.left THEN Len(q) ELSE s.left
             rest == SubSeq(q, n + 1, Len(q))
             new == [buffer EXCEPT ![last] = rest]
             next == Slot(last + 1)
             cut == s.cut \cup ToSet(rest)
             t == [buffer |-> new, last |-> next, left |-> s.left - n, cut |-> cut]
  <1>1. CASE s.left = 0 \/ s.last = Slot(im_now - 1)
    BY <1>1 DEF DrainSlot
  <1>2. CASE ~ (s.left = 0 \/ s.last = Slot(im_now - 1))
    <2>1. DrainSlot(s) = t
      BY <1>2 DEF DrainSlot
    <2>2. /\ last \in 0 .. ImSlots - 1 /\ buffer \in [0 .. ImSlots - 1 -> Seq(Waiting)]
          /\ s.left \in Int /\ s.cut \in SUBSET Waiting /\ q \in Seq(Waiting)
          /\ InSlots(buffer) /\ NoneLeftBehind(buffer, last, im_cut \cup s.cut)
      BY DEF DrainGood
    <2>3. n \in Nat /\ n <= Len(q) /\ s.left - n \in Int /\ s.left - n >= 0
      <3> DEFINE l == Len(q)
      <3>1. l \in Nat
        BY <2>2
      <3> HIDE DEF l, q
      <3> QED BY <2>2, <3>1 DEF l
    <2>4. /\ Base(last) \in Int /\ Slot(Base(last)) = last
          /\ Base(next) = Base(last) + 1
      BY <1>2, <2>2, BaseOfLast
    <2>5. next \in 0 .. ImSlots - 1
      <3>1. last + 1 \in Int
        BY <2>2, ImAssumption
      <3> HIDE DEF last
      <3> QED BY <3>1, ImAssumption, Division DEF Slot
    <2> HIDE DEF n, q, last, next
    <2>6. rest \in Seq(Waiting) /\ ToSet(rest) \subseteq ToSet(q)
      BY <2>2, <2>3, RestOfSequence
    <2> HIDE DEF rest, buffer
    <2>7. /\ new \in [0 .. ImSlots - 1 -> Seq(Waiting)]
          /\ \A j \in 0 .. ImSlots - 1 : new[j] = IF j = last THEN rest ELSE buffer[j]
      BY <2>2, <2>6
    <2>8. ToSet(rest) \subseteq Waiting
      BY <2>6 DEF ToSet
    <2>9. q = buffer[last]
      BY DEF q
    <2> HIDE DEF new
    <2>10. ASSUME NEW j \in 0 .. ImSlots - 1, NEW x \in ToSet(new[j])
           PROVE  x \in ToSet(buffer[j]) /\ x.at \in Int
      <3>1. x \in ToSet(buffer[j])
        BY <2>6, <2>7, <2>9
      <3>2. x \in Waiting
        BY <2>2, <3>1 DEF ToSet
      <3> QED BY <3>1, <3>2 DEF Waiting
    <2>11. InSlots(new)
      BY <2>2, <2>7, <2>10 DEF InSlots
    <2>12. NoneLeftBehind(new, next, im_cut \cup cut)
      <3>1. ASSUME NEW j \in 0 .. ImSlots - 1, NEW x \in ToSet(new[j])
            PROVE  x.at >= Base(next) \/ x \in im_cut \cup cut
        <4>1. CASE j = last
          BY <2>7, <4>1
        <4>2. CASE j # last
          <5>1. Slot(x.at) = j /\ (x.at >= Base(last) \/ x \in im_cut \cup s.cut)
            BY <2>2, <2>10 DEF InSlots, NoneLeftBehind
          <5>2. x.at # Base(last)
            BY <2>4, <4>2, <5>1
          <5> QED BY <2>4, <2>10, <5>1, <5>2
        <4> QED BY <4>1, <4>2
      <3> QED BY <3>1 DEF NoneLeftBehind
    <2> HIDE DEF cut
    <2>13. cut \in SUBSET Waiting
      BY <2>2, <2>8 DEF cut
    <2>14. t \in [buffer : [0 .. ImSlots - 1 -> Seq(Waiting)], last : 0 .. ImSlots - 1,
                  left : Int, cut : SUBSET Waiting]
      BY <2>3, <2>5, <2>7, <2>13
    <2>15. t.buffer = new /\ t.last = next /\ t.left = s.left - n /\ t.cut = cut
      OBVIOUS
    <2> HIDE DEF t
    <2> QED BY <2>1, <2>3, <2>11, <2>12, <2>14, <2>15 DEF DrainGood
  <1> QED BY <1>1, <1>2

LEMMA RandomKeepsSlots ==
  ASSUME ImTypeOK, SlotsInv, NEW n \in Nat, ImRandom(n), im_now' = im_now
  PROVE  SlotsInv' /\ im_last' \in 0 .. ImSlots - 1 /\ im_buffer' # <<>>
  <1>1. PICK ds \in [1 .. n -> 0 .. im_time_of - 1], copy \in -1 .. im_time_of - 1 :
          LET once == InsertAll(n, ds)
              all == IF n = 0 \/ copy = -1 THEN once ELSE Insert(once, im_arrived + n, copy)
              end == Drain(all)
          IN /\ im_buffer # <<>>
             /\ im_buffer' = end.buffer /\ im_last' = end.last
             /\ im_cut' = (im_cut \cup end.cut) \cap UNION {ToSet(end.buffer[i]) : i \in 0 .. ImSlots - 1}
    BY DEF ImRandom
  <1> DEFINE once == InsertAll(n, ds)
             all == IF n = 0 \/ copy = -1 THEN once ELSE Insert(once, im_arrived + n, copy)
             end == Drain(all)
             Good(b) == InSlots(b) /\ NoneLeftBehind(b, im_last, im_cut)
             S == {b \in [0 .. ImSlots - 1 -> Seq(Waiting)] : Good(b)}
             D == {s \in [buffer : [0 .. ImSlots - 1 -> Seq(Waiting)], last : 0 .. ImSlots - 1,
                          left : Int, cut : SUBSET Waiting] : DrainGood(s) /\ s.left >= 0}
  <1>2. im_buffer # <<>> /\ im_buffer' = end.buffer /\ im_last' = end.last
        /\ im_cut' = (im_cut \cup end.cut) \cap UNION {ToSet(end.buffer[i]) : i \in 0 .. ImSlots - 1}
    BY <1>1
  <1>3. im_now \in Nat /\ im_last \in 0 .. ImSlots - 1 /\ im_arrived \in Nat
    BY DEF ImTypeOK
  <1>4. \A b : Good(b) => b \in S
    BY DEF InSlots
  <1>5. im_buffer \in S
    BY <1>2, <1>4 DEF SlotsInv
  <1>6. \A b \in S, p \in Nat, d \in Nat : Insert(b, p, d) \in S
    <2>1. ASSUME NEW b \in S, NEW p \in Nat, NEW d \in Nat PROVE Good(Insert(b, p, d))
      BY <1>3, InsertGood
    <2> HIDE DEF Good
    <2> QED BY <1>4, <2>1
  <1> HIDE DEF S, once
  <1>7. once \in S
    <2>1. \A k \in 1 .. n : ds[k] \in Nat /\ im_arrived + k \in Nat
      BY <1>3
    <2> QED BY <1>5, <1>6, <2>1, InsertAllStays DEF once
  <1>8. all \in S
    <2>1. im_arrived + n \in Nat /\ (copy = -1 \/ copy \in Nat)
      <3>1. im_time_of \in Nat
        BY ImAssumption DEF ImTypeOK, Settings
      <3> QED BY <1>3, <3>1
    <2> QED BY <1>6, <1>7, <2>1
  <1> HIDE DEF all
  <1>9. DrainStart(all) \in D
    <2> DEFINE s == DrainStart(all)
    <2>1. /\ s = [buffer |-> all, last |-> im_last, left |-> ImBurst, cut |-> {}]
          /\ all \in [0 .. ImSlots - 1 -> Seq(Waiting)] /\ Good(all) /\ ImBurst \in Int /\ ImBurst >= 0
      BY <1>8, ImAssumption DEF S, DrainStart
    <2>2. s \in [buffer : [0 .. ImSlots - 1 -> Seq(Waiting)], last : 0 .. ImSlots - 1,
                 left : Int, cut : SUBSET Waiting]
      BY <1>3, <2>1
    <2>3. s.buffer = all /\ s.last = im_last /\ s.left = ImBurst /\ im_cut \cup s.cut = im_cut
      BY <2>1
    <2> HIDE DEF s
    <2> QED BY <2>1, <2>2, <2>3 DEF DrainGood, s
  <1>10. \A s \in D : DrainSlot(s) \in D
    BY <1>3, DrainSlotGood DEF DrainGood
  <1> HIDE DEF D
  <1>11. end \in D
    BY <1>9, <1>10, DrainStays
  <1> HIDE DEF end
  <1>12. /\ InSlots(end.buffer) /\ NoneLeftBehind(end.buffer, end.last, im_cut \cup end.cut)
         /\ end.last \in 0 .. ImSlots - 1
         /\ end.buffer \in [0 .. ImSlots - 1 -> Seq(Waiting)]
    BY <1>11 DEF D, DrainGood
  <1>13. NoneLeftBehind(end.buffer, end.last, im_cut')
    <2>1. ASSUME NEW i \in 0 .. ImSlots - 1, NEW e \in ToSet(end.buffer[i])
          PROVE  e.at >= Base(end.last) \/ e \in im_cut'
      <3>1. e.at >= Base(end.last) \/ e \in im_cut \cup end.cut
        BY <1>12 DEF NoneLeftBehind
      <3>2. e \in UNION {ToSet(end.buffer[j]) : j \in 0 .. ImSlots - 1}
        OBVIOUS
      <3> QED BY <1>2, <3>1, <3>2
    <2> QED BY <2>1 DEF NoneLeftBehind
  <1>14. InSlots(im_buffer)' /\ NoneLeftBehind(im_buffer, im_last, im_cut)'
    BY <1>2, <1>12, <1>13 DEF InSlots, NoneLeftBehind, Base, Slot
  <1>15. im_buffer' # <<>>
    <2>1. 0 \in 0 .. ImSlots - 1
      BY ImAssumption
    <2>2. DOMAIN im_buffer' = 0 .. ImSlots - 1
      BY <1>2, <1>12
    <2>3. 0 \in DOMAIN im_buffer'
      BY <2>1, <2>2
    <2> QED BY ONLY <2>3
  <1> QED BY <1>2, <1>12, <1>14, <1>15 DEF SlotsInv

\* Rings and slots that are made are not NULL, and empty.
LEMMA NewQueues ==
  ASSUME NEW mask \in Nat
  PROVE  /\ EmptyRing(mask) # <<>> /\ RingHolds(EmptyRing(mask), mask, 0, 0, <<>>)
         /\ EmptyBuffer # <<>> /\ EmptyBuffer \in [0 .. ImSlots - 1 -> Seq(Waiting)]
         /\ \A i \in 0 .. ImSlots - 1 : ToSet(EmptyBuffer[i]) = {}
  <1>1. 0 \in DOMAIN EmptyRing(mask)
    BY DEF EmptyRing
  <1>2. EmptyRing(mask) \in [0 .. mask -> [p : Nat, tsc : Nat]]
    <2>1. [p |-> 0, tsc |-> 0] \in [p : Nat, tsc : Nat]
      OBVIOUS
    <2> QED BY <2>1 DEF EmptyRing
  <1>3. Len(<<>>) = 0 /\ (0 - 0) % (mask + 1) = 0
    <2>1. mask + 1 \in Nat \ {0} /\ 0 \in 0 .. (mask + 1 - 1)
      OBVIOUS
    <2>2. 0 % (mask + 1) = 0
      BY <2>1, RemainderSmall
    <2> QED BY <2>2
  <1>4. RingHolds(EmptyRing(mask), mask, 0, 0, <<>>)
    BY <1>2, <1>3 DEF RingHolds
  <1>5. 0 \in DOMAIN EmptyBuffer
    BY ImAssumption DEF EmptyBuffer
  <1>6. \A i \in 0 .. ImSlots - 1 : EmptyBuffer[i] = <<>>
    BY DEF EmptyBuffer
  <1>7. EmptyBuffer \in [0 .. ImSlots - 1 -> Seq(Waiting)]
    BY DEF EmptyBuffer
  <1>8. EmptyRing(mask) # <<>>
    BY ONLY <1>1
  <1>9. EmptyBuffer # <<>>
    BY ONLY <1>5
  <1>10. ToSet(<<>>) = {}
    BY DEF ToSet
  <1> QED BY <1>4, <1>6, <1>7, <1>8, <1>9, <1>10

LEMMA MaskIsNat ==
  ASSUME NEW d \in Settings PROVE MaskFor(d) \in Nat
  BY ImAssumption DEF Settings, MaskFor

LEMMA HandlerIs ==
  ASSUME NEW r \in Settings, NEW d \in Settings
  PROVE  /\ HandlerFor(r, d) \in Handlers
         /\ HandlerFor(r, d) = "delay" => r = 0 /\ d > 0
         /\ HandlerFor(r, d) = "random" => r > 0
  <1>1. r \in Nat /\ d \in Nat
    BY ImAssumption DEF Settings
  <1>2. CASE r > 0
    BY <1>1, <1>2 DEF HandlerFor, Handlers
  <1>3. CASE r = 0 /\ d = 0
    BY <1>1, <1>3 DEF HandlerFor, Handlers
  <1>4. CASE r = 0 /\ d > 0
    BY <1>1, <1>4 DEF HandlerFor, Handlers
  <1> QED BY <1>1, <1>2, <1>3, <1>4

LEMMA ImpairInit == ImInit => ImpairInv
  <1> SUFFICES ASSUME ImInit PROVE ImpairInv
    OBVIOUS
  <1> USE DEF ImInit
  <1> DEFINE random == im_asked.random
             delay == im_asked.delay
  <1>1. /\ random \in Settings /\ delay \in Settings /\ im_asked \in [random : Settings, delay : Settings]
        /\ im_random \in Settings /\ im_delay \in Settings /\ OneDelay(im_random, im_delay)
    BY DEF Settings, OneDelay
  <1>2. im_mask \in Nat
    BY <1>1, MaskIsNat
  <1>3. ImTypeOK
    BY <1>1, <1>2, HandlerIs, ImAssumption DEF ImTypeOK
  <1>4. RingInv
    BY <1>2, NewQueues DEF RingInv
  <1>5. SlotsInv
    BY <1>2, NewQueues DEF SlotsInv, InSlots, NoneLeftBehind
  <1>6. TodoInv /\ AskedInv
    BY <1>1 DEF TodoInv, AskedInv, NeverWritten
  <1>7. QuietInv
    BY <1>1, <1>2, NewQueues, HandlerIs DEF QuietInv, Begun, NeverWritten
  <1> QED BY <1>3, <1>4, <1>5, <1>6, <1>7 DEF ImpairInv

-----------------------------------------------------------------------------
(***************************************************************************)
(* Impairment: the steps.                                                  *)
(***************************************************************************)

LEMMA SlotsStay ==
  ASSUME SlotsInv, UNCHANGED <<im_slots, im_now>> PROVE SlotsInv'
  BY DEF SlotsInv, im_slots, InSlots, NoneLeftBehind, Base, Slot
LEMMA RingStays ==
  ASSUME RingInv, UNCHANGED im_queue, im_pc' # "alloc" PROVE RingInv'
  BY DEF RingInv, im_queue, RingHolds
LEMMA TodoStays ==
  ASSUME TodoInv, AskedInv, UNCHANGED im_settings PROVE TodoInv' /\ AskedInv'
  BY DEF TodoInv, AskedInv, NeverWritten, Begun, im_settings

LEMMA CommandStep == ASSUME ImpairInv, ImCommand PROVE ImpairInv'
  <1> USE DEF ImCommand, ImpairInv
  <1>1. ImTypeOK'
    BY DEF ImTypeOK, im_queue, im_slots
  <1>2. RingInv'
    BY RingStays DEF RingInv, im_queue, im_slots, RingHolds
  <1>3. SlotsInv'
    BY SlotsStay
  <1>4. \/ \E v \in ImDelays : im_todo' \in {SetDelayUs(v, 0), SetDelayUs(0, v)}
        \/ im_todo' = SetProbaDelay
    OBVIOUS
  <1>5. OneDelay(im_random, im_delay)
    BY DEF TodoInv, SetDelayUs, SetProbaDelay
  <1>6. TodoInv'
    <2>1. \A v \in ImDelays \cup {0} : v \in Settings /\ OneDelay(v, 0) /\ OneDelay(0, v)
      BY DEF Settings, OneDelay
    <2>2. OneDelay(im_random, im_delay)'
      BY <1>5 DEF OneDelay
    <2>3. 0 \in Settings
      BY DEF Settings
    <2>4. CASE im_todo' = SetProbaDelay
      BY <2>1, <2>2, <2>3, <2>4 DEF TodoInv
    <2>5. CASE \E v \in ImDelays : im_todo' \in {SetDelayUs(v, 0), SetDelayUs(0, v)}
      BY <2>1, <2>2, <2>3, <2>5 DEF TodoInv
    <2> QED BY <1>4, <2>4, <2>5
  <1>7. ~ Begun /\ ~ Begun'
    BY <1>4 DEF Begun, SetDelayUs, SetProbaDelay
  <1>8. AskedInv'
    BY <1>7 DEF AskedInv, NeverWritten
  <1>9. QuietInv'
    BY <1>7 DEF QuietInv, NeverWritten, im_queue, im_slots
  <1> QED BY <1>1, <1>2, <1>3, <1>6, <1>8, <1>9

LEMMA WriteStep == ASSUME ImpairInv, ImWrite PROVE ImpairInv'
  <1> USE DEF ImpairInv
  <1> DEFINE w == Head(im_todo)
  <1>0. /\ im_todo # <<>>
        /\ im_flag' = (w.to = "flag" \/ im_flag)
        /\ im_random' = IF w.to = "random" THEN w.val ELSE im_random
        /\ im_delay' = IF w.to = "delay" THEN w.val ELSE im_delay
        /\ im_asked' = IF w.to = "delay" THEN [random |-> im_random, delay |-> w.val] ELSE im_asked
        /\ im_todo' = Tail(im_todo)
        /\ im_raced' = (im_raced \/ im_pc \in {"drain", "alloc"})
        /\ UNCHANGED <<im_changes, im_pc, im_bulk, im_time_of, im_queue, im_slots, im_now, im_arrived, im_since>>
    BY DEF ImWrite
  <1>1. PICK v, x \in Settings :
          /\ OneDelay(v, x)
          /\ \/ im_todo \in {SetDelayUs(v, x), SetProbaDelay} /\ OneDelay(im_random, im_delay)
             \/ im_todo = <<[to |-> "random", val |-> v], [to |-> "delay", val |-> x]>>
             \/ im_todo = <<[to |-> "delay", val |-> x]>> /\ im_random = v
    BY <1>0 DEF TodoInv
  <1>5. CASE im_todo = SetProbaDelay
    <2>1. w.to = "flag" /\ im_todo' = <<>>
      BY <1>0, <1>5 DEF SetProbaDelay
    <2>2. im_flag' = TRUE /\ UNCHANGED <<im_random, im_delay, im_asked>>
      BY <1>0, <2>1
    <2>3. OneDelay(im_random, im_delay)
      BY <1>1, <1>5 DEF SetProbaDelay, SetDelayUs
    <2>4. ImTypeOK'
      BY <1>0, <2>2 DEF ImTypeOK, im_queue, im_slots
    <2>5. TodoInv'
      BY <2>1, <2>2, <2>3 DEF TodoInv, OneDelay
    <2>6. ~ Begun' /\ ~ Begun
      BY <2>1 DEF Begun
    <2>7. AskedInv'
      BY <2>2, <2>6 DEF AskedInv, NeverWritten
    <2>8. QuietInv'
      BY <1>0, <2>2, <2>6 DEF QuietInv, im_queue, im_slots, ImTypeOK
    <2> QED BY <1>0, <2>4, <2>5, <2>7, <2>8, SlotsStay DEF RingInv, im_queue, im_slots, RingHolds
  <1>2. CASE im_todo = SetDelayUs(v, x)
    <2>1. /\ w.to = "flag" /\ im_todo' = <<[to |-> "random", val |-> x], [to |-> "delay", val |-> v]>>
      <3>1. SetDelayUs(v, x)[1].to = "flag"
        BY DEF SetDelayUs
      <3>2. Tail(SetDelayUs(v, x)) = <<[to |-> "random", val |-> x], [to |-> "delay", val |-> v]>>
        <4> DEFINE A == [to |-> "flag"]
                   B == [to |-> "random", val |-> x]
                   C == [to |-> "delay", val |-> v]
        <4>1. SetDelayUs(v, x) = <<A, B, C>>
          BY DEF SetDelayUs
        <4> HIDE DEF A, B, C
        <4>2. Tail(<<A, B, C>>) = <<B, C>>
          OBVIOUS
        <4> QED BY <4>1, <4>2 DEF B, C
      <3> QED BY <1>0, <1>2, <3>1, <3>2
    <2>2. im_flag' = TRUE /\ im_random' = im_random /\ im_delay' = im_delay /\ im_asked' = im_asked
      BY <1>0, <2>1
    <2>3. Head(im_todo').to = "random" /\ im_todo' # <<>>
      BY <2>1
    <2>4. ImTypeOK'
      BY <1>0, <2>2 DEF ImTypeOK, im_queue, im_slots
    <2>5. TodoInv'
      BY <1>1, <2>1 DEF TodoInv, OneDelay
    <2>6. Begun' /\ ~ Begun
      BY <2>1, <2>3 DEF Begun
    <2>7. QuietInv'
      BY <1>0, <2>2, <2>6 DEF QuietInv, im_queue, im_slots, ImTypeOK
    <2>8. AskedInv'
      BY <2>6 DEF AskedInv
    <2> QED BY <1>0, <2>4, <2>5, <2>7, <2>8, SlotsStay DEF RingInv, im_queue, im_slots, RingHolds
  <1>3. CASE im_todo = <<[to |-> "random", val |-> v], [to |-> "delay", val |-> x]>>
    <2>1. w.to = "random" /\ w.val = v /\ im_todo' = <<[to |-> "delay", val |-> x]>>
      BY <1>0, <1>3
    <2>2. im_flag' = im_flag /\ im_random' = v /\ im_delay' = im_delay /\ im_asked' = im_asked
      BY <1>0, <2>1 DEF ImTypeOK
    <2>3. Head(im_todo').to = "delay" /\ im_todo' # <<>>
      BY <2>1
    <2>4. ImTypeOK'
      BY <1>0, <2>2 DEF ImTypeOK, im_queue, im_slots
    <2>5. TodoInv'
      BY <1>1, <2>1, <2>2 DEF TodoInv
    <2>6. Begun' /\ Begun
      BY <1>0, <2>1, <2>3 DEF Begun
    <2>7. QuietInv'
      BY <1>0, <2>2, <2>6 DEF QuietInv, im_queue, im_slots, ImTypeOK
    <2>8. AskedInv'
      BY <2>6 DEF AskedInv
    <2> QED BY <1>0, <2>4, <2>5, <2>7, <2>8, SlotsStay DEF RingInv, im_queue, im_slots, RingHolds
  <1>4. CASE im_todo = <<[to |-> "delay", val |-> x]>> /\ im_random = v
    <2>1. w.to = "delay" /\ w.val = x /\ im_todo' = <<>>
      BY <1>0, <1>4
    <2>2. im_flag' = im_flag /\ im_random' = v /\ im_delay' = x /\ im_asked' = [random |-> v, delay |-> x]
      BY <1>0, <1>4, <2>1 DEF ImTypeOK
    <2>3. AskedInv'
      BY <2>2 DEF AskedInv
    <2>4. ImTypeOK'
      BY <1>0, <2>2 DEF ImTypeOK, im_queue, im_slots
    <2>5. TodoInv'
      BY <1>1, <2>1, <2>2 DEF TodoInv
    <2>6. ~ Begun' /\ Begun
      BY <1>0, <2>1 DEF Begun
    <2>7. QuietInv'
      BY <1>0, <2>2, <2>6 DEF QuietInv, im_queue, im_slots, ImTypeOK
    <2> QED BY <1>0, <2>3, <2>4, <2>5, <2>7, SlotsStay DEF RingInv, im_queue, im_slots, RingHolds
  <1> QED BY <1>1, <1>2, <1>3, <1>4, <1>5

LEMMA TickStep == ASSUME ImpairInv, ImTick PROVE ImpairInv'
  <1> USE DEF ImTick, ImpairInv
  <1>1. ImTypeOK'
    BY DEF ImTypeOK, im_settings, im_queue, im_slots
  <1>2. RingInv'
    BY DEF RingInv, im_queue, im_slots, RingHolds
  <1>3. SlotsInv'
    <2> SUFFICES ASSUME im_buffer # <<>> PROVE InSlots(im_buffer)' /\ NoneLeftBehind(im_buffer, im_last, im_cut)'
      BY DEF SlotsInv, im_slots
    <2>1. im_now \in Nat /\ im_last \in 0 .. ImSlots - 1 /\ im_now' = im_now + 1
          /\ im_buffer' = im_buffer /\ im_last' = im_last /\ im_cut' = im_cut
      BY DEF ImTypeOK, im_slots
    <2>2. InSlots(im_buffer) /\ NoneLeftBehind(im_buffer, im_last, im_cut)
      BY DEF SlotsInv
    <2>3. im_now' - 1 - ((im_now' - 1 - im_last) % ImSlots) = Base(im_last)
      BY <2>1, BaseLater
    <2>4. ASSUME NEW i \in 0 .. ImSlots - 1, NEW e \in ToSet(im_buffer[i])
          PROVE  e.at \in Int
      <3>1. im_buffer[i] \in Seq(Waiting)
        BY <2>2 DEF InSlots
      <3>2. e \in Waiting
        BY <3>1 DEF ToSet
      <3> QED BY <3>2 DEF Waiting
    <2>5. InSlots(im_buffer)'
      <3>1. ASSUME NEW i \in 0 .. ImSlots - 1, NEW e \in ToSet(im_buffer[i])
            PROVE  Slot(e.at) = i /\ e.at < im_now' - 1 + ImSlots
        <4>1. Slot(e.at) = i /\ e.at < im_now - 1 + ImSlots
          BY <2>2 DEF InSlots
        <4> QED BY <2>1, <2>4, <4>1, ImAssumption
      <3> QED BY <2>1, <2>2, <3>1 DEF InSlots, Slot
    <2>6. NoneLeftBehind(im_buffer, im_last, im_cut)'
      BY <2>1, <2>2, <2>3 DEF NoneLeftBehind, Base
    <2> QED BY <2>5, <2>6
  <1>4. TodoInv' /\ AskedInv'
    BY TodoStays
  <1>5. QuietInv'
    BY DEF QuietInv, NeverWritten, Begun, im_settings, im_queue, im_slots
  <1> QED BY <1>1, <1>2, <1>3, <1>4, <1>5

LEMMA CallStep == ASSUME ImpairInv, NEW n \in ImSizes, ImCall(n) PROVE ImpairInv'
  <1> USE DEF ImpairInv
  <1>0. n \in Nat /\ im_arrived' = im_arrived + n /\ im_arrived \in Nat /\ im_pc = "call"
        /\ UNCHANGED <<im_settings, im_bulk, im_time_of, im_now, im_since, im_raced>>
    BY ImAssumption DEF ImCall, ImTypeOK
  <1>1. TodoInv' /\ AskedInv'
    BY <1>0, TodoStays
  <1>2. CASE ImDelay(n) /\ im_pc' = "update"
    <2> DEFINE take == Taken(n)
               head == (im_head + take) % (im_mask + 1)
               ring == StoreAt(take)
               due == DueFrom(ring, head)
               fifo == im_fifo \o [k \in 1 .. take |-> im_arrived + k]
    <2>1. /\ im_bulk = "delay" /\ im_ring # <<>>
          /\ im_ring' = ring /\ im_head' = head
          /\ im_tail' = (im_tail + due) % (im_mask + 1)
          /\ im_fifo' = SubSeq(fifo, due + 1, Len(im_fifo) + take)
          /\ UNCHANGED <<im_mask, im_slots>>
      BY <1>2 DEF ImDelay
    <2>2. im_fifo \in Seq(Nat) /\ RingHolds(im_ring, im_mask, im_head, im_tail, im_fifo) /\ ImTypeOK
      BY <2>1 DEF RingInv
    <2>3. /\ take \in Nat /\ fifo \in Seq(Nat) /\ Len(fifo) = Len(im_fifo) + take
          /\ RingHolds(ring, im_mask, head, im_tail, fifo)
      BY <1>0, <2>2, RingFilled
    <2>4. ring # <<>>
      <3>1. ring \in [0 .. im_mask -> [p : Nat, tsc : Nat]] /\ im_mask \in Nat
        BY <2>2, <2>3 DEF RingHolds, ImTypeOK
      <3> HIDE DEF ring
      <3>2. 0 \in DOMAIN ring
        BY <3>1
      <3> QED BY ONLY <3>2
    <2> HIDE DEF fifo, ring, head, take
    <2>5. /\ due \in Nat /\ due <= Len(fifo)
          /\ SubSeq(fifo, due + 1, Len(fifo)) \in Seq(Nat)
          /\ RingHolds(ring, im_mask, head, (im_tail + due) % (im_mask + 1), SubSeq(fifo, due + 1, Len(fifo)))
      BY <2>2, <2>3, RingSent
    <2>6. im_fifo' \in Seq(Nat) /\ RingHolds(ring, im_mask, im_head', im_tail', im_fifo')
      BY <2>1, <2>3, <2>5
    <2>7. RingInv'
      BY <1>2, <2>1, <2>4, <2>6 DEF RingInv, RingHolds
    <2>8. ImTypeOK'
      BY <1>0, <1>2, <2>1 DEF ImTypeOK, im_settings, im_slots
    <2>9. SlotsInv'
      BY <1>0, <2>1, SlotsStay
    <2>10. QuietInv'
      BY <1>0, <1>2, <2>1, <2>4 DEF QuietInv, NeverWritten, Begun, im_settings, im_slots
    <2> QED BY <1>1, <2>7, <2>8, <2>9, <2>10
  <1>3. CASE ImRandom(n) /\ im_pc' = "update"
    <2>1. SlotsInv' /\ im_last' \in 0 .. ImSlots - 1 /\ im_buffer' # <<>> /\ UNCHANGED im_queue
          /\ im_bulk = "random"
      <3>1. SlotsInv' /\ im_last' \in 0 .. ImSlots - 1 /\ im_buffer' # <<>>
        BY <1>0, <1>3, RandomKeepsSlots
      <3> QED BY <1>3, <3>1 DEF ImRandom
    <2>2. RingInv'
      BY <1>3, <2>1, RingStays
    <2>3. ImTypeOK'
      BY <1>0, <1>3, <2>1 DEF ImTypeOK, im_settings, im_queue
    <2>4. QuietInv'
      BY <1>0, <1>3, <2>1 DEF QuietInv, NeverWritten, Begun, im_settings, im_queue
    <2> QED BY <1>1, <2>1, <2>2, <2>3, <2>4
  <1>4. CASE im_pc' = "update" /\ (ImDrop(n) \/ (FindsNothing(n) /\ UNCHANGED <<im_queue, im_slots>>))
    <2>1. UNCHANGED <<im_queue, im_slots>>
      BY <1>4 DEF ImDrop
    <2>2. ImTypeOK'
      BY <1>0, <1>4, <2>1 DEF ImTypeOK, im_settings, im_queue, im_slots
    <2>3. QuietInv'
      BY <1>0, <1>4, <2>1 DEF QuietInv, NeverWritten, Begun, im_settings, im_queue, im_slots
    <2> QED BY <1>0, <1>1, <1>4, <2>1, <2>2, <2>3, RingStays, SlotsStay
  <1>5. CASE Dereferences(n) /\ im_pc' = "crash" /\ UNCHANGED <<im_queue, im_slots>>
    <2>1. im_raced
      BY <1>0, <1>5 DEF QuietInv, Dereferences
    <2>2. ImTypeOK'
      BY <1>0, <1>5 DEF ImTypeOK, im_settings, im_queue, im_slots
    <2>3. QuietInv'
      BY <1>0, <2>1 DEF QuietInv
    <2> QED BY <1>0, <1>1, <1>5, <2>2, <2>3, RingStays, SlotsStay
  <1>6. \/ (ImDelay(n) \/ ImRandom(n) \/ ImDrop(n)) /\ im_pc' = "update"
        \/ FindsNothing(n) /\ im_pc' = "update" /\ UNCHANGED <<im_queue, im_slots>>
        \/ Dereferences(n) /\ im_pc' = "crash" /\ UNCHANGED <<im_queue, im_slots>>
    BY DEF ImCall
  <1> QED BY <1>2, <1>3, <1>4, <1>5, <1>6

LEMMA UpdateStep == ASSUME ImpairInv, ImUpdate PROVE ImpairInv'
  <1> USE DEF ImUpdate, ImpairInv
  <1>1. RingInv' /\ SlotsInv'
    BY RingStays, SlotsStay
  <1>2. im_random \in Settings /\ im_delay \in Settings
    BY DEF ImTypeOK
  <1>3. ImTypeOK'
    BY <1>2, HandlerIs DEF ImTypeOK, im_queue, im_slots
  <1>4. TodoInv' /\ AskedInv'
    BY DEF TodoInv, AskedInv, NeverWritten, Begun
  <1>5. QuietInv'
    <2>1. CASE ~ im_flag
      BY <2>1 DEF QuietInv, NeverWritten, Begun, im_queue, im_slots
    <2>2. CASE im_flag
      BY <2>2 DEF QuietInv, Begun, ImTypeOK
    <2> QED BY <2>1, <2>2 DEF ImTypeOK
  <1> QED BY <1>1, <1>3, <1>4, <1>5

LEMMA DrainStep == ASSUME ImpairInv, ImDrain PROVE ImpairInv'
  <1> USE DEF ImpairInv
  <1> DEFINE due == IF im_ring = <<>> THEN 0 ELSE DueFrom(im_ring, im_head)
  <1>0. /\ im_pc = "drain"
        /\ due > 0 \/ im_ring = <<>> \/ im_tail = im_head
        /\ im_fifo' = SubSeq(im_fifo, due + 1, Len(im_fifo))
        /\ IF im_ring # <<>> /\ im_tail # im_head
           THEN im_tail' = (im_tail + due) % (im_mask + 1) /\ UNCHANGED <<im_ring, im_pc, im_buffer>>
           ELSE im_ring' = <<>> /\ im_buffer' = <<>> /\ im_pc' = "alloc" /\ UNCHANGED im_tail
        /\ im_cut' = IF im_pc' = "alloc" THEN {} ELSE im_cut
        /\ im_last' = IF im_pc' = "alloc" /\ im_buffer # <<>> THEN Slot(im_since - 1) ELSE im_last
        /\ UNCHANGED <<im_settings, im_bulk, im_time_of, im_mask, im_head, im_now, im_arrived, im_since, im_raced>>
    BY DEF ImDrain
  <1>1. TodoInv' /\ AskedInv'
    BY <1>0, TodoStays
  <1>2. CASE im_ring # <<>> /\ im_tail # im_head
    <2>1. im_fifo \in Seq(Nat) /\ RingHolds(im_ring, im_mask, im_head, im_tail, im_fifo) /\ due = DueFrom(im_ring, im_head)
      BY <1>2 DEF RingInv
    <2> HIDE DEF due
    <2>2. /\ due \in Nat /\ due <= Len(im_fifo)
          /\ SubSeq(im_fifo, due + 1, Len(im_fifo)) \in Seq(Nat)
          /\ RingHolds(im_ring, im_mask, im_head, (im_tail + due) % (im_mask + 1), SubSeq(im_fifo, due + 1, Len(im_fifo)))
      BY <2>1, RingSent
    <2>3. RingHolds(im_ring, im_mask, im_head, im_tail', im_fifo') /\ im_fifo' \in Seq(Nat)
          /\ UNCHANGED <<im_ring, im_mask, im_head, im_pc, im_buffer>>
      BY <1>0, <1>2, <2>2
    <2>4. RingInv'
      BY <1>0, <1>2, <2>3 DEF RingInv, RingHolds
    <2>5. im_cut' = im_cut /\ im_last' = im_last
      BY <1>0, <2>3
    <2>6. SlotsInv'
      BY <1>0, <2>3, <2>5, SlotsStay DEF im_slots
    <2>7. ImTypeOK'
      BY <1>0, <2>3, <2>5 DEF ImTypeOK, im_settings
    <2>8. QuietInv'
      BY <1>0, <2>3 DEF QuietInv, NeverWritten, Begun, im_settings
    <2> QED BY <1>1, <2>4, <2>6, <2>7, <2>8
  <1>3. CASE ~ (im_ring # <<>> /\ im_tail # im_head)
    <2>1. /\ im_ring' = <<>> /\ im_buffer' = <<>> /\ im_pc' = "alloc" /\ UNCHANGED im_tail
      BY <1>0, <1>3
    <2>2. im_fifo \in Seq(Nat) /\ Len(im_fifo) = 0
      <3>1. CASE im_ring = <<>>
        BY <3>1 DEF RingInv
      <3>2. CASE im_ring # <<>> /\ im_tail = im_head
        <4>1. im_fifo \in Seq(Nat) /\ Len(im_fifo) = (im_head - im_head) % (im_mask + 1)
              /\ im_head \in 0 .. im_mask /\ im_mask \in Nat
          BY <3>2 DEF RingInv, RingHolds, ImTypeOK
        <4>2. im_head - im_head = 0 /\ im_mask + 1 \in Nat \ {0} /\ 0 \in 0 .. (im_mask + 1 - 1)
          BY <4>1
        <4>3. 0 % (im_mask + 1) = 0
          BY <4>2, RemainderSmall
        <4> QED BY <4>1, <4>2, <4>3
      <3> QED BY <1>3, <3>1, <3>2
    <2>3. im_fifo' = <<>>
      <3>1. im_fifo = <<>>
        BY <2>2
      <3>2. due \in Nat
        <4>1. CASE im_ring # <<>>
          <5>1. RingHolds(im_ring, im_mask, im_head, im_tail, im_fifo) /\ due = DueFrom(im_ring, im_head)
            BY <4>1 DEF RingInv
          <5> HIDE DEF due
          <5> QED BY <2>2, <5>1, RingSent
        <4>2. CASE im_ring = <<>>
          BY <4>2
        <4> QED BY <4>1, <4>2
      <3> HIDE DEF due
      <3>3. im_fifo' = SubSeq(<<>>, due + 1, 0)
        BY <1>0, <2>2, <3>1
      <3>4. due + 1 \in Nat /\ due + 1 > 0
        BY <3>2
      <3> QED BY <3>3, <3>4
    <2>4. RingInv'
      BY <2>1, <2>3 DEF RingInv
    <2>5. SlotsInv'
      BY <2>1 DEF SlotsInv
    <2>6. ImTypeOK'
      <3>1. Slot(im_since - 1) \in 0 .. ImSlots - 1
        BY ImAssumption DEF ImTypeOK, Slot
      <3>2. im_last' \in 0 .. ImSlots - 1
        BY <1>0, <3>1 DEF ImTypeOK
      <3> QED BY <1>0, <2>1, <3>2 DEF ImTypeOK, im_settings
    <2>7. QuietInv'
      BY <1>0, <2>1 DEF QuietInv, NeverWritten, Begun, im_settings
    <2> QED BY <1>1, <2>4, <2>5, <2>6, <2>7
  <1> QED BY <1>2, <1>3

LEMMA AllocStep == ASSUME ImpairInv, ImAlloc PROVE ImpairInv'
  <1> USE DEF ImpairInv
  <1>0. /\ im_pc = "alloc" /\ im_pc' = "call"
        /\ im_mask' = IF im_bulk = "delay" THEN MaskFor(im_time_of) ELSE ImBurst - 1
        /\ IF im_delay > 0
           THEN im_ring' = EmptyRing(im_mask') /\ im_head' = 0 /\ im_tail' = 0 /\ UNCHANGED im_buffer
           ELSE /\ im_buffer' = IF im_random > 0 THEN EmptyBuffer ELSE im_buffer
                /\ UNCHANGED <<im_ring, im_head, im_tail>>
        /\ UNCHANGED <<im_settings, im_bulk, im_time_of, im_fifo, im_last, im_cut, im_now, im_arrived, im_since, im_raced>>
    BY DEF ImAlloc
  <1>1. im_ring = <<>> /\ im_buffer = <<>> /\ im_fifo = <<>>
    BY <1>0 DEF RingInv
  <1>2. im_mask' \in Nat /\ im_random \in Settings /\ im_delay \in Settings
    <2>1. im_time_of \in Settings /\ im_random \in Settings /\ im_delay \in Settings
      BY DEF ImTypeOK
    <2>2. MaskFor(im_time_of) \in Nat /\ ImBurst - 1 \in Nat
      BY <2>1, MaskIsNat, ImAssumption
    <2> QED BY <1>0, <2>1, <2>2
  <1>3. TodoInv' /\ AskedInv'
    BY <1>0, TodoStays
  <1>4. ImTypeOK'
    BY <1>0, <1>2 DEF ImTypeOK, im_settings
  <1>5. /\ EmptyRing(im_mask') # <<>> /\ RingHolds(EmptyRing(im_mask'), im_mask', 0, 0, <<>>)
        /\ EmptyBuffer # <<>> /\ EmptyBuffer \in [0 .. ImSlots - 1 -> Seq(Waiting)]
        /\ \A i \in 0 .. ImSlots - 1 : ToSet(EmptyBuffer[i]) = {}
    <2> DEFINE m == im_mask'
    <2>1. m \in Nat
      BY <1>2
    <2> HIDE DEF m
    <2>2. /\ EmptyRing(m) # <<>> /\ RingHolds(EmptyRing(m), m, 0, 0, <<>>)
          /\ EmptyBuffer # <<>> /\ EmptyBuffer \in [0 .. ImSlots - 1 -> Seq(Waiting)]
          /\ \A i \in 0 .. ImSlots - 1 : ToSet(EmptyBuffer[i]) = {}
      BY <2>1, NewQueues
    <2> QED BY <2>2 DEF m
  <1>6. CASE im_delay > 0
    <2>1. im_ring' = EmptyRing(im_mask') /\ im_head' = 0 /\ im_tail' = 0 /\ im_buffer' = <<>> /\ im_fifo' = <<>>
      BY <1>0, <1>1, <1>6
    <2>2. im_ring' # <<>> /\ RingHolds(im_ring', im_mask', im_head', im_tail', im_fifo')
      BY <1>5, <2>1
    <2>3. im_fifo' \in Seq(Nat)
      BY <2>1
    <2>4. RingInv'
      BY <1>0, <2>2, <2>3 DEF RingInv, RingHolds
    <2>5. SlotsInv'
      BY <2>1 DEF SlotsInv
    <2>6. ~ im_raced => im_bulk # "random"
      <3> SUFFICES ASSUME ~ im_raced, im_bulk = "random" PROVE FALSE
        OBVIOUS
      <3>1. ~ Begun /\ im_bulk = HandlerFor(im_random, im_delay)
        BY <1>0 DEF QuietInv
      <3>2. OneDelay(im_random, im_delay)
        BY <3>1 DEF TodoInv, Begun
      <3>3. im_random > 0
        BY <1>2, <3>1, HandlerIs
      <3>4. im_random \in Nat /\ im_delay \in Nat
        BY <1>2, ImAssumption DEF Settings
      <3> QED BY <1>6, <3>2, <3>3, <3>4 DEF OneDelay
    <2>7. QuietInv'
      BY <1>0, <2>2, <2>6 DEF QuietInv, NeverWritten, Begun, im_settings
    <2> QED BY <1>3, <1>4, <2>4, <2>5, <2>7
  <1>7. CASE ~ (im_delay > 0)
    <2>1. /\ im_buffer' = IF im_random > 0 THEN EmptyBuffer ELSE <<>>
          /\ im_ring' = <<>> /\ im_fifo' = <<>>
      BY <1>0, <1>1, <1>7
    <2>2. RingInv'
      BY <1>0, <2>1 DEF RingInv
    <2>3. SlotsInv'
      BY <1>5, <2>1 DEF SlotsInv, InSlots, NoneLeftBehind
    <2>4. ~ im_raced => im_bulk # "delay" /\ (im_bulk = "random" => im_random > 0)
      <3> SUFFICES ASSUME ~ im_raced PROVE im_bulk # "delay" /\ (im_bulk = "random" => im_random > 0)
        OBVIOUS
      <3>1. im_bulk = HandlerFor(im_random, im_delay)
        BY <1>0 DEF QuietInv
      <3> QED BY <1>2, <1>7, <3>1, HandlerIs
    <2>5. QuietInv'
      BY <1>0, <1>5, <2>1, <2>4 DEF QuietInv, NeverWritten, Begun, im_settings
    <2> QED BY <1>3, <1>4, <2>2, <2>3, <2>5
  <1> QED BY <1>6, <1>7

LEMMA ImpairStutter == ASSUME ImpairInv, UNCHANGED im_vars PROVE ImpairInv'
  <1> USE DEF ImpairInv, im_vars
  <1>1. ImTypeOK'
    BY DEF ImTypeOK, im_settings, im_queue, im_slots
  <1>2. RingInv'
    BY DEF RingInv, RingHolds, im_queue, im_slots
  <1>3. QuietInv'
    BY DEF QuietInv, NeverWritten, Begun, im_settings, im_queue, im_slots
  <1> QED BY <1>1, <1>2, <1>3, SlotsStay, TodoStays

\* The ring of a constant delay holds the packets in the order of arrival; a
\* packet of a random delay is in the slot of its time and is passed over only
\* where a full burst cut its slot short; a change that met no update applies:
\* ImpairSound, for any burst, slots, delays and commands.
THEOREM ImpairmentSound == ImSpec => []ImpairSound
  <1>1. ImpairInv /\ [ImNext]_im_vars => ImpairInv'
    <2> SUFFICES ASSUME ImpairInv, [ImNext]_im_vars PROVE ImpairInv'
      OBVIOUS
    <2>1. CASE UNCHANGED im_vars
      BY <2>1, ImpairStutter
    <2>2. CASE ImNext
      <3>1. CASE ImCommand
        BY <3>1, CommandStep
      <3>2. CASE ImWrite
        BY <3>2, WriteStep
      <3>3. CASE ImTick
        BY <3>3, TickStep
      <3>4. CASE \E n \in ImSizes : ImCall(n)
        BY <3>4, CallStep
      <3>5. CASE ImUpdate
        BY <3>5, UpdateStep
      <3>6. CASE ImDrain
        BY <3>6, DrainStep
      <3>7. CASE ImAlloc
        BY <3>7, AllocStep
      <3> QED BY <2>2, <3>1, <3>2, <3>3, <3>4, <3>5, <3>6, <3>7 DEF ImNext
    <2> QED BY <2>1, <2>2
  <1>2. ImpairInv => ImpairSound
    <2> SUFFICES ASSUME ImpairInv PROVE ImpairSound
      OBVIOUS
    <2>1. RingInOrder
      BY DEF ImpairInv, RingInv, RingHolds, RingInOrder
    <2>2. OnTimeUnlessCut
      <3> SUFFICES ASSUME im_buffer # <<>>, NEW i \in 0 .. ImSlots - 1, NEW e \in ToSet(im_buffer[i])
                   PROVE  LET lag == (im_now - 1 - im_last) % ImSlots IN
                          (e.at >= im_now - 1 - lag \/ e \in im_cut) /\ e.at < im_now - 1 + ImSlots
        BY DEF OnTimeUnlessCut
      <3> QED BY DEF ImpairInv, SlotsInv, InSlots, NoneLeftBehind, Base
    <2>3. QuietChangeApplies
      <3> SUFFICES ASSUME ~ im_raced
                   PROVE  /\ im_pc # "crash"
                          /\ Quiet => \/ im_bulk = HandlerFor(im_asked.random, im_asked.delay)
                                      \/ /\ [random |-> im_random, delay |-> im_delay] # im_asked
                                         /\ im_bulk = "drop"
        BY DEF QuietChangeApplies
      <3>1. im_pc # "crash"
        BY DEF ImpairInv, QuietInv
      <3>2. Quiet => \/ im_bulk = HandlerFor(im_random, im_delay)
                     \/ NeverWritten /\ im_bulk = HandlerFor(im_asked.random, im_asked.delay)
        BY DEF ImpairInv, QuietInv, Quiet, Begun
      <3>3. Quiet => NeverWritten \/ im_asked = [random |-> im_random, delay |-> im_delay]
        BY DEF ImpairInv, AskedInv, Quiet, Begun
      <3>4. NeverWritten => HandlerFor(im_random, im_delay) = "drop"
        BY DEF NeverWritten, HandlerFor
      <3> QED BY <3>1, <3>2, <3>3, <3>4
    <2> QED BY <2>1, <2>2, <2>3 DEF ImpairSound
  <1> QED BY <1>1, <1>2, ImpairInit, PTL DEF ImSpec

-----------------------------------------------------------------------------
(***************************************************************************)
(* Bursts: what is left of one.                                            *)
(***************************************************************************)

\* What is kept is a sequence of what passed and was not discarded.
KeptBy(g, pkts, out) ==
  g = [i \in 0 .. Len(pkts) |->
         IF i = 0 THEN <<>> ELSE IF out[i] = DISCARDED THEN g[i - 1] ELSE Append(g[i - 1], pkts[i])]
LEMMA SurvivorsAre ==
  ASSUME NEW M, NEW pkts \in Seq(M), NEW out,
         NEW A, \A i \in 1 .. Len(pkts) : out[i] # DISCARDED => pkts[i] \in A
  PROVE  Survivors(pkts, out) \in Seq(A)
  <1> DEFINE n == Len(pkts)
             S == Seq(A)
             next(i, s) == IF out[i] = DISCARDED THEN s ELSE Append(s, pkts[i])
             step == [i \in 1 .. n |-> [s \in S |-> next(i, s)]]
             base == <<>>
  <1>0. n \in Nat
    OBVIOUS
  <1>1. \A i \in 1 .. n : \A s \in S : next(i, s) \in S
    OBVIOUS
  <1>2. base \in S
    OBVIOUS
  <1>3. \A i \in 1 .. n : \A s \in S : step[i][s] = next(i, s)
    BY Zenon
  <1> HIDE DEF n, S, base
  <1>4. StepsWithin(n, S, base, step)
    <2> HIDE DEF next
    <2> QED BY <1>0, <1>1, <1>2, <1>3 DEF StepsWithin
  <1> HIDE DEF step
  <1>5. \E g \in [0 .. n -> S] : g[0] = base /\ \A k \in 1 .. n : g[k] = step[k][g[k - 1]]
    BY <1>4, StepsExist
  <1>6. PICK g \in [0 .. n -> S] : g[0] = base /\ \A k \in 1 .. n : g[k] = step[k][g[k - 1]]
    BY <1>5
  <1>7. ASSUME NEW k \in 0 .. n
        PROVE  g[k] = IF k = 0 THEN <<>> ELSE IF out[k] = DISCARDED THEN g[k - 1] ELSE Append(g[k - 1], pkts[k])
    <2>1. CASE k # 0
      <3>1. k \in 1 .. n /\ k - 1 \in 0 .. n
        BY <1>0, <2>1
      <3>2. g[k - 1] \in S
        BY <1>6, <3>1
      <3>3. step[k][g[k - 1]] = next(k, g[k - 1])
        BY <1>3, <3>1, <3>2
      <3> QED BY <1>6, <2>1, <3>1, <3>3
    <2> QED BY <1>6, <2>1 DEF base
  <1>8. g = [k \in 0 .. n |-> g[k]]
    BY <1>6
  <1>9. KeptBy(g, pkts, out)
    <2> HIDE DEF next
    <2> QED BY <1>7, <1>8, Zenon DEF KeptBy, n
  <1> DEFINE f == CHOOSE f : KeptBy(f, pkts, out)
  <1>10. KeptBy(f, pkts, out)
    BY <1>9, Zenon
  <1>11. Survivors(pkts, out) = f[n]
    BY Zenon DEF Survivors, KeptBy, n
  <1> HIDE DEF f
  <1>12. f[0] = base /\ \A k \in 1 .. n : f[k] = next(k, f[k - 1])
    <2>1. f = [i \in 0 .. n |->
                 IF i = 0 THEN <<>> ELSE IF out[i] = DISCARDED THEN f[i - 1] ELSE Append(f[i - 1], pkts[i])]
      BY <1>10 DEF KeptBy, n
    <2>2. f[0] = base
      BY <1>0, <2>1 DEF base
    <2>3. ASSUME NEW k \in 1 .. n PROVE f[k] = next(k, f[k - 1])
      <3>1. k \in 0 .. n /\ k # 0
        BY <1>0
      <3> HIDE DEF f
      <3>2. f[k] = IF k = 0 THEN <<>> ELSE IF out[k] = DISCARDED THEN f[k - 1] ELSE Append(f[k - 1], pkts[k])
        BY <2>1, <3>1, Zenon
      <3> QED BY <3>1, <3>2
    <2> QED BY <2>2, <2>3
  <1> DEFINE T == {k \in 0 .. n : f[k] \in S}
  <1> HIDE DEF next
  <1>13. ASSUME NEW k \in 0 .. n - 1, k \in T PROVE k + 1 \in T
    <2>1. k + 1 \in 1 .. n /\ k + 1 \in 0 .. n /\ (k + 1) - 1 = k /\ f[k] \in S
      BY <1>0, <1>13
    <2>2. f[k + 1] = next(k + 1, f[k])
      BY <1>12, <2>1
    <2> QED BY <1>1, <2>1, <2>2
  <1>14. 0 \in T
    BY <1>0, <1>2, <1>12
  <1> HIDE DEF T
  <1>15. 0 .. n \subseteq T
    BY <1>0, <1>13, <1>14, ReachesAll
  <1> QED BY <1>0, <1>11, <1>15 DEF T, S

\* What every task but arp does: it takes the packets one by one, and passes on
\* what it made of those it does not discard.
LEMMA TaskTypes ==
  ASSUME BuTypeOK, NEW task \in Tasks, NEW pkts \in Seq(Marked), NEW out, NEW meter, NEW classify,
         Passes(task, pkts, out, meter, classify)
  PROVE  BuTypeOK'
  <1>1. Survivors(pkts, out) \in Seq(Marked)
    <2>1. \A i \in 1 .. Len(pkts) : out[i] # DISCARDED => pkts[i] \in Marked
      OBVIOUS
    <2> QED BY <2>1, SurvivorsAre, Zenon
  <1> QED BY <1>1 DEF Passes, BuTypeOK

\* A task that comes after the ACL, and is no scheduler, keeps what the ACL gave.
LEMMA AclSoFar ==
  ASSUME BuTypeOK, NEW task \in Tasks, bu_path' = Append(bu_path, task), NEW i \in 1 .. Len(bu_path'),
         AclSince(bu_path', i)
  PROVE  task # "qos" /\ (task = "acl" \/ (i \in 1 .. Len(bu_path) /\ AclSince(bu_path, i)))
  <1> DEFINE n == Len(bu_path)
  <1>1. n \in Nat /\ Len(bu_path') = n + 1 /\ bu_path'[n + 1] = task
        /\ (\A j \in 1 .. n : bu_path'[j] = bu_path[j])
    <2>1. bu_path \in Seq(Tasks)
      BY DEF BuTypeOK
    <2> QED BY <2>1, AppendProperties
  <1> HIDE DEF n
  <1>2. bu_path'[i] = "acl" /\ \A j \in i .. n + 1 : bu_path'[j] # "qos"
    BY <1>1 DEF AclSince
  <1>3. task # "qos"
    <2>1. n + 1 \in i .. n + 1
      BY <1>1
    <2> QED BY <1>1, <1>2, <2>1
  <1>4. CASE i = n + 1
    BY <1>1, <1>2, <1>3, <1>4
  <1>5. CASE i # n + 1
    <2>1. i \in 1 .. n /\ i .. n \subseteq i .. n + 1 /\ i .. n \subseteq 1 .. n
      BY <1>1, <1>5
    <2>2. AclSince(bu_path, i)
      BY <1>1, <1>2, <2>1 DEF AclSince, n
    <2> QED BY <1>3, <2>1, <2>2 DEF n
  <1> QED BY <1>4, <1>5
LEMMA TaskKeepsClass ==
  ASSUME BuTypeOK, ClassInv, NEW task \in Tasks, NEW pkts \in Seq(Marked), NEW out, NEW meter, NEW classify,
         Passes(task, pkts, out, meter, classify), Len(pkts) = Len(bu_pkts),
         task = "acl" => \A k \in 1 .. Len(pkts) : out[k] # DISCARDED => pkts[k].sched.tc = 3,
         task \notin {"acl", "qos"} =>
           \A k \in 1 .. Len(pkts) : bu_pkts[k].sched.tc = 3 => pkts[k].sched.tc = 3
  PROVE  ClassInv'
  <1> SUFFICES ASSUME NEW i \in 1 .. Len(bu_path'), AclSince(bu_path', i)
               PROVE  \A k \in 1 .. Len(bu_pkts') : bu_pkts'[k].sched.tc = 3
    BY DEF ClassInv
  <1> DEFINE A == {x \in Marked : x.sched.tc = 3}
  <1>1. task # "qos" /\ (task = "acl" \/ (i \in 1 .. Len(bu_path) /\ AclSince(bu_path, i)))
    BY AclSoFar DEF Passes
  <1>2. ASSUME NEW k \in 1 .. Len(pkts), out[k] # DISCARDED PROVE pkts[k] \in A
    <2>1. pkts[k] \in Marked
      OBVIOUS
    <2>2. CASE task = "acl"
      BY <1>2, <2>1, <2>2
    <2>3. CASE task # "acl"
      <3>1. bu_pkts[k].sched.tc = 3
        BY <1>1, <2>3 DEF ClassInv
      <3> QED BY <1>1, <2>1, <2>3, <3>1
    <2> QED BY <2>2, <2>3
  <1>3. Survivors(pkts, out) \in Seq(A)
    BY <1>2, SurvivorsAre, Zenon
  <1>4. bu_pkts' \in Seq(A)
    BY <1>3 DEF Passes
  <1>5. \A k \in 1 .. Len(bu_pkts') : bu_pkts'[k] \in A
    BY <1>4
  <1> QED BY <1>5

LEMMA AclStep == ASSUME BurstsInv, BuAcl PROVE BurstsInv'
  <1> USE DEF BurstsInv
  <1> DEFINE pkts == [i \in DOMAIN bu_pkts |-> AclClass(bu_pkts[i])]
  <1>1. PICK out : /\ \A i \in DOMAIN bu_pkts : out[i] \in AclOut(bu_pkts[i].p.rule)
                   /\ Passes("acl", pkts, out, <<>>, TRUE)
    BY DEF BuAcl
  <1>2. ASSUME NEW x \in Marked PROVE AclClass(x) \in Marked
    <2>1. DOMAIN x = {"p", "sched"} /\ x.sched \in Sched
      BY DEF Marked
    <2>2. [x.sched EXCEPT !.tc = 3] \in Sched
      BY <2>1 DEF Sched
    <2>3. [x EXCEPT !.sched = [x.sched EXCEPT !.tc = 3]] \in Marked
      BY <2>1, <2>2 DEF Marked
    <2>4. SetTc(x, 3) = [x EXCEPT !.sched = [x.sched EXCEPT !.tc = 3]]
      BY DEF SetTc
    <2> QED BY <2>3, <2>4 DEF AclClass
  <1>3. pkts \in Seq(Marked) /\ Len(pkts) = Len(bu_pkts)
    <2> HIDE DEF BurstsInv
    <2>1. bu_pkts \in Seq(Marked)
      BY DEF BurstsInv, BuTypeOK
    <2> QED BY <1>2, <2>1
  <1>4. ASSUME NEW k \in 1 .. Len(pkts), out[k] # DISCARDED PROVE pkts[k].sched.tc = 3
    <2>1. bu_pkts[k] \in Marked /\ k \in DOMAIN bu_pkts /\ pkts[k] = AclClass(bu_pkts[k])
      BY <1>3 DEF BuTypeOK
    <2>2. out[k] \in AclOut(bu_pkts[k].p.rule) /\ bu_pkts[k].p.rule \in Rules
      BY <1>1, <2>1, BuAssumption DEF Marked
    <2>3. bu_pkts[k].p.rule \in {"allow", "rate limit"}
      BY <1>4, <2>2 DEF AclOut, Rules
    <2>4. AclClass(bu_pkts[k]) = [bu_pkts[k] EXCEPT !.sched.tc = 3]
      BY <2>3 DEF AclClass, SetTc
    <2> QED BY <2>1, <2>4 DEF Marked, Sched
  <1> HIDE DEF pkts
  <1>5. BuTypeOK'
    BY <1>1, <1>3, TaskTypes DEF Tasks
  <1>6. ClassInv'
    BY <1>1, <1>3, <1>4, TaskKeepsClass DEF Tasks
  <1>7. bu_last'.task = "acl"
    BY <1>1 DEF Passes
  <1> QED BY <1>5, <1>6, <1>7 DEF OwnMeter, ArpSplitsBurst

LEMMA ClassifyStep == ASSUME BurstsInv, BuClassify PROVE BurstsInv'
  <1> USE DEF BurstsInv
  <1> DEFINE pkts == [i \in DOMAIN bu_pkts |-> Classified(bu_pkts[i])]
             out == [i \in DOMAIN bu_pkts |-> 0]
  <1>1. Passes("classify", pkts, out, <<>>, TRUE)
    BY DEF BuClassify
  <1>2. ASSUME NEW x \in Marked PROVE Classified(x) \in Marked /\ (x.sched.tc = 3 => Classified(x).sched.tc = 3)
    <2>1. x.p.dscp \in Nat /\ x.p.user \in Nat /\ x.sched.tc \in Int
      BY BuAssumption DEF Marked, Sched
    <2>2. UserTable(x.p.user) \in Int /\ QueueOf(x.p.dscp) \in Int /\ TcOf(x.p.dscp) \in Int
      BY <2>1 DEF UserTable, QueueOf, TcOf
    <2> HIDE DEF UserTable, QueueOf, TcOf
    <2>3. DOMAIN x = {"p", "sched"} /\ x.p \in BuPackets
      BY DEF Marked
    <2> QED BY <2>1, <2>2, <2>3 DEF Classified, Marked, Sched
  <1>3. bu_pkts \in Seq(Marked)
    BY DEF BuTypeOK
  <1>4. pkts \in Seq(Marked) /\ Len(pkts) = Len(bu_pkts)
        /\ \A k \in 1 .. Len(pkts) : pkts[k] = Classified(bu_pkts[k]) /\ bu_pkts[k] \in Marked
    <2> HIDE DEF BurstsInv
    <2> QED BY <1>2, <1>3
  <1> HIDE DEF pkts, out
  <1>5. BuTypeOK'
    BY <1>1, <1>4, TaskTypes DEF Tasks
  <1>6. ClassInv'
    <2>1. \A k \in 1 .. Len(pkts) : bu_pkts[k].sched.tc = 3 => pkts[k].sched.tc = 3
      BY <1>2, <1>4
    <2> QED BY <1>1, <1>4, <2>1, TaskKeepsClass DEF Tasks
  <1>7. bu_last'.task = "classify"
    BY <1>1 DEF Passes
  <1> QED BY <1>5, <1>6, <1>7 DEF OwnMeter, ArpSplitsBurst

LEMMA QosStep == ASSUME BurstsInv, BuQos PROVE BurstsInv'
  <1> USE DEF BurstsInv
  <1> DEFINE pkts == [i \in DOMAIN bu_pkts |-> Scheduled(bu_pkts[i])]
             out == [i \in DOMAIN bu_pkts |-> 0]
  <1>1. Passes("qos", pkts, out, <<>>, TRUE)
    BY DEF BuQos
  <1>2. ASSUME NEW x \in Marked PROVE Scheduled(x) \in Marked
    <2> DEFINE d == IF x.p.kind = "ip" THEN x.p.dscp ELSE 0
    <2>1. d \in Nat /\ x.p.user \in Nat
      BY BuAssumption DEF Marked, Sched
    <2>2. UserTable(x.p.user) \in Int /\ QueueOf(d) \in Int /\ TcOf(d) \in Int
      BY <2>1 DEF UserTable, QueueOf, TcOf
    <2>3. DOMAIN x = {"p", "sched"} /\ x.p \in BuPackets
      BY DEF Marked
    <2>4. Scheduled(x) = [x EXCEPT !.sched = [pipe |-> UserTable(x.p.user), queue |-> QueueOf(d),
                                              tc |-> TcOf(d), color |-> "green"]]
      BY DEF Scheduled
    <2> HIDE DEF d
    <2> QED BY <2>2, <2>3, <2>4 DEF Marked, Sched
  <1>3. bu_pkts \in Seq(Marked)
    BY DEF BuTypeOK
  <1>4. pkts \in Seq(Marked) /\ Len(pkts) = Len(bu_pkts)
    <2> HIDE DEF BurstsInv
    <2> QED BY <1>2, <1>3
  <1> HIDE DEF pkts, out
  <1>5. BuTypeOK'
    BY <1>1, <1>4, TaskTypes DEF Tasks
  <1>6. ClassInv'
    BY <1>1, <1>4, TaskKeepsClass DEF Tasks
  <1>7. bu_last'.task = "qos"
    BY <1>1 DEF Passes
  <1> QED BY <1>5, <1>6, <1>7 DEF OwnMeter, ArpSplitsBurst

LEMMA PoliceStep == ASSUME BurstsInv, NEW c \in BOOLEAN, NEW m \in BOOLEAN, BuPolice(c, m) PROVE BurstsInv'
  <1> USE DEF BurstsInv
  <1> DEFINE n == Len(bu_pkts)
             made(x, color) == IF m THEN [x EXCEPT !.sched.color = PoliceAct(color)] ELSE x
  <1>1. PICK meter \in [1 .. n -> 0 .. 2], color \in [1 .. n -> BuColors] :
          /\ \A j \in UserWritten(n) : meter[j] = UserTable(GetUser(bu_pkts[j], c))
          /\ Passes("police", [j \in 1 .. n |-> made(bu_pkts[j], color[j])],
                    [j \in 1 .. n |-> IF PoliceAct(color[j]) = "drop" THEN DISCARDED ELSE 0], meter, c)
    BY DEF BuPolice
  <1> DEFINE pkts == [j \in 1 .. n |-> made(bu_pkts[j], color[j])]
             out == [j \in 1 .. n |-> IF PoliceAct(color[j]) = "drop" THEN DISCARDED ELSE 0]
  <1>2. ASSUME NEW x \in Marked, NEW k \in BuColors
        PROVE  made(x, k) \in Marked /\ (x.sched.tc = 3 => made(x, k).sched.tc = 3)
    <2>1. PoliceAct(k) \in {"green", "red", "drop"}
      BY BuAssumption DEF PoliceAct
    <2> QED BY <2>1 DEF Marked, Sched
  <1>3. bu_pkts \in Seq(Marked)
    BY DEF BuTypeOK
  <1>4. n \in Nat /\ \A j \in 1 .. n : bu_pkts[j] \in Marked
    BY <1>3
  <1> HIDE DEF made
  <1>5. pkts \in Seq(Marked) /\ Len(pkts) = n
        /\ \A k \in 1 .. n : pkts[k] = made(bu_pkts[k], color[k]) /\ bu_pkts[k] \in Marked
    <2> HIDE DEF n
    <2>1. \A j \in 1 .. n : made(bu_pkts[j], color[j]) \in Marked
      BY <1>2, <1>4
    <2> QED BY <1>4, <2>1
  <1>6. Passes("police", pkts, out, meter, c)
    BY <1>1
  <1> HIDE DEF pkts, out
  <1>7. BuTypeOK'
    BY <1>5, <1>6, TaskTypes DEF Tasks
  <1>8. ClassInv'
    BY <1>2, <1>5, <1>6, TaskKeepsClass DEF Tasks
  <1>9. bu_last'.task = "police" /\ bu_last'.in = bu_pkts /\ bu_last'.meter = meter /\ bu_last'.classify = c
    BY <1>6 DEF Passes
  <1>10. OwnMeter'
    <2> SUFFICES ASSUME n >= 3 * BuOffset, NEW j \in 1 .. n
                 PROVE  meter[j] = UserTable(GetUser(bu_pkts[j], c))
      BY <1>3, <1>9 DEF OwnMeter, GetUser
    <2>1. j \in UserWritten(n)
      BY <1>4, BuAssumption DEF UserWritten
    <2> QED BY <1>1, <2>1
  <1> QED BY <1>7, <1>8, <1>9, <1>10 DEF ArpSplitsBurst

-----------------------------------------------------------------------------
(***************************************************************************)
(* Bursts: how the arp task splits one.                                    *)
(***************************************************************************)

Lists == {"reply", "arp", "other"}
Places == [list : Lists \cup {"nowhere"}, out : Int]
Split(n) == [out : [1 .. n -> Int], burst : [1 .. n -> 1 .. n], lists : [Lists -> Seq(1 .. n)]]
SplitStart(places) ==
  [out |-> [i \in DOMAIN places |-> 0], burst |-> [i \in DOMAIN places |-> i],
   lists |-> [l \in {"reply", "arp", "other"} |-> <<>>]]

\* One packet more: where it is put.
PutAt(n, s, k, place, t, l, at) ==
  /\ l \in Lists /\ t \in Split(n) /\ at \in Nat
  /\ t.lists[l] = Append(s.lists[l], k) /\ \A x \in Lists \ {l} : t.lists[x] = s.lists[x]
  /\ \A a \in 1 .. n : t.out[a] = IF a = at THEN place.out ELSE s.out[a]
  /\ \A a \in 1 .. n : t.burst[a] = IF Moved(place) /\ a = at THEN k ELSE s.burst[a]
LEMMA PutIs ==
  ASSUME NEW n \in Nat, NEW s \in Split(n), NEW k \in 1 .. n, NEW place \in Places
  PROVE  PutAt(n, s, k, place, ArpPut(s, k, place), ListOf(place), Len(s.lists[ListOf(place)]) + 1)
  <1> DEFINE l == ListOf(place)
             at == Len(s.lists[l]) + 1
             t == ArpPut(s, k, place)
  <1>1. l \in Lists
    BY DEF ListOf, Places, Lists
  <1>2. s.out \in [1 .. n -> Int] /\ s.burst \in [1 .. n -> 1 .. n] /\ s.lists \in [Lists -> Seq(1 .. n)]
        /\ place.out \in Int
    BY DEF Split, Places
  <1> DEFINE out == [s.out EXCEPT ![at] = place.out]
             moved == [s.burst EXCEPT ![at] = k]
             burst == IF Moved(place) THEN moved ELSE s.burst
             lists == [s.lists EXCEPT ![l] = Append(@, k)]
  <1>3. t = [out |-> out, burst |-> burst, lists |-> lists]
    BY DEF ArpPut
  <1>4. out \in [1 .. n -> Int] /\ \A a \in 1 .. n : out[a] = IF a = at THEN place.out ELSE s.out[a]
    BY <1>2
  <1>5. moved \in [1 .. n -> 1 .. n] /\ \A a \in 1 .. n : moved[a] = IF a = at THEN k ELSE s.burst[a]
    BY <1>2
  <1> HIDE DEF moved
  <1>6. burst \in [1 .. n -> 1 .. n]
        /\ \A a \in 1 .. n : burst[a] = IF Moved(place) /\ a = at THEN k ELSE s.burst[a]
    <2> HIDE DEF Moved
    <2> QED BY <1>2, <1>5
  <1>7. s.lists[l] \in Seq(1 .. n) /\ Append(s.lists[l], k) \in Seq(1 .. n) /\ at \in Nat
    BY <1>1, <1>2
  <1>8. lists \in [Lists -> Seq(1 .. n)] /\ lists[l] = Append(s.lists[l], k)
        /\ \A x \in Lists \ {l} : lists[x] = s.lists[x]
    BY <1>1, <1>2, <1>7
  <1> HIDE DEF out, burst, lists, l, at, t
  <1>9. t \in Split(n) /\ t.out = out /\ t.burst = burst /\ t.lists = lists
    BY <1>3, <1>4, <1>6, <1>8 DEF Split
  <1>10. PutAt(n, s, k, place, t, l, at)
    <2> HIDE DEF Moved
    <2> QED BY <1>1, <1>4, <1>6, <1>7, <1>8, <1>9 DEF PutAt
  <1> QED BY <1>10 DEF t, l, at

\* ArpSplit, unrolled.
SplitBy(g, places) ==
  g = [k \in 0 .. Len(places) |->
         IF k = 0 THEN SplitStart(places) ELSE ArpPut(g[k - 1], k, places[k])]
LEMMA SplitSteps ==
  ASSUME NEW places \in Seq(Places)
  PROVE  \E f : /\ ArpSplit(places) = f[Len(places)] /\ f[0] = SplitStart(places)
                /\ \A k \in 1 .. Len(places) : f[k] = ArpPut(f[k - 1], k, places[k])
  <1> DEFINE n == Len(places)
             S == Split(n)
             step == [k \in 1 .. n |-> [s \in S |-> ArpPut(s, k, places[k])]]
             base == SplitStart(places)
  <1>0. n \in Nat /\ DOMAIN places = 1 .. n /\ \A k \in 1 .. n : places[k] \in Places
    OBVIOUS
  <1>1. \A k \in 1 .. n : \A s \in S : ArpPut(s, k, places[k]) \in S
    <2> HIDE DEF n
    <2> QED BY <1>0, PutIs DEF PutAt
  <1>2. base \in S
    <2> HIDE DEF n
    <2> QED BY <1>0 DEF SplitStart, Split, Lists
  <1>3. \A k \in 1 .. n : \A s \in S : step[k][s] = ArpPut(s, k, places[k])
    BY Zenon
  <1> HIDE DEF n, S, base, step
  <1>4. StepsWithin(n, S, base, step)
    BY <1>0, <1>1, <1>2, <1>3 DEF StepsWithin
  <1>5. \E g \in [0 .. n -> S] : g[0] = base /\ \A k \in 1 .. n : g[k] = step[k][g[k - 1]]
    BY <1>4, StepsExist
  <1>6. PICK g \in [0 .. n -> S] : g[0] = base /\ \A k \in 1 .. n : g[k] = step[k][g[k - 1]]
    BY <1>5
  <1>7. ASSUME NEW k \in 0 .. n
        PROVE  g[k] = IF k = 0 THEN SplitStart(places) ELSE ArpPut(g[k - 1], k, places[k])
    <2>1. CASE k # 0
      <3>1. k \in 1 .. n /\ k - 1 \in 0 .. n
        BY <1>0, <2>1
      <3>2. g[k - 1] \in S
        BY <1>6, <3>1
      <3>3. step[k][g[k - 1]] = ArpPut(g[k - 1], k, places[k])
        BY <1>3, <3>1, <3>2
      <3> QED BY <1>6, <2>1, <3>1, <3>3
    <2> QED BY <1>6, <2>1 DEF base
  <1>8. g = [k \in 0 .. n |-> g[k]]
    BY <1>6
  <1>9. SplitBy(g, places)
    BY <1>7, <1>8, Zenon DEF SplitBy, n
  <1> DEFINE f == CHOOSE f : SplitBy(f, places)
  <1>10. SplitBy(f, places)
    BY <1>9, Zenon
  <1>11. ArpSplit(places) = f[n]
    BY Zenon DEF ArpSplit, SplitBy, SplitStart, n
  <1> HIDE DEF f
  <1>12. f = [k \in 0 .. n |-> IF k = 0 THEN SplitStart(places) ELSE ArpPut(f[k - 1], k, places[k])]
    BY <1>10 DEF SplitBy, n
  <1>13. f[0] = SplitStart(places)
    BY <1>0, <1>12
  <1>14. ASSUME NEW k \in 1 .. n PROVE f[k] = ArpPut(f[k - 1], k, places[k])
    <2>1. k \in 0 .. n /\ k # 0
      BY <1>0
    <2>2. f[k] = IF k = 0 THEN SplitStart(places) ELSE ArpPut(f[k - 1], k, places[k])
      BY <1>12, <2>1, Zenon
    <2> QED BY <2>1, <2>2
  <1> QED BY <1>11, <1>13, <1>14 DEF n

\* What holds of the first k packets: each is in the list of its kind, once; the
\* array of the others is in step when none is without a list; and out[] is right
\* when all are in one list.
InLists(places, k, lists) ==
  /\ \A l \in Lists : /\ Len(lists[l]) <= k
                      /\ \A a \in 1 .. Len(lists[l]) : lists[l][a] <= k /\ ListOf(places[lists[l][a]]) = l
                      /\ \A a, b \in 1 .. Len(lists[l]) : lists[l][a] = lists[l][b] => a = b
  /\ \A i \in 1 .. k : \E a \in 1 .. Len(lists[ListOf(places[i])]) : lists[ListOf(places[i])][a] = i
OthersInStep(places, s) ==
  (\A i \in 1 .. Len(places) : places[i].list # "nowhere") =>
     \A a \in 1 .. Len(s.lists["other"]) : s.burst[a] = s.lists["other"][a]
OneList(places, k, s) ==
  \A l \in Lists : (\A i \in 1 .. Len(places) : ListOf(places[i]) = l) =>
     Len(s.lists[l]) = k /\ \A a \in 1 .. k : s.lists[l][a] = a /\ s.out[a] = places[a].out
SplitGood(places, k, s) ==
  s \in Split(Len(places)) /\ InLists(places, k, s.lists) /\ OthersInStep(places, s) /\ OneList(places, k, s)

LEMMA PutGood ==
  ASSUME NEW places \in Seq(Places), NEW k \in 1 .. Len(places), NEW s, SplitGood(places, k - 1, s)
  PROVE  SplitGood(places, k, ArpPut(s, k, places[k]))
  <1> DEFINE n == Len(places)
             place == places[k]
             l == ListOf(place)
             was == s.lists[l]
             at == Len(was) + 1
             t == ArpPut(s, k, place)
  <1>0. n \in Nat /\ k \in 1 .. n /\ place \in Places /\ s \in Split(n)
    BY DEF SplitGood
  <1>1. /\ l \in Lists /\ t \in Split(n) /\ at \in Nat
        /\ t.lists[l] = Append(was, k) /\ \A x \in Lists \ {l} : t.lists[x] = s.lists[x]
        /\ \A a \in 1 .. n : t.out[a] = IF a = at THEN place.out ELSE s.out[a]
        /\ \A a \in 1 .. n : t.burst[a] = IF Moved(place) /\ a = at THEN k ELSE s.burst[a]
    <2>1. PutAt(n, s, k, place, ArpPut(s, k, place), ListOf(place), Len(s.lists[ListOf(place)]) + 1)
      <3> HIDE DEF n, place
      <3> QED BY <1>0, PutIs
    <2>2. PutAt(n, s, k, place, t, l, at)
      BY <2>1
    <2> QED BY <2>2, Zenon DEF PutAt
  <1>2. s.lists \in [Lists -> Seq(1 .. n)]
    BY <1>0 DEF Split
  <1>3. was \in Seq(1 .. n) /\ Len(was) \in Nat
    BY <1>1, <1>2
  <1>4. Len(Append(was, k)) = at /\ Append(was, k)[at] = k /\ \A a \in 1 .. Len(was) : Append(was, k)[a] = was[a]
    BY <1>0, <1>3, AppendProperties
  <1> DEFINE now == t.lists[l]
  <1>5. Len(now) = at /\ now[at] = k /\ \A a \in 1 .. at - 1 : now[a] = was[a]
    BY <1>1, <1>3, <1>4
  <1>6. InLists(places, k - 1, s.lists) /\ OthersInStep(places, s) /\ OneList(places, k - 1, s)
    BY DEF SplitGood
  <1>7. Len(was) <= k - 1
    BY <1>1, <1>6 DEF InLists
  <1>8. at \in 1 .. k /\ at \in 1 .. n /\ at - 1 = Len(was)
    BY <1>0, <1>3, <1>7
  <1>9. \A a \in 1 .. at - 1 : was[a] \in 1 .. n /\ was[a] <= k - 1
    <2>1. \A a \in 1 .. Len(was) : was[a] <= k - 1
      BY <1>1, <1>6, Zenon DEF InLists
    <2> HIDE DEF n, place, l, was, at, t, now
    <2>2. \A a \in 1 .. Len(was) : was[a] \in 1 .. n
      BY ONLY <1>0, <1>3
    <2> QED BY <1>8, <2>1, <2>2
  <1>10. \A i \in 1 .. n : ListOf(places[i]) \in Lists
    <2>1. \A i \in 1 .. n : places[i] \in Places
      OBVIOUS
    <2> QED BY <2>1 DEF ListOf, Places, Lists
  <1> HIDE DEF n, place, l, was, at, t, now
  <1>11. InLists(places, k, t.lists)
    <2>1. ASSUME NEW x \in Lists
          PROVE  /\ Len(t.lists[x]) <= k
                 /\ \A a \in 1 .. Len(t.lists[x]) : t.lists[x][a] <= k /\ ListOf(places[t.lists[x][a]]) = x
                 /\ \A a, b \in 1 .. Len(t.lists[x]) : t.lists[x][a] = t.lists[x][b] => a = b
      <3>1. CASE x = l
        <4>1. t.lists[x] = now /\ Len(now) <= k
          BY <1>5, <1>8, <3>1 DEF now
        <4>2. ASSUME NEW a \in 1 .. at PROVE now[a] <= k /\ ListOf(places[now[a]]) = l
          <5>1. CASE a = at
            BY <1>0, <1>5, <5>1 DEF l, place
          <5>2. CASE a # at
            <6>1. a \in 1 .. at - 1 /\ a \in 1 .. Len(was)
              BY <1>8, <5>2
            <6>2. ListOf(places[was[a]]) = l
              BY <1>1, <1>6, <6>1 DEF InLists, was
            <6> QED BY <1>0, <1>5, <1>9, <6>1, <6>2
          <5> QED BY <5>1, <5>2
        <4>3. ASSUME NEW a \in 1 .. at, NEW b \in 1 .. at, now[a] = now[b] PROVE a = b
          <5>1. \A c \in 1 .. at : c = at \/ (c \in 1 .. at - 1 /\ c \in 1 .. Len(was))
            BY <1>8
          <5>2. \A c \in 1 .. at - 1 : now[c] # k
            BY <1>0, <1>5, <1>9
          <5>3. ASSUME a \in 1 .. Len(was), b \in 1 .. Len(was), was[a] = was[b] PROVE a = b
            BY <1>1, <1>6, <5>3 DEF InLists, was
          <5> QED BY <1>5, <4>3, <5>1, <5>2, <5>3
        <4> QED BY <1>5, <3>1, <4>1, <4>2, <4>3
      <3>2. CASE x # l
        <4>1. t.lists[x] = s.lists[x]
          BY <1>1, <3>2
        <4>2. s.lists[x] \in Seq(1 .. n)
          BY <1>2
        <4>3. \A a \in 1 .. Len(s.lists[x]) : s.lists[x][a] \in 1 .. n
          BY <4>2, ElementOfSeq
        <4>4. Len(s.lists[x]) \in Nat
          BY <4>2
        <4>5. Len(s.lists[x]) <= k - 1
              /\ (\A a \in 1 .. Len(s.lists[x]) : s.lists[x][a] <= k - 1 /\ ListOf(places[s.lists[x][a]]) = x)
              /\ (\A a, b \in 1 .. Len(s.lists[x]) : s.lists[x][a] = s.lists[x][b] => a = b)
          BY <1>6 DEF InLists
        <4>6. \A y : y \in Int /\ y <= k - 1 => y <= k
          BY <1>0
        <4> QED BY <1>0, <4>1, <4>3, <4>4, <4>5, <4>6
      <3> QED BY <3>1, <3>2
    <2>2. ASSUME NEW i \in 1 .. k
          PROVE  \E a \in 1 .. Len(t.lists[ListOf(places[i])]) : t.lists[ListOf(places[i])][a] = i
      <3>1. CASE i = k
        <4>1. ListOf(places[i]) = l /\ at \in 1 .. Len(now) /\ now[at] = i
          BY <1>5, <1>8, <3>1 DEF l, place
        <4> QED BY <4>1 DEF now
      <3>2. CASE i # k
        <4>1. i \in 1 .. k - 1 /\ i \in 1 .. n
          BY <1>0, <3>2
        <4> DEFINE x == ListOf(places[i])
        <4>2. PICK a \in 1 .. Len(s.lists[x]) : s.lists[x][a] = i
          BY <1>6, <4>1 DEF InLists
        <4>3. x \in Lists
          BY <1>10, <4>1
        <4> HIDE DEF x
        <4>4. CASE x = l
          <5>1. a \in 1 .. at - 1 /\ a \in 1 .. at /\ was[a] = i
            BY <1>8, <4>2, <4>4 DEF was
          <5>2. now[a] = i /\ a \in 1 .. Len(now)
            BY <1>5, <5>1
          <5> QED BY <4>4, <5>2 DEF now, x
        <4>5. CASE x # l
          BY <1>1, <4>2, <4>3, <4>5 DEF x
        <4> QED BY <4>4, <4>5
      <3> QED BY <3>1, <3>2
    <2> QED BY <2>1, <2>2 DEF InLists
  <1>12. OthersInStep(places, t)
    <2> SUFFICES ASSUME \A i \in 1 .. n : places[i].list # "nowhere",
                        NEW a \in 1 .. Len(t.lists["other"])
                 PROVE  t.burst[a] = t.lists["other"][a]
      BY DEF OthersInStep, n
    <2>1. \A c \in 1 .. Len(s.lists["other"]) : s.burst[c] = s.lists["other"][c]
      BY <1>6 DEF OthersInStep, n
    <2>2. CASE l = "other"
      <3>1. Moved(place)
        BY <1>0, <2>2 DEF l, ListOf, Moved, place
      <3>2. a \in 1 .. at /\ a \in 1 .. n
        BY <1>0, <1>5, <1>8, <2>2 DEF now
      <3>3. CASE a = at
        BY <1>1, <1>5, <2>2, <3>1, <3>2, <3>3 DEF now
      <3>4. CASE a # at
        <4>1. a \in 1 .. at - 1 /\ a \in 1 .. Len(was)
          BY <1>8, <3>2, <3>4
        <4> QED BY <1>1, <1>5, <2>1, <2>2, <3>2, <3>4, <4>1 DEF now, was
      <3> QED BY <3>3, <3>4
    <2>3. CASE l # "other"
      <3>1. ~ Moved(place)
        BY <2>3 DEF l, ListOf, Moved
      <3>2. t.lists["other"] = s.lists["other"]
        BY <1>1, <2>3 DEF Lists
      <3>3. Len(s.lists["other"]) <= k - 1 /\ Len(s.lists["other"]) \in Nat
        BY <1>2, <1>6 DEF InLists, Lists
      <3>4. a \in 1 .. n
        BY <1>0, <3>2, <3>3
      <3> QED BY <1>1, <2>1, <3>1, <3>2, <3>4
    <2> QED BY <2>2, <2>3
  <1>13. OneList(places, k, t)
    <2> SUFFICES ASSUME NEW x \in Lists, \A i \in 1 .. n : ListOf(places[i]) = x
                 PROVE  Len(t.lists[x]) = k /\ \A a \in 1 .. k : t.lists[x][a] = a /\ t.out[a] = places[a].out
      BY DEF OneList, n
    <2>1. l = x
      BY <1>0 DEF l, place
    <2>2. Len(was) = k - 1 /\ \A a \in 1 .. k - 1 : was[a] = a /\ s.out[a] = places[a].out
      BY <1>6, <2>1 DEF OneList, n, was
    <2>3. at = k
      BY <1>0, <1>8, <2>2
    <2>4. ASSUME NEW a \in 1 .. k PROVE now[a] = a /\ t.out[a] = places[a].out
      <3>1. a \in 1 .. n
        BY <1>0
      <3>2. CASE a = k
        BY <1>1, <1>5, <2>3, <3>1, <3>2 DEF place
      <3>3. CASE a # k
        <4>1. a \in 1 .. k - 1
          BY <1>0, <3>3
        <4> QED BY <1>1, <1>5, <2>2, <2>3, <3>1, <3>3, <4>1
      <3> QED BY <3>2, <3>3
    <2> QED BY <1>5, <2>1, <2>3, <2>4 DEF now
  <1> QED BY <1>1, <1>11, <1>12, <1>13 DEF SplitGood, n, t, place

LEMMA ArpSplitGood ==
  ASSUME NEW places \in Seq(Places)
  PROVE  SplitGood(places, Len(places), ArpSplit(places))
  <1> DEFINE n == Len(places)
  <1>0. n \in Nat
    OBVIOUS
  <1>1. PICK f : /\ ArpSplit(places) = f[n] /\ f[0] = SplitStart(places)
                 /\ \A k \in 1 .. n : f[k] = ArpPut(f[k - 1], k, places[k])
    BY SplitSteps
  <1>2. SplitGood(places, 0, SplitStart(places))
    <2> DEFINE s == SplitStart(places)
    <2>1. s \in Split(n) /\ \A l \in Lists : s.lists[l] = <<>>
      BY DEF Split, SplitStart, Lists
    <2> HIDE DEF s
    <2>2. \A l \in Lists : Len(s.lists[l]) = 0
      BY <2>1
    <2>3. InLists(places, 0, s.lists)
      BY <2>2 DEF InLists
    <2>4. OthersInStep(places, s)
      BY <2>2 DEF OthersInStep, Lists
    <2>5. OneList(places, 0, s)
      BY <2>2 DEF OneList
    <2> QED BY <2>1, <2>3, <2>4, <2>5 DEF SplitGood, s
  <1> DEFINE T == {k \in 0 .. n : SplitGood(places, k, f[k])}
  <1>3. 0 \in T
    BY <1>0, <1>1, <1>2
  <1>4. ASSUME NEW k \in 0 .. n - 1, k \in T PROVE k + 1 \in T
    <2> DEFINE m == k + 1
    <2>1. m \in 1 .. n /\ m \in 0 .. n /\ m - 1 = k
      BY <1>0
    <2>2. SplitGood(places, m - 1, f[m - 1])
      BY <1>4, <2>1
    <2> HIDE DEF m
    <2>3. SplitGood(places, m, ArpPut(f[m - 1], m, places[m]))
      BY <2>1, <2>2, PutGood
    <2>4. m \in T
      BY <1>1, <2>1, <2>3
    <2> QED BY <2>4 DEF m
  <1> HIDE DEF T, n
  <1>5. 0 .. n \subseteq T
    BY <1>0, <1>3, <1>4, ReachesAll
  <1>6. n \in T
    BY <1>0, <1>5
  <1> QED BY <1>1, <1>6 DEF T, n

\* Where the packets of a list begin in what is sent.
Begins(s, l) ==
  CASE l = "reply" -> 0 [] l = "arp" -> Len(s.lists["reply"])
    [] OTHER -> Len(s.lists["reply"]) + Len(s.lists["arp"])
Third(s, l) == IF l = "other" THEN s.burst ELSE s.lists[l]
Spread(places, s, sent) ==
  /\ sent \in Seq((1 .. Len(places)) \X Int)
  /\ \A l \in Lists : \A a \in 1 .. Len(s.lists[l]) :
       /\ Begins(s, l) + a \in 1 .. Len(sent)
       /\ sent[Begins(s, l) + a][1] = Third(s, l)[a] /\ sent[Begins(s, l) + a][2] = s.out[a]
  /\ \A k \in 1 .. Len(sent) : \E l \in Lists : \E a \in 1 .. Len(s.lists[l]) : k = Begins(s, l) + a
LEMMA SentIs ==
  ASSUME NEW places \in Seq(Places), NEW s, SplitGood(places, Len(places), s), NEW sent, sent = ArpSent(s)
  PROVE  Spread(places, s, sent)
  <1> DEFINE n == Len(places)
             P == (1 .. n) \X Int
             u == [i \in 1 .. Len(s.lists["reply"]) |-> <<s.lists["reply"][i], s.out[i]>>]
             v == [i \in 1 .. Len(s.lists["arp"]) |-> <<s.lists["arp"][i], s.out[i]>>]
             w == [i \in 1 .. Len(s.lists["other"]) |-> <<s.burst[i], s.out[i]>>]
             x == Len(s.lists["reply"])
             y == Len(s.lists["arp"])
             z == Len(s.lists["other"])
  <1>0. n \in Nat
    OBVIOUS
  <1>1. s.out \in [1 .. n -> Int] /\ s.burst \in [1 .. n -> 1 .. n] /\ s.lists \in [Lists -> Seq(1 .. n)]
    BY DEF SplitGood, Split
  <1>2. \A l \in Lists : /\ Len(s.lists[l]) <= n /\ Len(s.lists[l]) \in Nat
                         /\ \A a \in 1 .. Len(s.lists[l]) : s.lists[l][a] \in 1 .. n
    <2> SUFFICES ASSUME NEW l \in Lists
                 PROVE  /\ Len(s.lists[l]) <= n /\ Len(s.lists[l]) \in Nat
                        /\ \A a \in 1 .. Len(s.lists[l]) : s.lists[l][a] \in 1 .. n
      OBVIOUS
    <2>1. s.lists[l] \in Seq(1 .. n)
      BY <1>1
    <2>2. Len(s.lists[l]) <= n
      BY DEF SplitGood, InLists
    <2> HIDE DEF n
    <2> QED BY <2>1, <2>2, ElementOfSeq, LenProperties
  <1>3. x \in Nat /\ y \in Nat /\ z \in Nat /\ x <= n /\ y <= n /\ z <= n
    BY <1>2 DEF Lists
  <1>4. u \in Seq(P) /\ v \in Seq(P) /\ w \in Seq(P) /\ Len(u) = x /\ Len(v) = y /\ Len(w) = z
    <2>1. "reply" \in Lists /\ "arp" \in Lists
      BY DEF Lists
    <2> HIDE DEF n
    <2>9. ASSUME NEW i \in 1 .. n PROVE s.out[i] \in Int /\ s.burst[i] \in 1 .. n
      BY <1>1
    <2>2. \A i \in 1 .. x : <<s.lists["reply"][i], s.out[i]>> \in P
      BY <1>0, <1>2, <1>3, <2>1, <2>9
    <2>3. \A i \in 1 .. y : <<s.lists["arp"][i], s.out[i]>> \in P
      BY <1>0, <1>2, <1>3, <2>1, <2>9
    <2>4. \A i \in 1 .. z : <<s.burst[i], s.out[i]>> \in P
      BY <1>0, <1>3, <2>9
    <2> HIDE DEF P, x, y, z
    <2>5. u \in [1 .. x -> P] /\ v \in [1 .. y -> P] /\ w \in [1 .. z -> P]
      BY <2>2, <2>3, <2>4 DEF x, y, z
    <2> HIDE DEF u, v, w
    <2> QED BY <1>3, <2>5
  <1>5. /\ \A i \in 1 .. x : u[i][1] = s.lists["reply"][i] /\ u[i][2] = s.out[i]
        /\ \A i \in 1 .. y : v[i][1] = s.lists["arp"][i] /\ v[i][2] = s.out[i]
        /\ \A i \in 1 .. z : w[i][1] = s.burst[i] /\ w[i][2] = s.out[i]
    OBVIOUS
  <1>6. sent = u \o v \o w
    BY DEF ArpSent
  <1>7. Begins(s, "reply") = 0 /\ Begins(s, "arp") = x /\ Begins(s, "other") = x + y
    BY DEF Begins
  <1> HIDE DEF u, v, w, P
  <1>8. /\ u \o v \in Seq(P) /\ Len(u \o v) = x + y
        /\ (\A i \in 1 .. x : (u \o v)[i] = u[i]) /\ (\A i \in 1 .. y : (u \o v)[x + i] = v[i])
    <2> HIDE DEF x, y, z, n
    <2>1. u \o v \in Seq(P) /\ Len(u \o v) = x + y
          /\ \A i \in 1 .. x + y : (u \o v)[i] = IF i <= x THEN u[i] ELSE v[i - x]
      BY <1>4, ConcatProperties
    <2> QED BY <1>3, <2>1
  <1> DEFINE uv == u \o v
  <1> HIDE DEF uv
  <1>9. /\ sent \in Seq(P) /\ Len(sent) = x + y + z
        /\ (\A i \in 1 .. x + y : sent[i] = uv[i]) /\ (\A i \in 1 .. z : sent[x + y + i] = w[i])
    <2> HIDE DEF x, y, z, n
    <2>1. uv \in Seq(P) /\ Len(uv) = x + y /\ sent = uv \o w
      BY <1>6, <1>8 DEF uv
    <2>3. uv \o w \in Seq(P) /\ Len(uv \o w) = Len(uv) + Len(w)
          /\ \A i \in 1 .. Len(uv) + Len(w) : (uv \o w)[i] = IF i <= Len(uv) THEN uv[i] ELSE w[i - Len(uv)]
      <3>1. uv \in Seq(P) /\ w \in Seq(P)
        BY <1>4, <2>1
      <3> QED BY <3>1, ConcatProperties
    <2>2. sent \in Seq(P) /\ Len(sent) = (x + y) + z
          /\ \A i \in 1 .. (x + y) + z : sent[i] = IF i <= x + y THEN uv[i] ELSE w[i - (x + y)]
      BY <1>4, <2>1, <2>3
    <2> QED BY <1>3, <2>2
  <1>10. ASSUME NEW l \in Lists, NEW a \in 1 .. Len(s.lists[l])
         PROVE  /\ Begins(s, l) + a \in 1 .. Len(sent)
                /\ sent[Begins(s, l) + a][1] = Third(s, l)[a] /\ sent[Begins(s, l) + a][2] = s.out[a]
    <2>1. CASE l = "reply"
      <3>1. a \in 1 .. x /\ Begins(s, l) = 0
        BY <1>7, <2>1
      <3> HIDE DEF x, y, z
      <3>2. a \in 1 .. x + y /\ a \in 1 .. x + y + z
        BY <1>3, <3>1
      <3>3. sent[a] = u[a] /\ 0 + a = a
        BY SMTT(60), <1>8, <1>9, <3>1, <3>2 DEF uv
      <3> QED BY <1>5, <1>9, <2>1, <3>1, <3>2, <3>3 DEF Third
    <2>2. CASE l = "arp"
      <3>1. a \in 1 .. y /\ Begins(s, l) = x
        BY <1>7, <2>2
      <3> HIDE DEF x, y, z
      <3>2. x + a \in 1 .. x + y /\ x + a \in 1 .. x + y + z
        BY <1>3, <3>1
      <3>3. sent[x + a] = v[a]
        BY <1>8, <1>9, <3>1, <3>2 DEF uv
      <3> QED BY <1>5, <1>9, <2>2, <3>1, <3>2, <3>3 DEF Third
    <2>3. CASE l = "other"
      <3>1. a \in 1 .. z /\ Begins(s, l) = x + y
        BY <1>7, <2>3
      <3> HIDE DEF x, y, z
      <3>2. x + y + a \in 1 .. x + y + z
        BY <1>3, <3>1
      <3>3. sent[x + y + a] = w[a]
        BY <1>9, <3>1
      <3> QED BY <1>5, <1>9, <2>3, <3>1, <3>2, <3>3 DEF Third
    <2> QED BY <2>1, <2>2, <2>3 DEF Lists
  <1>11. ASSUME NEW k \in 1 .. Len(sent)
         PROVE  \E l \in Lists : \E a \in 1 .. Len(s.lists[l]) : k = Begins(s, l) + a
    <2>1. k \in 1 .. x + y + z
      BY <1>9
    <2>2. \/ k \in 1 .. x /\ k = 0 + k
          \/ k - x \in 1 .. y /\ k = x + (k - x)
          \/ k - (x + y) \in 1 .. z /\ k = (x + y) + (k - (x + y))
      <3> HIDE DEF x, y, z
      <3> QED BY <1>3, <2>1
    <2>3. "reply" \in Lists /\ "arp" \in Lists /\ "other" \in Lists
      BY DEF Lists
    <2> QED BY <1>7, <2>2, <2>3
  <1> QED BY <1>9, <1>10, <1>11 DEF P, n, Spread

\* A burst whose packets all have a list is split soundly.
LEMMA SentOnce ==
  ASSUME NEW places \in Seq(Places), NEW s, SplitGood(places, Len(places), s), NEW sent, sent = ArpSent(s),
         \A i \in 1 .. Len(places) : places[i].list # "nowhere"
  PROVE  /\ \A i \in 1 .. Len(places) : Cardinality({k \in 1 .. Len(sent) : sent[k][1] = i}) = 1
         /\ \A l \in Lists : (\A i \in 1 .. Len(places) : places[i].list = l) =>
              \A k \in 1 .. Len(sent) : sent[k][2] = places[sent[k][1]].out
  <1> DEFINE n == Len(places)
  <1>1. /\ \A l \in Lists : \A a \in 1 .. Len(s.lists[l]) :
             /\ Begins(s, l) + a \in 1 .. Len(sent)
             /\ sent[Begins(s, l) + a][1] = Third(s, l)[a] /\ sent[Begins(s, l) + a][2] = s.out[a]
        /\ \A k \in 1 .. Len(sent) : \E l \in Lists : \E a \in 1 .. Len(s.lists[l]) : k = Begins(s, l) + a
    <2>1. Spread(places, s, sent)
      BY SentIs
    <2> QED BY <2>1 DEF Spread
  <1>2. InLists(places, n, s.lists) /\ OthersInStep(places, s) /\ OneList(places, n, s)
    BY DEF SplitGood
  <1>3. \A l \in Lists : \A a \in 1 .. Len(s.lists[l]) : sent[Begins(s, l) + a][1] = s.lists[l][a]
    BY <1>1, <1>2 DEF OthersInStep, Third
  <1>4. \A i \in 1 .. n : ListOf(places[i]) \in Lists /\ ListOf(places[i]) = places[i].list
    <2>1. \A i \in 1 .. n : places[i] \in Places
      OBVIOUS
    <2> QED BY <2>1 DEF ListOf, Places, Lists
  <1>5. ASSUME NEW i \in 1 .. n
        PROVE  Cardinality({k \in 1 .. Len(sent) : sent[k][1] = i}) = 1
    <2> DEFINE l == ListOf(places[i])
               K == {k \in 1 .. Len(sent) : sent[k][1] = i}
    <2>1. PICK a \in 1 .. Len(s.lists[l]) : s.lists[l][a] = i
      BY <1>2 DEF InLists
    <2>2. l \in Lists
      BY <1>4
    <2> HIDE DEF l
    <2>3. Begins(s, l) + a \in K
      BY <1>1, <1>3, <2>1, <2>2
    <2>4. ASSUME NEW k \in K PROVE k = Begins(s, l) + a
      <3>1. PICK x \in Lists : \E b \in 1 .. Len(s.lists[x]) : k = Begins(s, x) + b
        BY <1>1
      <3>2. PICK b \in 1 .. Len(s.lists[x]) : k = Begins(s, x) + b
        BY <3>1
      <3>3. s.lists[x][b] = i
        BY <1>3, <3>2
      <3>4. ListOf(places[i]) = x
        BY <1>2, <3>3 DEF InLists
      <3>5. x = l
        BY <3>4 DEF l
      <3>6. b = a
        BY <1>2, <2>1, <2>2, <3>3, <3>5 DEF InLists
      <3> QED BY <3>2, <3>5, <3>6
    <2>5. K = {Begins(s, l) + a}
      BY <2>3, <2>4
    <2>6. Cardinality(K) = 1
      <3> HIDE DEF K
      <3> QED BY <2>5, FS_Singleton
    <2> QED BY <2>6
  <1>6. ASSUME NEW l \in Lists, \A i \in 1 .. n : places[i].list = l, NEW k \in 1 .. Len(sent)
        PROVE  sent[k][2] = places[sent[k][1]].out
    <2>1. \A a \in 1 .. n : s.lists[l][a] = a /\ s.out[a] = places[a].out
      BY <1>2, <1>4, <1>6 DEF OneList
    <2>2. PICK x \in Lists : \E b \in 1 .. Len(s.lists[x]) : k = Begins(s, x) + b
      BY <1>1
    <2>3. PICK b \in 1 .. Len(s.lists[x]) : k = Begins(s, x) + b
      BY <2>2
    <2>4. s.lists[x] \in Seq(1 .. n)
      BY DEF SplitGood, Split
    <2>5. s.lists[x][b] \in 1 .. n /\ Len(s.lists[x]) \in Nat
      <3> DEFINE q == s.lists[x]
      <3> HIDE DEF n, q
      <3>1. q \in Seq(1 .. n) /\ b \in 1 .. Len(q)
        BY <2>4 DEF q
      <3>2. q[b] \in 1 .. n /\ Len(q) \in Nat
        BY <3>1, ElementOfSeq, LenProperties
      <3> QED BY <3>2 DEF q
    <2>6. ListOf(places[s.lists[x][b]]) = x /\ Len(s.lists[x]) <= n
      BY <1>2 DEF InLists
    <2>7. x = l
      BY <1>4, <1>6, <2>5, <2>6
    <2>8. b \in 1 .. n
      BY <2>5, <2>6
    <2>9. sent[k][1] = s.lists[x][b] /\ sent[k][2] = s.out[b]
      BY <1>1, <1>3, <2>3
    <2> QED BY <2>1, <2>7, <2>8, <2>9
  <1> QED BY <1>5, <1>6

\* The arp task passes on what it sends to the others' ring.
LEMMA ArpStep == ASSUME BurstsInv, NEW r \in BOOLEAN, BuArp(r) PROVE BurstsInv'
  <1> DEFINE n == Len(bu_pkts)
             places == [i \in DOMAIN bu_pkts |-> ArpPlace(bu_pkts[i].p.kind, r)]
             s == ArpSplit(places)
             sent == ArpSent(s)
             pkts == [k \in DOMAIN sent |-> bu_pkts[sent[k][1]]]
             out == [k \in DOMAIN sent |-> IF sent[k][2] = OTHER_RING THEN 0 ELSE DISCARDED]
  <1>1. /\ bu_last' = [task |-> "arp", in |-> bu_pkts, places |-> places, sent |-> sent]
        /\ bu_pkts' = Survivors(pkts, out)
        /\ bu_path' = Append(bu_path, "arp")
    BY Zenon DEF BuArp
  <1>2. BuTypeOK /\ ClassInv
    BY DEF BurstsInv
  <1>3. bu_pkts \in Seq(Marked) /\ bu_path \in Seq(Tasks)
    BY <1>2 DEF BuTypeOK
  <1>4. n \in Nat /\ DOMAIN bu_pkts = 1 .. n /\ \A i \in 1 .. n : bu_pkts[i] \in Marked
    BY <1>3
  <1>5. places \in Seq(Places) /\ Len(places) = n
    <2>1. ASSUME NEW kind PROVE ArpPlace(kind, r) \in Places
      BY DEF ArpPlace, Places, Lists, DISCARDED, ARP_RING, OTHER_RING, REPLY
    <2> HIDE DEF n
    <2>2. places = [i \in 1 .. n |-> ArpPlace(bu_pkts[i].p.kind, r)]
      BY <1>4
    <2>3. places \in [1 .. n -> Places]
      BY <2>1, <2>2
    <2> QED BY <1>4, <2>3
  <1> HIDE DEF places
  <1>6. SplitGood(places, Len(places), s)
    BY <1>5, ArpSplitGood
  <1> HIDE DEF s
  <1>7. sent \in Seq((1 .. n) \X Int)
    BY <1>5, <1>6, SentIs DEF Spread
  <1> HIDE DEF n, sent
  <1>8. Len(sent) \in Nat /\ DOMAIN sent = 1 .. Len(sent) /\ \A k \in 1 .. Len(sent) : sent[k][1] \in 1 .. n
    <2>1. \A k \in 1 .. Len(sent) : sent[k] \in (1 .. n) \X Int
      BY <1>7, ElementOfSeq
    <2> QED BY <1>7, <2>1
  <1>9. pkts \in Seq(Marked) /\ Len(pkts) = Len(sent) /\ \A k \in 1 .. Len(sent) : pkts[k] = bu_pkts[sent[k][1]]
    <2>1. pkts \in [1 .. Len(sent) -> Marked]
      BY <1>4, <1>8
    <2> QED BY <1>8, <2>1
  <1> HIDE DEF pkts, out
  <1>10. BuTypeOK'
    <2>1. Survivors(pkts, out) \in Seq(Marked)
      <3>1. \A k \in 1 .. Len(pkts) : out[k] # DISCARDED => pkts[k] \in Marked
        BY <1>9, ElementOfSeq
      <3> QED BY <1>9, <3>1, SurvivorsAre, Zenon
    <2>2. Append(bu_path, "arp") \in Seq(Tasks)
      BY <1>3, AppendProperties DEF Tasks
    <2> QED BY <1>1, <2>1, <2>2 DEF BuTypeOK
  <1>11. ClassInv'
    <2> SUFFICES ASSUME NEW i \in 1 .. Len(bu_path'), AclSince(bu_path', i)
                 PROVE  \A k \in 1 .. Len(bu_pkts') : bu_pkts'[k].sched.tc = 3
      BY DEF ClassInv
    <2> DEFINE A == {x \in Marked : x.sched.tc = 3}
    <2>1. i \in 1 .. Len(bu_path) /\ AclSince(bu_path, i)
      <3>1. "arp" \in Tasks
        BY DEF Tasks
      <3> QED BY <1>1, <1>2, <3>1, AclSoFar
    <2>2. \A k \in 1 .. n : bu_pkts[k].sched.tc = 3
      BY <1>2, <2>1 DEF ClassInv, n
    <2>3. \A k \in 1 .. Len(pkts) : out[k] # DISCARDED => pkts[k] \in A
      BY <1>4, <1>8, <1>9, <2>2
    <2>4. bu_pkts' \in Seq(A)
      BY <1>1, <1>9, <2>3, SurvivorsAre, Zenon
    <2>5. \A k \in 1 .. Len(bu_pkts') : bu_pkts'[k] \in A
      BY <2>4, ElementOfSeq
    <2> QED BY <2>5
  <1>12. bu_last'.task = "arp" /\ bu_last'.in = bu_pkts /\ bu_last'.places = places /\ bu_last'.sent = sent
    BY <1>1
  <1>13. OwnMeter'
    BY <1>12 DEF OwnMeter
  <1>14. ArpSplitsBurst'
    <2> SUFFICES ASSUME \A i \in 1 .. n : places[i].list # "nowhere"
                 PROVE  LET lists == {places[i].list : i \in 1 .. n}
                        IN /\ \A i \in 1 .. n : Cardinality({k \in 1 .. Len(sent) : sent[k][1] = i}) = 1
                           /\ Cardinality(lists) = 1 =>
                                \A k \in 1 .. Len(sent) : sent[k][2] = places[sent[k][1]].out
      BY <1>4, <1>8, <1>12 DEF ArpSplitsBurst
    <2>1. /\ \A i \in 1 .. n : Cardinality({k \in 1 .. Len(sent) : sent[k][1] = i}) = 1
          /\ \A l \in Lists : (\A i \in 1 .. n : places[i].list = l) =>
               \A k \in 1 .. Len(sent) : sent[k][2] = places[sent[k][1]].out
      BY <1>5, <1>6, SentOnce DEF sent
    <2> DEFINE lists == {places[i].list : i \in 1 .. n}
    <2>2. ASSUME Cardinality(lists) = 1 PROVE \E l \in Lists : \A i \in 1 .. n : places[i].list = l
      <3>1. \A i \in 1 .. n : places[i] \in Places
        BY <1>5, ElementOfSeq
      <3>2. lists \subseteq Lists
        BY <3>1 DEF Places
      <3>3. IsFiniteSet(lists)
        <4>1. IsFiniteSet(Lists)
          <5>1. Lists = {"reply"} \cup {"arp"} \cup {"other"}
            BY DEF Lists
          <5> QED BY <5>1, FS_Singleton, FS_Union
        <4> HIDE DEF lists
        <4> QED BY <3>2, <4>1, FS_Subset
      <3>4. PICK l : lists = {l}
        <4> HIDE DEF lists
        <4> QED BY <2>2, <3>3, FS_Singleton
      <3> QED BY SMTT(60), <3>2, <3>4
    <2> QED BY <2>1, <2>2
  <1> QED BY <1>10, <1>11, <1>13, <1>14 DEF BurstsInv

LEMMA BurstsStart == BuInit => BurstsInv
  <1> SUFFICES ASSUME BuInit PROVE BurstsInv
    OBVIOUS
  <1>0. PICK n \in 1 .. BuLength : \E ps \in [1 .. n -> BuPackets], hash \in 0 .. 1 :
          bu_pkts = [i \in 1 .. n |->
                       [p |-> ps[i], sched |-> [pipe |-> 0, tc |-> hash, queue |-> 0, color |-> "green"]]]
    BY DEF BuInit
  <1>1. PICK ps \in [1 .. n -> BuPackets], hash \in 0 .. 1 :
          bu_pkts = [i \in 1 .. n |->
                       [p |-> ps[i], sched |-> [pipe |-> 0, tc |-> hash, queue |-> 0, color |-> "green"]]]
    BY <1>0
  <1>2. \A i \in 1 .. n :
          [p |-> ps[i], sched |-> [pipe |-> 0, tc |-> hash, queue |-> 0, color |-> "green"]] \in Marked
    BY DEF Marked, Sched
  <1>3. bu_pkts \in Seq(Marked)
    BY <1>1, <1>2, BuAssumption
  <1>4. bu_path = <<>> /\ bu_last.task = "none"
    BY DEF BuInit, Nothing
  <1>5. BuTypeOK /\ ClassInv
    BY <1>3, <1>4 DEF BuTypeOK, ClassInv
  <1> QED BY <1>4, <1>5 DEF BurstsInv, OwnMeter, ArpSplitsBurst

LEMMA BurstsStep == BurstsInv /\ [BuNext]_bu_vars => BurstsInv'
  <1> SUFFICES ASSUME BurstsInv, [BuNext]_bu_vars PROVE BurstsInv'
    OBVIOUS
  <1>1. CASE BuSetLocalIp \/ UNCHANGED bu_vars
    <2>1. UNCHANGED <<bu_pkts, bu_path, bu_last>>
      BY <1>1 DEF BuSetLocalIp, bu_vars
    <2> QED BY <2>1 DEF BurstsInv, BuTypeOK, ClassInv, AclSince, OwnMeter, ArpSplitsBurst
  <1> QED BY <1>1, AclStep, ClassifyStep, QosStep, PoliceStep, ArpStep DEF BuNext

LEMMA BurstsInvSound == BurstsInv => BurstsSound
  <1> SUFFICES ASSUME BurstsInv, NEW i \in DOMAIN bu_path,
                      bu_path[i] = "acl" /\ "qos" \notin ToSet(SubSeq(bu_path, i, Len(bu_path))),
                      NEW x \in ToSet(bu_pkts)
               PROVE  x.sched.tc = 3
    BY DEF BurstsSound, BurstsInv, ClassKept
  <1> DEFINE n == Len(bu_path)
             part == SubSeq(bu_path, i, n)
  <1>1. bu_pkts \in Seq(Marked) /\ bu_path \in Seq(Tasks)
    BY DEF BurstsInv, BuTypeOK
  <1>2. n \in Nat /\ i \in 1 .. n /\ i \in 1 .. n + 1
    BY <1>1
  <1>3. part = [k \in 1 .. n - i + 1 |-> bu_path[i + k - 1]]
    BY <1>1, <1>2, SubSeqIs
  <1> HIDE DEF part, n
  <1>4. ASSUME NEW j \in i .. n PROVE bu_path[j] # "qos"
    <2>1. j - i + 1 \in 1 .. n - i + 1 /\ i + (j - i + 1) - 1 = j
      BY <1>2
    <2>2. bu_path[j] \in ToSet(part)
      BY <1>3, <2>1 DEF ToSet
    <2> QED BY <2>2 DEF part, n
  <1>5. AclSince(bu_path, i)
    BY <1>4 DEF AclSince, n
  <1>6. PICK k \in 1 .. Len(bu_pkts) : x = bu_pkts[k]
    BY <1>1 DEF ToSet
  <1> QED BY <1>2, <1>5, <1>6 DEF BurstsInv, ClassInv, n

\* The class an ACL gives stays with the packet up to a scheduler; every packet of
\* a burst of three phases is metered as its own user; and an arp task passes
\* each packet of a burst without a gratuitous one on once: BurstsSound, for any
\* packets, bursts, chains of tasks, colours and offsets of the phases.
THEOREM BurstsDecided == BuSpec => []BurstsSound
  <1>1. BuSpec => []BurstsInv
    BY BurstsStart, BurstsStep, PTL DEF BuSpec
  <1> QED BY <1>1, BurstsInvSound, PTL

----------------------------------------------------------------------------
\* How often a packet occurs in a sequence.
LEMMA CountType ==
  ASSUME NEW S, NEW s \in Seq(S), NEW p
  PROVE  /\ IsFiniteSet({k \in DOMAIN s : s[k] = p})
         /\ Count(s, p) \in Nat
         /\ Count(s, p) = 0 <=> p \notin ToSet(s)
  <1> DEFINE K == {k \in DOMAIN s : s[k] = p}
  <1>1. DOMAIN s = 1 .. Len(s) /\ Len(s) \in Nat
    OBVIOUS
  <1>2. IsFiniteSet(DOMAIN s)
    BY <1>1, FS_Interval
  <1>3. IsFiniteSet(K)
    BY <1>2, FS_Subset
  <1>4. Cardinality(K) \in Nat
    BY <1>3, FS_CardinalityType
  <1>5. Cardinality(K) = 0 <=> K = {}
    BY <1>3, FS_EmptySet
  <1>6. K = {} <=> p \notin ToSet(s)
    BY DEF ToSet
  <1> QED BY <1>3, <1>4, <1>5, <1>6 DEF Count

\* An empty sequence holds nothing.
LEMMA CountNone ==
  ASSUME NEW p
  PROVE  Count(<<>>, p) = 0
  <1>1. {k \in DOMAIN <<>> : <<>>[k] = p} = {}
    OBVIOUS
  <1> QED BY <1>1, FS_EmptySet DEF Count

\* A sequence of one holds it once.
LEMMA CountOne ==
  ASSUME NEW x, NEW p
  PROVE  Count(<<x>>, p) = IF x = p THEN 1 ELSE 0
  <1>1. {k \in DOMAIN <<x>> : <<x>>[k] = p} = IF x = p THEN {1} ELSE {}
    OBVIOUS
  <1> QED BY <1>1, FS_EmptySet, FS_Singleton DEF Count

\* Joined sequences hold what both hold.
LEMMA CountBoth ==
  ASSUME NEW S, NEW s \in Seq(S), NEW t \in Seq(S), NEW p
  PROVE  Count(s \o t, p) = Count(s, p) + Count(t, p)
  <1> DEFINE m == Len(s)
             A == {k \in DOMAIN s : s[k] = p}
             B == {k \in DOMAIN t : t[k] = p}
             C == {k \in DOMAIN (s \o t) : (s \o t)[k] = p}
             D == {k \in C : k > m}
             f == [k \in B |-> k + m]
  <1>1. /\ m \in Nat /\ DOMAIN s = 1 .. m /\ DOMAIN t = 1 .. Len(t) /\ Len(t) \in Nat
        /\ DOMAIN (s \o t) = 1 .. m + Len(t)
        /\ \A k \in 1 .. m + Len(t) : (s \o t)[k] = IF k <= m THEN s[k] ELSE t[k - m]
    <2>1. s \o t \in Seq(S) /\ Len(s \o t) = m + Len(t)
      OBVIOUS
    <2>2. DOMAIN (s \o t) = 1 .. Len(s \o t)
      BY <2>1
    <2> QED BY <2>1, <2>2
  <1>2. /\ IsFiniteSet(A) /\ Cardinality(A) = Count(s, p) /\ Count(s, p) \in Nat
        /\ IsFiniteSet(B) /\ Cardinality(B) = Count(t, p) /\ Count(t, p) \in Nat
    BY CountType DEF Count
  <1> HIDE DEF m
  <1>3. f \in Bijection(B, D)
    <2>1. f \in [B -> D]
      BY <1>1
    <2>2. \A k, l \in B : f[k] = f[l] => k = l
      BY <1>1
    <2>3. ASSUME NEW d \in D PROVE \E k \in B : f[k] = d
      <3>1. d \in 1 .. m + Len(t) /\ d > m /\ (s \o t)[d] = p
        BY <1>1
      <3>2. d - m \in 1 .. Len(t) /\ (d - m) + m = d /\ ~ (d <= m)
        BY <1>1, <3>1
      <3>3. t[d - m] = p
        BY <1>1, <3>1, <3>2
      <3>4. d - m \in B
        BY <1>1, <3>2, <3>3
      <3> QED BY <3>2, <3>4
    <2> QED BY <2>1, <2>2, <2>3 DEF Bijection, Injection, Surjection, IsInjective
  <1>4. IsFiniteSet(D) /\ Cardinality(D) = Cardinality(B)
    <2>1. ExistsBijection(B, D)
      BY <1>3 DEF ExistsBijection
    <2> QED BY <1>2, <2>1, FS_Bijection
  <1>5. C = A \cup D /\ A \cap D = {}
    BY <1>1
  <1>6. Cardinality(A \cup D) = Cardinality(A) + Cardinality(D) - Cardinality(A \cap D)
    BY <1>2, <1>4, FS_Union
  <1>7. Cardinality(C) = Cardinality(A) + Cardinality(D) - 0
    BY <1>5, <1>6, FS_EmptySet
  <1>8. Count(s \o t, p) = Cardinality(C)
    BY DEF Count
  <1> HIDE DEF A, B, C, D
  <1> QED BY <1>2, <1>4, <1>7, <1>8

\* One more at the end is one more.
LEMMA CountMore ==
  ASSUME NEW S, NEW s \in Seq(S), NEW x \in S, NEW p
  PROVE  Count(Append(s, x), p) = Count(s, p) + (IF x = p THEN 1 ELSE 0)
  <1>1. Append(s, x) = s \o <<x>>
    OBVIOUS
  <1>2. <<x>> \in Seq(S)
    OBVIOUS
  <1>3. Count(s \o <<x>>, p) = Count(s, p) + Count(<<x>>, p)
    BY ONLY s \in Seq(S), <1>2, CountBoth
  <1> QED BY <1>1, <1>3, CountOne

\* The first m of a sequence and the others.
LEMMA CountParts ==
  ASSUME NEW S, NEW s \in Seq(S), NEW m \in 0 .. Len(s), NEW p
  PROVE  /\ SubSeq(s, 1, m) \in Seq(S) /\ SubSeq(s, m + 1, Len(s)) \in Seq(S)
         /\ Count(s, p) = Count(SubSeq(s, 1, m), p) + Count(SubSeq(s, m + 1, Len(s)), p)
  <1>1. /\ SubSeq(s, 1, m) \in Seq(S) /\ SubSeq(s, m + 1, Len(s)) \in Seq(S)
        /\ s = SubSeq(s, 1, m) \o SubSeq(s, m + 1, Len(s))
    <2>1. SubSeq(s, 1, m) \in Seq(S) /\ Len(SubSeq(s, 1, m)) = m
          /\ \A k \in 1 .. m : SubSeq(s, 1, m)[k] = s[k]
      OBVIOUS
    <2>2. SubSeq(s, m + 1, Len(s)) \in Seq(S) /\ Len(SubSeq(s, m + 1, Len(s))) = Len(s) - m
          /\ \A k \in 1 .. Len(s) - m : SubSeq(s, m + 1, Len(s))[k] = s[k + m]
      OBVIOUS
    <2> DEFINE a == SubSeq(s, 1, m)  b == SubSeq(s, m + 1, Len(s))
    <2> HIDE DEF a, b
    <2>3. a \in Seq(S) /\ Len(a) = m /\ b \in Seq(S) /\ Len(b) = Len(s) - m
          /\ (\A k \in 1 .. m : a[k] = s[k]) /\ (\A k \in 1 .. Len(s) - m : b[k] = s[k + m])
      BY <2>1, <2>2 DEF a, b
    <2>4. a \o b \in Seq(S) /\ Len(a \o b) = Len(s) /\ \A k \in 1 .. Len(s) : (a \o b)[k] = s[k]
      BY <2>3
    <2>5. s = a \o b
      BY <2>4, SeqEqual
    <2> QED BY <2>3, <2>5 DEF a, b
  <1> QED BY ZenonT(60), <1>1, CountBoth

\* No packet occurs twice.
LEMMA CountOnce ==
  ASSUME NEW S, NEW s \in Seq(S), \A i, j \in 1 .. Len(s) : s[i] = s[j] => i = j, NEW p
  PROVE  Count(s, p) = IF p \in ToSet(s) THEN 1 ELSE 0
  <1>1. DOMAIN s = 1 .. Len(s)
    OBVIOUS
  <1>2. CASE p \in ToSet(s)
    <2>1. PICK i \in DOMAIN s : s[i] = p
      BY <1>2 DEF ToSet
    <2>2. {k \in DOMAIN s : s[k] = p} = {i}
      BY <1>1, <2>1
    <2> QED BY <1>2, <2>2, FS_Singleton DEF Count
  <1>3. CASE p \notin ToSet(s)
    BY <1>3, CountType
  <1> QED BY <1>2, <1>3

\* If each occurs at most once, the places are distinct.
LEMMA OnceDistinct ==
  ASSUME NEW S, NEW s \in Seq(S), \A p \in S : Count(s, p) <= 1
  PROVE  \A i, j \in 1 .. Len(s) : s[i] = s[j] => i = j
  <1> SUFFICES ASSUME NEW i \in 1 .. Len(s), NEW j \in 1 .. Len(s), s[i] = s[j], i # j PROVE FALSE
    OBVIOUS
  <1> DEFINE p == s[i]
             K == {k \in DOMAIN s : s[k] = p}
  <1>1. p \in S /\ {i, j} \subseteq K
    OBVIOUS
  <1>2. IsFiniteSet(K) /\ Cardinality(K) = Count(s, p) /\ Count(s, p) \in Nat
    BY CountType DEF Count
  <1>3. IsFiniteSet({i}) /\ Cardinality({i}) = 1 /\ {i, j} = {i} \cup {j}
    BY FS_Singleton
  <1>4. Cardinality({i, j}) = 2
    <2>1. Cardinality({i} \cup {j}) = IF j \in {i} THEN 1 ELSE 1 + 1
      BY ONLY <1>3, FS_AddElement
    <2>2. j \notin {i}
      OBVIOUS
    <2>3. Cardinality({i} \cup {j}) = 1 + 1
      BY <2>1, <2>2, Zenon
    <2>4. 1 + 1 = 2
      OBVIOUS
    <2> QED BY <1>3, <2>3, <2>4, Zenon
  <1>5. Cardinality({i, j}) <= Cardinality(K)
    BY <1>1, <1>2, FS_Subset
  <1> QED BY <1>1, <1>2, <1>4, <1>5

\* A set in some order.
LEMMA CountOfSet ==
  ASSUME NEW T, IsFiniteSet(T), NEW p
  PROVE  SetToSeq(T) \in Seq(T) /\ Count(SetToSeq(T), p) = IF p \in T THEN 1 ELSE 0
  <1> DEFINE n == Cardinality(T)  s == SetToSeq(T)
             Is(f) == f \in [1 .. n -> T] /\ IsInjective(f)
  <1>1. n \in Nat /\ ExistsBijection(1 .. n, T)
    BY FS_CardinalityType
  <1> HIDE DEF n
  <1>2. PICK g : g \in Bijection(1 .. n, T)
    BY <1>1 DEF ExistsBijection
  <1>3. g \in [1 .. n -> T] /\ IsInjective(g)
    BY <1>2 DEF Bijection, Injection, IsInjective
  <1>4. s = CHOOSE f \in [1 .. n -> T] : IsInjective(f)
    BY DEF SetToSeq, n
  <1>5. s \in [1 .. n -> T] /\ IsInjective(s)
    BY <1>3, <1>4
  <1> HIDE DEF s
  <1>6. s \in Injection(1 .. n, T)
    BY <1>5 DEF Injection, IsInjective
  <1>7. ToSet(s) = T
    <2>1. Cardinality(1 .. n) = n
      BY <1>1, FS_Interval
    <2>2. s \in Surjection(1 .. n, T)
      BY <1>6, <2>1, FS_Injection DEF n
    <2> QED BY <1>5, <2>2 DEF Surjection, ToSet
  <1>8. s \in Seq(T) /\ Len(s) = n
    BY <1>1, <1>5
  <1>9. \A i, j \in 1 .. Len(s) : s[i] = s[j] => i = j
    BY <1>5, <1>8 DEF IsInjective
  <1> QED BY <1>7, <1>8, <1>9, CountOnce DEF s

\* One turn is enough to bring an index of a ring back into it.
LEMMA WrappedOnce ==
  ASSUME NEW x \in (-HoLength) .. (HoLength - 1)
  PROVE  /\ x % HoLength = (IF x < 0 THEN x + HoLength ELSE x)
         /\ x % HoLength \in 0 .. HoLength - 1
  <1>1. HoLength \in Nat \ {0}
    BY HoAssumption
  <1>2. CASE x < 0
    <2>1. x = HoLength * (-1) + (x + HoLength) /\ x + HoLength \in 0 .. (HoLength - 1)
      BY <1>1, <1>2
    <2>2. x % HoLength = x + HoLength
      BY <1>1, <2>1, RemainderUnique
    <2> QED BY <1>2, <2>1, <2>2
  <1>3. CASE ~ (x < 0)
    <2>1. x \in 0 .. (HoLength - 1)
      BY <1>1, <1>3
    <2>2. x % HoLength = x
      BY <1>1, <2>1, RemainderSmall
    <2> QED BY <1>3, <2>1, <2>2
  <1> QED BY <1>2, <1>3

\* What a ring holds is a sequence.
LEMMA ContentsType ==
  ASSUME NEW r \in HoRings
  PROVE  /\ Contents(r) \in Seq(HoNumbers) /\ Len(Contents(r)) = r.pkt_nb
         /\ \A k \in 1 .. r.pkt_nb :
              /\ r.pkt_pos - r.pkt_nb + k - 1 \in (-HoLength) .. (HoLength - 1)
              /\ Contents(r)[k] = r.buffer[(r.pkt_pos - r.pkt_nb + k - 1) % HoLength]
  <1> DEFINE nb == r.pkt_nb  pos == r.pkt_pos
  <1>1. nb \in 0 .. HoLength /\ pos \in 0 .. HoLength - 1 /\ r.buffer \in [0 .. HoLength - 1 -> HoNumbers]
        /\ HoLength \in Nat \ {0}
    BY HoAssumption DEF HoRings
  <1> HIDE DEF nb, pos
  <1>2. ASSUME NEW k \in 1 .. nb
        PROVE  pos - nb + k - 1 \in (-HoLength) .. (HoLength - 1) /\ (pos - nb + k - 1) % HoLength \in 0 .. HoLength - 1
    <2>1. pos - nb + k - 1 \in (-HoLength) .. (HoLength - 1)
      BY <1>1
    <2> QED BY <2>1, WrappedOnce
  <1>3. Contents(r) = [k \in 1 .. nb |-> r.buffer[(pos - nb + k - 1) % HoLength]]
    BY DEF Contents, nb, pos
  <1>4. Contents(r) \in [1 .. nb -> HoNumbers]
    <2> DEFINE b == r.buffer  at(k) == (pos - nb + k - 1) % HoLength
    <2>1. \A k \in 1 .. nb : at(k) \in 0 .. HoLength - 1
      BY <1>2
    <2> HIDE DEF at
    <2>2. \A k \in 1 .. nb : r.buffer[at(k)] \in HoNumbers
      BY <1>1, <2>1
    <2>3. Contents(r) = [k \in 1 .. nb |-> r.buffer[at(k)]]
      BY <1>3 DEF at
    <2> QED BY <2>2, <2>3
  <1>5. Contents(r) \in Seq(HoNumbers) /\ Len(Contents(r)) = nb
    BY <1>1, <1>4
  <1>6. \A k \in 1 .. nb : Contents(r)[k] = r.buffer[(pos - nb + k - 1) % HoLength]
    BY <1>3, Zenon
  <1> QED BY <1>2, <1>5, <1>6 DEF nb, pos

\* A packet that is put into a ring with room is the last in it.
LEMMA BufferPacketAppends ==
  ASSUME NEW r \in HoRings, r.pkt_nb < HoLength, NEW p \in HoNumbers
  PROVE  BufferPacket(r, p) \in HoRings /\ Contents(BufferPacket(r, p)) = Append(Contents(r), p)
  <1> DEFINE nb == r.pkt_nb  pos == r.pkt_pos  L == HoLength  c == Contents(r)
             r2 == BufferPacket(r, p)  c2 == Contents(r2)  pos2 == (pos + 1) % L
  <1>1. nb \in 0 .. L - 1 /\ pos \in 0 .. L - 1 /\ r.buffer \in [0 .. L - 1 -> HoNumbers] /\ L \in Nat \ {0}
    BY HoAssumption DEF HoRings
  <1>2. r2 = [buffer |-> [r.buffer EXCEPT ![pos] = p], pkt_pos |-> pos2, pkt_nb |-> nb + 1]
    BY DEF BufferPacket
  <1>3. pos2 = (IF pos = L - 1 THEN 0 ELSE pos + 1) /\ pos2 \in 0 .. L - 1
    <2>1. CASE pos = L - 1
      <3>1. pos + 1 = L * 1 + 0 /\ 0 \in 0 .. L - 1 /\ pos + 1 \in Int
        BY <1>1, <2>1
      <3>2. pos2 = 0
        BY <1>1, <3>1, RemainderUnique
      <3> QED BY <2>1, <3>1, <3>2
    <2>2. CASE pos # L - 1
      <3>1. pos + 1 \in 0 .. L - 1
        BY <1>1, <2>2
      <3>2. pos2 = pos + 1
        BY <1>1, <3>1, RemainderSmall
      <3> QED BY <2>2, <3>1, <3>2
    <2> QED BY <2>1, <2>2
  <1> HIDE DEF pos2, r2
  <1>4. r2 \in HoRings /\ r2.pkt_nb = nb + 1 /\ r2.pkt_pos = pos2
        /\ r2.buffer = [r.buffer EXCEPT ![pos] = p]
    <2>1. [r.buffer EXCEPT ![pos] = p] \in [0 .. L - 1 -> HoNumbers]
      BY <1>1
    <2>2. nb + 1 \in 0 .. L
      BY <1>1
    <2> QED BY <1>2, <1>3, <2>1, <2>2 DEF HoRings
  <1>5. c \in Seq(HoNumbers) /\ Len(c) = nb /\ c2 \in Seq(HoNumbers) /\ Len(c2) = nb + 1
    BY <1>4, ContentsType
  <1>6. ASSUME NEW k \in 1 .. nb + 1 PROVE c2[k] = Append(c, p)[k]
    <2> DEFINE x == pos2 - (nb + 1) + k - 1  y == pos - nb + k - 1
    <2>1. x \in (-L) .. L - 1 /\ c2[k] = r2.buffer[x % L]
      BY <1>4, ContentsType
    <2>2. x % L = IF x < 0 THEN x + L ELSE x
      BY <2>1, WrappedOnce
    <2>3. CASE k <= nb
      <3>1. k \in 1 .. nb
        BY <1>1, <2>3
      <3>2. y \in (-L) .. L - 1 /\ c[k] = r.buffer[y % L]
        BY <3>1, ContentsType
      <3>3. y % L = (IF y < 0 THEN y + L ELSE y) /\ y % L \in 0 .. L - 1
        BY <3>2, WrappedOnce
      <3> DEFINE i == x % L  j == y % L
      <3>4. i = (IF x < 0 THEN x + L ELSE x) /\ j = (IF y < 0 THEN y + L ELSE y) /\ j \in 0 .. L - 1
        BY <2>2, <3>3
      <3> HIDE DEF i, j, L
      <3>a. x = pos2 - nb + k - 2 /\ y = pos - nb + k - 1 /\ k \in Int /\ k >= 1 /\ k <= nb
        BY SMTT(60), <1>1, <1>3, <3>1
      <3> HIDE DEF x, y, nb, pos, pos2
      <3>5. i = j /\ j # pos
        <4>1. CASE pos = L - 1
          <5>1. pos2 = 0 /\ x < 0
            BY <1>1, <1>3, <3>a, <4>1
          <5>2. i = pos2 - nb + k - 2 + L
            BY <3>4, <3>a, <5>1
          <5>3. ~ (y < 0) /\ j = pos - nb + k - 1
            BY <1>1, <3>4, <3>a, <4>1
          <5> QED BY <1>1, <3>a, <4>1, <5>1, <5>2, <5>3
        <4>2. CASE pos # L - 1
          <5>1. pos2 = pos + 1 /\ x = y
            BY <1>1, <1>3, <3>a, <4>2
          <5>2. i = j
            BY <3>4, <5>1
          <5>3. CASE y < 0
            <6>1. j = pos - nb + k - 1 + L
              BY <3>4, <3>a, <5>3
            <6> QED BY <1>1, <3>a, <5>2, <6>1
          <5>4. CASE ~ (y < 0)
            <6>1. j = pos - nb + k - 1
              BY <3>4, <3>a, <5>4
            <6> QED BY <1>1, <3>a, <5>2, <6>1
          <5> QED BY <5>3, <5>4
        <4> QED BY <4>1, <4>2
      <3>6. c2[k] = r.buffer[j]
        <4>1. c2[k] = [r.buffer EXCEPT ![pos] = p][j]
          BY <1>4, <2>1, <3>5 DEF i
        <4> QED BY <1>1, <3>4, <3>5, <4>1
      <3>7. Append(c, p)[k] = c[k]
        BY <1>5, <3>1
      <3> QED BY <3>2, <3>6, <3>7 DEF j
    <2>4. CASE k = nb + 1
      <3> DEFINE i == x % L
      <3>1. i = IF x < 0 THEN x + L ELSE x
        BY <2>2
      <3> HIDE DEF i, L
      <3>a. x = pos2 - 1
        BY <1>1, <1>3, <2>4
      <3>2. i = pos
        <4> HIDE DEF x, pos2
        <4>1. CASE pos = L - 1
          BY <1>1, <1>3, <3>1, <3>a, <4>1
        <4>2. CASE pos # L - 1
          BY <1>1, <1>3, <3>1, <3>a, <4>2
        <4> QED BY <4>1, <4>2
      <3>3. c2[k] = p
        <4>1. c2[k] = [r.buffer EXCEPT ![pos] = p][pos]
          BY <1>4, <2>1, <3>2 DEF i
        <4> QED BY <1>1, <4>1
      <3>4. Append(c, p)[k] = p
        BY <1>5, <2>4
      <3> QED BY <3>3, <3>4
    <2>5. k <= nb \/ k = nb + 1
      <3> HIDE DEF nb, c, c2, L
      <3>1. nb \in Int
        BY <1>1
      <3> QED BY <3>1
    <2> QED BY <2>3, <2>4, <2>5
  <1>7. Append(c, p) \in Seq(HoNumbers) /\ Len(Append(c, p)) = nb + 1
    BY <1>5
  <1> HIDE DEF c, c2
  <1>8. c2 = Append(c, p)
    BY <1>5, <1>6, <1>7, SeqEqual
  <1> QED BY <1>4, <1>8 DEF c, c2, r2

\* The oldest n leave a ring.
LEMMA RingShortened ==
  ASSUME NEW r \in HoRings, NEW n \in 0 .. r.pkt_nb, NEW r2, r2 = [r EXCEPT !.pkt_nb = @ - n]
  PROVE  r2 \in HoRings /\ Contents(r2) = SubSeq(Contents(r), n + 1, Len(Contents(r)))
  <1> DEFINE nb == r.pkt_nb  pos == r.pkt_pos  c == Contents(r)  c2 == Contents(r2)
             d == SubSeq(c, n + 1, Len(c))
  <1>1. nb \in 0 .. HoLength /\ pos \in 0 .. HoLength - 1 /\ HoLength \in Nat \ {0}
    BY HoAssumption DEF HoRings
  <1>2. r2 \in HoRings /\ r2.pkt_nb = nb - n /\ r2.pkt_pos = pos /\ r2.buffer = r.buffer
    <2>1. nb - n \in 0 .. HoLength
      BY <1>1
    <2> QED BY <2>1 DEF HoRings
  <1>3. c \in Seq(HoNumbers) /\ Len(c) = nb /\ c2 \in Seq(HoNumbers) /\ Len(c2) = nb - n
    BY <1>2, ContentsType
  <1>4. d \in Seq(HoNumbers) /\ Len(d) = nb - n /\ \A k \in 1 .. nb - n : d[k] = c[k + n]
    BY <1>1, <1>3
  <1>5. ASSUME NEW k \in 1 .. nb - n PROVE c2[k] = d[k]
    <2>1. c2[k] = r.buffer[(pos - (nb - n) + k - 1) % HoLength]
      BY <1>2, ContentsType
    <2>2. k + n \in 1 .. nb
      BY <1>1
    <2>3. c[k + n] = r.buffer[(pos - nb + (k + n) - 1) % HoLength]
      BY <2>2, ContentsType
    <2>4. pos - (nb - n) + k - 1 = pos - nb + (k + n) - 1
      BY <1>1
    <2> QED BY <1>4, <2>1, <2>3, <2>4
  <1> HIDE DEF c, c2, d
  <1>6. c2 = d
    BY <1>3, <1>4, <1>5, SeqEqual
  <1> QED BY <1>2, <1>6 DEF c, c2, d

\* What is made in n steps is in the last of the sets that each step leads to from the
\* one before.
StepsLead(n, S, base, step) ==
  n \in Nat /\ base \in S[0] /\ \A k \in 1 .. n : \A x \in S[k - 1] : step[k][x] \in S[k]

\* The function that takes the steps exists, and its last value is in the last set.
LEMMA StepsReach ==
  ASSUME NEW n, NEW S, NEW base, NEW step, StepsLead(n, S, base, step)
  PROVE  \E g : /\ g = [k \in 0 .. n |-> g[k]] /\ g[0] = base
                /\ \A k \in 0 .. n : g[k] \in S[k]
                /\ \A k \in 1 .. n : g[k] = step[k][g[k - 1]]
  <1> DEFINE U == UNION {S[k] : k \in 0 .. n}
             next == [k \in 1 .. n |-> [x \in U |-> IF x \in S[k - 1] THEN step[k][x] ELSE base]]
  <1>1. n \in Nat /\ base \in S[0] /\ \A k \in 1 .. n : \A x \in S[k - 1] : step[k][x] \in S[k]
    BY DEF StepsLead
  <1>2. base \in U
    <2>1. 0 \in 0 .. n
      BY <1>1
    <2> QED BY <1>1, <2>1
  <1>3. ASSUME NEW k \in 1 .. n, NEW x \in U
        PROVE  next[k][x] = (IF x \in S[k - 1] THEN step[k][x] ELSE base) /\ next[k][x] \in U
    <2>1. next[k][x] = (IF x \in S[k - 1] THEN step[k][x] ELSE base)
      OBVIOUS
    <2>2. k \in 0 .. n
      BY <1>1
    <2>3. x \in S[k - 1] => step[k][x] \in U
      BY <1>1, <2>2
    <2> HIDE DEF next, U
    <2> QED BY <1>2, <2>1, <2>3
  <1> HIDE DEF next, U
  <1>4. StepsWithin(n, U, base, next)
    BY <1>1, <1>2, <1>3 DEF StepsWithin
  <1>5. PICK g \in [0 .. n -> U] : g[0] = base /\ \A k \in 1 .. n : g[k] = next[k][g[k - 1]]
    BY <1>4, StepsExist
  <1> DEFINE T == {k \in 0 .. n : g[k] \in S[k]}
  <1>6. ASSUME NEW k \in 0 .. n - 1, k \in T PROVE g[k + 1] = step[k + 1][g[k]] /\ k + 1 \in T
    <2>1. k + 1 \in 1 .. n /\ k + 1 \in 0 .. n /\ (k + 1) - 1 = k /\ k \in 0 .. n /\ g[k] \in S[k] /\ g[k] \in U
      BY <1>1, <1>5, <1>6
    <2>2. g[k + 1] = next[k + 1][g[k]]
      BY <1>5, <2>1
    <2>3. next[k + 1][g[k]] = step[k + 1][g[k]]
      BY <1>3, <2>1
    <2>4. step[k + 1][g[k]] \in S[k + 1]
      BY <1>1, <2>1
    <2> QED BY <2>1, <2>2, <2>3, <2>4
  <1>7. 0 \in T
    <2>1. 0 \in 0 .. n
      BY <1>1
    <2> QED BY <1>1, <1>5, <2>1
  <1> HIDE DEF T
  <1>8. 0 .. n \subseteq T
    <2>1. \A k \in 0 .. n - 1 : k \in T => k + 1 \in T
      BY <1>6
    <2> QED BY <1>1, <1>7, <2>1, ReachesAll
  <1>9. \A k \in 0 .. n : g[k] \in S[k]
    BY <1>8 DEF T
  <1>10. ASSUME NEW k \in 1 .. n PROVE g[k] = step[k][g[k - 1]]
    <2>1. k - 1 \in 0 .. n - 1 /\ (k - 1) + 1 = k /\ k - 1 \in 0 .. n
      BY <1>1
    <2>2. k - 1 \in T
      BY <1>8, <2>1
    <2>3. g[(k - 1) + 1] = step[(k - 1) + 1][g[k - 1]]
      BY <1>6, <2>1, <2>2
    <2> QED BY <2>1, <2>3
  <1>11. g = [k \in 0 .. n |-> g[k]]
    BY <1>5
  <1> QED BY <1>5, <1>9, <1>10, <1>11

\* Packets in rings, and those that have gone.
RingsIn(prio, p) == Count(Contents(prio[0]), p) + Count(Contents(prio[1]), p) + Count(Contents(prio[2]), p)

\* When one ring changes, the rings hold what it has more, or less.
LEMMA RingsChange ==
  ASSUME NEW prio \in [Priorities -> HoRings], NEW i \in Priorities, NEW r \in HoRings, NEW p
  PROVE  LET prio2 == [prio EXCEPT ![i] = r] IN
         /\ prio2 \in [Priorities -> HoRings]
         /\ RingsIn(prio, p) \in Nat
         /\ Count(Contents(prio[i]), p) \in Nat /\ Count(Contents(r), p) \in Nat
         /\ RingsIn(prio2, p) = RingsIn(prio, p) - Count(Contents(prio[i]), p) + Count(Contents(r), p)
  <1> DEFINE prio2 == [prio EXCEPT ![i] = r]
             n(j) == Count(Contents(prio[j]), p)
             m(j) == Count(Contents(prio2[j]), p)
             c == Count(Contents(r), p)
  <1>0. Priorities = {0, 1, 2}
    BY DEF Priorities
  <1>1. prio2 \in [Priorities -> HoRings] /\ prio2[i] = r /\ \A j \in Priorities \ {i} : prio2[j] = prio[j]
    OBVIOUS
  <1>2. \A j \in Priorities : n(j) \in Nat
    BY ContentsType, CountType
  <1>3. c \in Nat
    BY ContentsType, CountType
  <1>4. m(i) = c /\ \A j \in Priorities \ {i} : m(j) = n(j)
    BY <1>1
  <1>5. RingsIn(prio, p) = n(0) + n(1) + n(2) /\ RingsIn(prio2, p) = m(0) + m(1) + m(2)
    BY DEF RingsIn
  <1> HIDE DEF n, m, c, prio2
  <1>6. n(0) \in Nat /\ n(1) \in Nat /\ n(2) \in Nat
    BY <1>0, <1>2
  <1>7. RingsIn(prio2, p) = RingsIn(prio, p) - n(i) + c
    <2>1. CASE i = 0
      <3>1. m(0) = c /\ m(1) = n(1) /\ m(2) = n(2)
        BY <1>0, <1>4, <2>1
      <3> QED BY <1>3, <1>5, <1>6, <2>1, <3>1
    <2>2. CASE i = 1
      <3>1. m(1) = c /\ m(0) = n(0) /\ m(2) = n(2)
        BY <1>0, <1>4, <2>2
      <3> QED BY <1>3, <1>5, <1>6, <2>2, <3>1
    <2>3. CASE i = 2
      <3>1. m(2) = c /\ m(1) = n(1) /\ m(0) = n(0)
        BY <1>0, <1>4, <2>3
      <3> QED BY <1>3, <1>5, <1>6, <2>3, <3>1
    <2> QED BY <1>0, <2>1, <2>2, <2>3
  <1>8. RingsIn(prio, p) \in Nat
    BY <1>5, <1>6
  <1> QED BY <1>1, <1>2, <1>3, <1>7, <1>8 DEF n, c, prio2

\* A packet that is buffered is in a ring or has gone.
BufferStates == [prio : [Priorities -> HoRings], gone : Seq(HoNumbers)]
\* buffer_packet, or the packet is freed.
LEMMA BufferKeeps ==
  ASSUME NEW s \in BufferStates, NEW q \in HoNumbers, NEW i \in -1 .. 2
  PROVE  LET t == Buffer(s, q, i) IN
         /\ t \in BufferStates
         /\ \A p : RingsIn(t.prio, p) + Count(t.gone, p)
                   = RingsIn(s.prio, p) + Count(s.gone, p) + (IF q = p THEN 1 ELSE 0)
  <1> DEFINE t == Buffer(s, q, i)
  <1>0. s.prio \in [Priorities -> HoRings] /\ s.gone \in Seq(HoNumbers)
    BY DEF BufferStates
  <1>z. \A p : RingsIn(s.prio, p) \in Nat /\ Count(s.gone, p) \in Nat
    <2> TAKE p
    <2>1. 0 \in Priorities /\ s.prio[0] \in HoRings
      BY <1>0 DEF Priorities
    <2> QED BY ONLY <1>0, <2>1, RingsChange, CountType
  <1>1. CASE i = -1 \/ (i # -1 /\ ~ (s.prio[i].pkt_nb < HoLength))
    <2>1. t = [s EXCEPT !.gone = Append(@, q)]
      BY <1>1 DEF Buffer
    <2>a. Append(s.gone, q) \in Seq(HoNumbers)
      BY <1>0
    <2> HIDE DEF t
    <2>2. t.prio = s.prio /\ t.gone = Append(s.gone, q) /\ t \in BufferStates
      BY <1>0, <2>1, <2>a DEF BufferStates
    <2>3. ASSUME NEW p
          PROVE  RingsIn(t.prio, p) + Count(t.gone, p)
                 = RingsIn(s.prio, p) + Count(s.gone, p) + (IF q = p THEN 1 ELSE 0)
      <3>1. Count(t.gone, p) = Count(s.gone, p) + (IF q = p THEN 1 ELSE 0)
        BY <1>0, <2>2, CountMore
      <3> QED BY <1>z, <2>2, <3>1
    <2> QED BY <2>2, <2>3 DEF t
  <1>2. CASE i # -1 /\ s.prio[i].pkt_nb < HoLength
    <2> DEFINE r == s.prio[i]  r2 == BufferPacket(r, q)
    <2>1. i \in Priorities /\ r \in HoRings
      BY <1>0, <1>2 DEF Priorities
    <2>2. r2 \in HoRings /\ Contents(r2) = Append(Contents(r), q) /\ Contents(r) \in Seq(HoNumbers)
      BY <1>2, <2>1, BufferPacketAppends, ContentsType
    <2>3. t = [s EXCEPT !.prio[i] = r2]
      BY <1>2 DEF Buffer
    <2> HIDE DEF r2
    <2>4. t.prio = [s.prio EXCEPT ![i] = r2] /\ t.gone = s.gone /\ t \in BufferStates
      BY <1>0, <2>1, <2>2, <2>3 DEF BufferStates
    <2> HIDE DEF t
    <2>5. ASSUME NEW p
          PROVE  RingsIn(t.prio, p) + Count(t.gone, p)
                 = RingsIn(s.prio, p) + Count(s.gone, p) + (IF q = p THEN 1 ELSE 0)
      <3>1. Count(Contents(r2), p) = Count(Contents(r), p) + (IF q = p THEN 1 ELSE 0)
        BY <2>2, CountMore
      <3>2. /\ RingsIn(s.prio, p) \in Nat /\ Count(Contents(r), p) \in Nat /\ Count(Contents(r2), p) \in Nat
            /\ RingsIn(t.prio, p) = RingsIn(s.prio, p) - Count(Contents(r), p) + Count(Contents(r2), p)
        <4>1. i \in Priorities /\ s.prio \in [Priorities -> HoRings] /\ r2 \in HoRings
          BY <1>0, <2>1, <2>2
        <4>2. LET prio2 == [s.prio EXCEPT ![i] = r2] IN
              /\ RingsIn(s.prio, p) \in Nat
              /\ Count(Contents(s.prio[i]), p) \in Nat /\ Count(Contents(r2), p) \in Nat
              /\ RingsIn(prio2, p) = RingsIn(s.prio, p) - Count(Contents(s.prio[i]), p) + Count(Contents(r2), p)
          BY ONLY <4>1, RingsChange
        <4> QED BY <2>4, <4>2
      <3> HIDE DEF r
      <3> QED BY <1>z, <2>4, <3>1, <3>2
    <2> QED BY <2>4, <2>5 DEF t
  <1> QED BY <1>1, <1>2

\* The part of a ring that is sent first, from the oldest packet on.
LEMMA FirstPartIs ==
  ASSUME NEW r \in HoRings, NEW first, first = FirstPart(r)
  PROVE  /\ first.n = (IF r.pkt_pos > r.pkt_nb THEN r.pkt_nb ELSE r.pkt_nb - r.pkt_pos)
         /\ \A k \in 1 .. first.n :
              first.at + k - 1 \in 0 .. HoLength - 1 /\ r.buffer[first.at + k - 1] = Contents(r)[k]
  <1> DEFINE nb == r.pkt_nb  pos == r.pkt_pos  L == HoLength
  <1>1. nb \in 0 .. L /\ pos \in 0 .. L - 1 /\ L \in Nat \ {0}
    BY HoAssumption DEF HoRings
  <1>2. /\ first.n = (IF pos > nb THEN nb ELSE nb - pos)
        /\ first.at = (IF pos > nb THEN pos - nb ELSE L + pos - nb)
    BY DEF FirstPart
  <1> HIDE DEF nb, pos, L
  <1>3. ASSUME NEW k \in 1 .. first.n
        PROVE  first.at + k - 1 \in 0 .. L - 1 /\ r.buffer[first.at + k - 1] = Contents(r)[k]
    <2> DEFINE x == pos - nb + k - 1
    <2>1. k \in 1 .. nb
      BY <1>1, <1>2
    <2>2. x \in (-L) .. (L - 1) /\ Contents(r)[k] = r.buffer[x % L]
      BY <2>1, ContentsType DEF nb, pos, L
    <2>3. x % L = (IF x < 0 THEN x + L ELSE x) /\ x % L \in 0 .. L - 1
      BY <2>2, WrappedOnce DEF L
    <2> DEFINE y == x % L
    <2>4. y = (IF x < 0 THEN x + L ELSE x) /\ y \in 0 .. L - 1
      BY <2>3
    <2> HIDE DEF y
    <2>5. first.at + k - 1 = y
      <3>1. CASE pos > nb
        BY <1>1, <1>2, <2>1, <2>4, <3>1
      <3>2. CASE ~ (pos > nb)
        <4>1. x < 0
          BY <1>1, <1>2, <2>1, <3>2
        <4> QED BY <1>1, <1>2, <2>1, <2>4, <3>2, <4>1
      <3> QED BY <3>1, <3>2
    <2> QED BY <2>2, <2>4, <2>5 DEF y
  <1> QED BY <1>2, <1>3 DEF nb, pos, L

\* A call that does not send a full ring at once moves the oldest packets of a ring to
\* those that have gone.
SendStates ==
  [prio : [Priorities -> HoRings], gone : Seq(HoNumbers), room : Nat, stop : BOOLEAN, wrapped : BOOLEAN]

\* One ring is sent: what leaves the ring has gone.
LEMMA SendRingKeeps ==
  ASSUME NEW s \in SendStates, NEW i \in Priorities, ~ SendRing(s, i).wrapped
  PROVE  LET t == SendRing(s, i) IN
         /\ ~ s.wrapped /\ t \in SendStates
         /\ \A p : RingsIn(t.prio, p) + Count(t.gone, p) = RingsIn(s.prio, p) + Count(s.gone, p)
  <1> DEFINE t == SendRing(s, i)
             r == s.prio[i]
             first == FirstPart(r)
             nb == r.pkt_nb
             pos == r.pkt_pos
             L == HoLength
             k1 == FirstSent(r, s.room)
             again == pos <= nb /\ Sent8(k1) = first.n
             k2 == SecondSent(r, s.room)
             n == Sent8(k1 + k2)
             a == RingPart(r, first.at, k1)
             b == RingPart(r, 0, k2)
             c == Contents(r)
  <1>1. /\ s.prio \in [Priorities -> HoRings] /\ s.gone \in Seq(HoNumbers) /\ s.room \in Nat
        /\ s.stop \in BOOLEAN /\ s.wrapped \in BOOLEAN
    BY DEF SendStates
  <1>2. r \in HoRings
    BY <1>1
  <1>3. nb \in 0 .. L /\ pos \in 0 .. L - 1 /\ r.buffer \in [0 .. L - 1 -> HoNumbers] /\ L \in Nat \ {0}
    BY <1>2, HoAssumption DEF HoRings
  <1>7. s.wrapped = FALSE \/ s.wrapped = TRUE
    BY <1>1
  <1>4. CASE s.stop \/ nb = 0
    <2>1. t = s
      BY <1>4, Zenon DEF SendRing
    <2> HIDE DEF t
    <2> QED BY <2>1, <1>1, <1>7 DEF t
  <1>5. CASE ~ (s.stop \/ nb = 0)
    <2>1. t = [prio |-> [s.prio EXCEPT ![i].pkt_nb = @ - n], room |-> s.room - k1 - k2,
               stop |-> nb > n, wrapped |-> s.wrapped \/ n # k1 + k2, gone |-> s.gone \o a \o b]
      <3>1. t = Shorten(s, i, k1, k2)
        BY <1>5, Zenon DEF SendRing
      <3>2. Shorten(s, i, k1, k2)
            = [prio |-> [s.prio EXCEPT ![i].pkt_nb = @ - n], room |-> s.room - k1 - k2,
               stop |-> nb > n, wrapped |-> s.wrapped \/ n # k1 + k2, gone |-> s.gone \o a \o b]
        <4> HIDE DEF k1, k2
        <4> QED BY Zenon DEF Shorten
      <3> HIDE DEF t, k1, k2, again, first, n, a, b, nb
      <3> QED BY <3>1, <3>2
    <2>k. /\ k1 = TryTx(first.n, s.room)
          /\ again = (pos <= nb /\ Sent8(k1) = first.n)
          /\ k2 = IF again THEN TryTx(pos, s.room - k1) ELSE 0
      BY Zenon DEF FirstSent, SecondSent
    <2> HIDE DEF k1, k2
    <2>2. /\ first.n = (IF pos > nb THEN nb ELSE nb - pos)
          /\ \A k \in 1 .. first.n : first.at + k - 1 \in 0 .. L - 1 /\ r.buffer[first.at + k - 1] = c[k]
      BY ONLY <1>2, FirstPartIs
    <2> HIDE DEF first, c
    <2>3. first.n \in 0 .. nb
      BY <1>3, <2>2
    <2>4. k1 \in 0 .. first.n /\ k1 <= s.room
      BY <1>1, <2>3, <2>k DEF TryTx
    <2>5. again => pos <= nb /\ k1 = nb - pos
      <3> SUFFICES ASSUME again PROVE pos <= nb /\ k1 = nb - pos
        OBVIOUS
      <3>1. pos <= nb /\ first.n = nb - pos /\ k1 % L = first.n
        BY <1>3, <2>2 DEF Sent8
      <3> HIDE DEF k1
      <3>2. k1 # L
        <4> SUFFICES ASSUME k1 = L PROVE FALSE
          OBVIOUS
        <4>1. k1 = L * 1 + 0 /\ 0 \in 0 .. L - 1
          BY <1>3
        <4>2. k1 % L = 0
          BY <1>3, <4>1, RemainderUnique
        <4> QED BY <1>3, <2>3, <2>4, <3>1, <4>2
      <3>3. k1 \in 0 .. L - 1
        BY <1>3, <2>3, <2>4, <3>2
      <3>4. k1 % L = k1
        BY <1>3, <3>3, RemainderSmall
      <3> QED BY <3>1, <3>4
    <2>6. k2 \in 0 .. pos /\ k2 <= s.room - k1 /\ (k2 # 0 => again)
      <3>1. s.room - k1 \in Nat
        BY <1>1, <2>3, <2>4
      <3> HIDE DEF again, k1
      <3> QED BY <1>3, <2>k, <3>1 DEF TryTx
    <2> HIDE DEF k1, k2, again
    <2>7. n = k1 + k2 /\ ~ s.wrapped
      <3> HIDE DEF n, a, b
      <3>1. t.wrapped = (s.wrapped \/ n # k1 + k2)
        BY <2>1
      <3> QED BY <3>1
    <2> HIDE DEF n
    <2>8. n \in 0 .. nb
      BY <1>3, <2>2, <2>3, <2>4, <2>5, <2>6, <2>7
    <2>9. c \in Seq(HoNumbers) /\ Len(c) = nb
          /\ \A k \in 1 .. nb : pos - nb + k - 1 \in (-L) .. (L - 1) /\ c[k] = r.buffer[(pos - nb + k - 1) % L]
      BY ONLY <1>2, ContentsType DEF c
    <2>a. a = [k \in 1 .. k1 |-> r.buffer[first.at + k - 1]] /\ b = [k \in 1 .. k2 |-> r.buffer[0 + k - 1]]
      BY Zenon DEF RingPart
    <2> HIDE DEF a, b
    <2>10. a \in Seq(HoNumbers) /\ Len(a) = k1 /\ \A k \in 1 .. k1 : a[k] = c[k]
      <3>1. \A k \in 1 .. k1 : k \in 1 .. first.n
        BY <2>3, <2>4
      <3>2. \A k \in 1 .. k1 : r.buffer[first.at + k - 1] = c[k] /\ r.buffer[first.at + k - 1] \in HoNumbers
        BY <1>3, <2>2, <3>1
      <3>3. k1 \in Nat
        BY <2>3, <2>4
      <3> DEFINE e(k) == r.buffer[first.at + k - 1]
      <3>4. a = [k \in 1 .. k1 |-> e(k)] /\ \A k \in 1 .. k1 : e(k) = c[k] /\ e(k) \in HoNumbers
        BY <2>a, <3>2
      <3> HIDE DEF e
      <3>5. a \in [1 .. k1 -> HoNumbers] /\ \A k \in 1 .. k1 : a[k] = e(k)
        BY <3>4
      <3> QED BY <3>3, <3>4, <3>5
    <2>11. b \in Seq(HoNumbers) /\ Len(b) = k2 /\ \A k \in 1 .. k2 : b[k] = c[k1 + k]
      <3>1. ASSUME NEW k \in 1 .. k2 PROVE r.buffer[k - 1] \in HoNumbers /\ r.buffer[k - 1] = c[k1 + k]
        <4>1. k - 1 \in 0 .. L - 1 /\ k1 = nb - pos /\ pos <= nb /\ k1 + k \in 1 .. nb
          BY SMTT(60), <1>3, <2>5, <2>6
        <4>2. pos - nb + (k1 + k) - 1 = k - 1
          <5> HIDE DEF pos, nb
          <5>1. pos \in Int /\ nb \in Int /\ k \in Int /\ k1 = nb - pos
            BY <1>3, <2>6, <4>1
          <5> QED BY <5>1
        <4>3. (k - 1) % L = k - 1
          BY <1>3, <4>1, RemainderSmall
        <4>4. c[k1 + k] = r.buffer[(pos - nb + (k1 + k) - 1) % L]
          BY <2>9, <4>1
        <4> QED BY <1>3, <4>1, <4>2, <4>3, <4>4
      <3>2. k2 \in Nat
        BY <1>3, <2>6
      <3>3. \A k \in 1 .. k2 : 0 + k - 1 = k - 1
        BY <3>2
      <3> DEFINE e(k) == r.buffer[0 + k - 1]
      <3>4. b = [k \in 1 .. k2 |-> e(k)] /\ \A k \in 1 .. k2 : e(k) = c[k1 + k] /\ e(k) \in HoNumbers
        BY <2>a, <3>1, <3>3
      <3> HIDE DEF e
      <3>5. b \in [1 .. k2 -> HoNumbers] /\ \A k \in 1 .. k2 : b[k] = e(k)
        BY <3>4
      <3> QED BY <3>2, <3>4, <3>5
    <2>12. a \o b = SubSeq(c, 1, n)
      <3> DEFINE ab == a \o b  d == SubSeq(c, 1, n)
      <3>0. k1 \in Nat /\ k2 \in Nat
        BY <1>3, <2>3, <2>4, <2>6
      <3>1. ab \in Seq(HoNumbers) /\ Len(ab) = n
            /\ \A k \in 1 .. n : ab[k] = IF k <= k1 THEN a[k] ELSE b[k - k1]
        BY SMTT(60), <2>7, <2>10, <2>11, <3>0
      <3>2. d \in Seq(HoNumbers) /\ Len(d) = n /\ \A k \in 1 .. n : d[k] = c[k]
        BY <2>8, <2>9
      <3> HIDE DEF ab, d
      <3>3. ASSUME NEW k \in 1 .. n PROVE ab[k] = d[k]
        <4>1. CASE k <= k1
          <5>1. k \in 1 .. k1
            BY <3>0, <4>1
          <5> QED BY <2>10, <3>1, <3>2, <4>1, <5>1
        <4>2. CASE ~ (k <= k1)
          <5>1. k - k1 \in 1 .. k2 /\ k1 + (k - k1) = k
            BY <2>7, <3>0, <4>2
          <5> QED BY <2>11, <3>1, <3>2, <4>2, <5>1
        <4> QED BY <4>1, <4>2
      <3>4. ab = d
        BY <3>1, <3>2, <3>3, SeqEqual
      <3> QED BY <3>4 DEF ab, d
    <2> DEFINE r2 == [r EXCEPT !.pkt_nb = @ - n]
    <2>13. r2 \in HoRings /\ Contents(r2) = SubSeq(c, n + 1, Len(c))
      BY ONLY <1>2, <2>8, RingShortened DEF c, nb
    <2>14. t.prio = [s.prio EXCEPT ![i] = r2] /\ t.gone = (s.gone \o a) \o b
      BY <2>1
    <2>15. t \in SendStates
      <3>1. [s.prio EXCEPT ![i] = r2] \in [Priorities -> HoRings]
        BY <1>1, <2>13
      <3>2. (s.gone \o a) \o b \in Seq(HoNumbers)
        BY <1>1, <2>10, <2>11
      <3>3. s.room - k1 - k2 \in Nat
        BY <1>1, <1>3, <2>3, <2>4, <2>6
      <3>4. t.room = s.room - k1 - k2 /\ t.stop \in BOOLEAN /\ t.wrapped \in BOOLEAN
            /\ t = [prio |-> t.prio, room |-> t.room, stop |-> t.stop, wrapped |-> t.wrapped, gone |-> t.gone]
        BY <2>1
      <3> HIDE DEF t, r2
      <3> QED BY <2>14, <3>1, <3>2, <3>3, <3>4 DEF SendStates
    <2> HIDE DEF t, r2
    <2>16. ASSUME NEW p
           PROVE  RingsIn(t.prio, p) + Count(t.gone, p) = RingsIn(s.prio, p) + Count(s.gone, p)
      <3>1. LET prio2 == [s.prio EXCEPT ![i] = r2] IN
            /\ RingsIn(s.prio, p) \in Nat
            /\ Count(Contents(s.prio[i]), p) \in Nat /\ Count(Contents(r2), p) \in Nat
            /\ RingsIn(prio2, p) = RingsIn(s.prio, p) - Count(Contents(s.prio[i]), p) + Count(Contents(r2), p)
        <4>1. s.prio \in [Priorities -> HoRings] /\ r2 \in HoRings
          BY <1>1, <2>13
        <4> QED BY ONLY <4>1, i \in Priorities, RingsChange
      <3>2. RingsIn(t.prio, p) = RingsIn(s.prio, p) - Count(c, p) + Count(Contents(r2), p)
        BY <2>14, <3>1 DEF c
      <3>3. Count(c, p) = Count(SubSeq(c, 1, n), p) + Count(Contents(r2), p)
        <4>1. n \in 0 .. Len(c) /\ c \in Seq(HoNumbers)
          BY <2>8, <2>9
        <4>2. Count(c, p) = Count(SubSeq(c, 1, n), p) + Count(SubSeq(c, n + 1, Len(c)), p)
          BY ONLY <4>1, CountParts
        <4> QED BY <2>13, <4>2
      <3>4. Count(SubSeq(c, 1, n), p) = Count(a, p) + Count(b, p)
        <4>1. Count(a \o b, p) = Count(a, p) + Count(b, p)
          BY ONLY <2>10, <2>11, CountBoth
        <4> QED BY <2>12, <4>1
      <3>5. Count(t.gone, p) = Count(s.gone, p) + Count(a, p) + Count(b, p)
        <4>1. s.gone \o a \in Seq(HoNumbers)
          BY <1>1, <2>10
        <4>2. Count((s.gone \o a) \o b, p) = Count(s.gone \o a, p) + Count(b, p)
          BY ONLY <4>1, <2>11, CountBoth
        <4>3. Count(s.gone \o a, p) = Count(s.gone, p) + Count(a, p)
          BY ONLY <1>1, <2>10, CountBoth
        <4> QED BY <2>14, <4>2, <4>3
      <3>6. Count(s.gone, p) \in Nat /\ Count(a, p) \in Nat /\ Count(b, p) \in Nat /\ Count(c, p) \in Nat
            /\ Count(SubSeq(c, 1, n), p) \in Nat /\ Count(Contents(r2), p) \in Nat /\ RingsIn(s.prio, p) \in Nat
        <4>1. SubSeq(c, 1, n) \in Seq(HoNumbers)
          BY <2>8, <2>9
        <4>2. Count(SubSeq(c, 1, n), p) \in Nat
          BY ONLY <4>1, CountType
        <4>3. Count(s.gone, p) \in Nat /\ Count(a, p) \in Nat /\ Count(b, p) \in Nat /\ Count(c, p) \in Nat
          BY ONLY <1>1, <2>9, <2>10, <2>11, CountType
        <4> QED BY <3>1, <4>2, <4>3
      <3> QED BY <3>2, <3>3, <3>4, <3>5, <3>6
    <2> QED BY <2>7, <2>15, <2>16 DEF t
  <1> QED BY <1>4, <1>5

\* The priority of a packet is one of the rings', or OUT_DISCARD.
LEMMA PrioritiesInRange == PacketPriorities \subseteq -1 .. 2
  <1>1. Cardinality(Priorities) = 3
    <2>1. \A a, b \in Int : Cardinality(a .. b) = IF a > b THEN 0 ELSE b - a + 1
      BY FS_Interval
    <2>2. Cardinality(0 .. 2) = 3
      <3>1. 0 \in Int /\ 2 \in Int
        OBVIOUS
      <3>2. Cardinality(0 .. 2) = IF 0 > 2 THEN 0 ELSE 2 - 0 + 1
        BY <2>1, <3>1
      <3> QED BY <3>2
    <2> QED BY <2>2 DEF Priorities
  <1> SUFFICES ASSUME NEW i \in PacketPriorities PROVE i \in -1 .. 2
    OBVIOUS
  <1>2. CASE i # 0
    <2>1. PICK d \in 0 .. 3, b \in {0, 2} : i = PriorityOf(d, b)
      BY <1>1, <1>2 DEF PacketPriorities
    <2>2. i = IF d = 0 THEN b ELSE 3 - d - 1
      BY <1>1, <2>1 DEF PriorityOf
    <2> QED BY <2>2
  <1> QED BY <1>2

\* A burst is buffered: every packet of it is in a ring or has gone, and the rings
\* keep what they held.
New(k, p) == IF p \in ho_n + 1 .. ho_n + k THEN 1 ELSE 0
BufferedAfter(k) ==
  {x \in BufferStates :
     \A p \in HoNumbers : RingsIn(x.prio, p) + Count(x.gone, p) = RingsIn(ho_prio, p) + New(k, p)}
BufferedBy(f, n, is) ==
  f = [k \in 0 .. n |->
        IF k = 0 THEN [prio |-> ho_prio, gone |-> <<>>] ELSE Buffer(f[k - 1], ho_n + k, is[k])]

\* No packet is buffered yet.
LEMMA BufferedStart ==
  ASSUME ho_prio \in [Priorities -> HoRings], ho_n \in 0 .. HoPackets
  PROVE  [prio |-> ho_prio, gone |-> <<>>] \in BufferedAfter(0)
  <1> DEFINE x == [prio |-> ho_prio, gone |-> <<>>]
  <1>1. x \in BufferStates /\ x.prio = ho_prio /\ x.gone = <<>>
    BY DEF BufferStates
  <1> HIDE DEF x
  <1>2. ASSUME NEW p \in HoNumbers
        PROVE  RingsIn(x.prio, p) + Count(x.gone, p) = RingsIn(ho_prio, p) + New(0, p)
    <2>1. New(0, p) = 0
      BY HoAssumption DEF New, HoNumbers
    <2>2. Count(x.gone, p) = 0
      BY <1>1, CountNone
    <2> QED BY <1>1, <2>1, <2>2
  <1> QED BY <1>1, <1>2 DEF BufferedAfter, x

\* One more packet of the burst is buffered.
LEMMA BufferedStep ==
  ASSUME ho_prio \in [Priorities -> HoRings], ho_n \in 0 .. HoPackets,
         NEW k \in Nat \ {0}, ho_n + k <= HoPackets, NEW i \in -1 .. 2, NEW x \in BufferedAfter(k - 1)
  PROVE  Buffer(x, ho_n + k, i) \in BufferedAfter(k)
  <1> DEFINE q == ho_n + k  t == Buffer(x, q, i)
  <1>0. HoPackets \in Nat /\ ho_n \in Nat /\ k \in Nat \ {0}
    BY HoAssumption
  <1>1. x \in BufferStates /\ q \in HoNumbers
    BY <1>0 DEF BufferedAfter, HoNumbers
  <1>2. t \in BufferStates
        /\ \A p : RingsIn(t.prio, p) + Count(t.gone, p)
                  = RingsIn(x.prio, p) + Count(x.gone, p) + (IF q = p THEN 1 ELSE 0)
    BY ONLY <1>1, i \in -1 .. 2, BufferKeeps
  <1> HIDE DEF t
  <1>3. ASSUME NEW p \in HoNumbers
        PROVE  RingsIn(t.prio, p) + Count(t.gone, p) = RingsIn(ho_prio, p) + New(k, p)
    <2>1. RingsIn(x.prio, p) + Count(x.gone, p) = RingsIn(ho_prio, p) + New(k - 1, p)
      BY DEF BufferedAfter
    <2>2. New(k, p) = New(k - 1, p) + (IF q = p THEN 1 ELSE 0) /\ New(k - 1, p) \in Nat
      BY <1>0 DEF New, HoNumbers
    <2>3. RingsIn(ho_prio, p) \in Nat
      <3>1. 0 \in Priorities /\ ho_prio[0] \in HoRings
        BY DEF Priorities
      <3> QED BY ONLY ho_prio \in [Priorities -> HoRings], <3>1, RingsChange
    <2> HIDE DEF q
    <2>4. RingsIn(t.prio, p) + Count(t.gone, p)
          = RingsIn(x.prio, p) + Count(x.gone, p) + (IF q = p THEN 1 ELSE 0)
      BY <1>2
    <2> QED BY <2>1, <2>2, <2>3, <2>4
  <1> QED BY <1>2, <1>3 DEF BufferedAfter, t

\* All packets of the burst are in a ring or have gone.
LEMMA BufferedReaches ==
  ASSUME ho_prio \in [Priorities -> HoRings], ho_n \in 0 .. HoPackets,
         NEW n \in Nat, ho_n + n <= HoPackets, NEW is \in [1 .. n -> PacketPriorities]
  PROVE  Buffered(n, is) \in BufferedAfter(n)
  <1> DEFINE base == [prio |-> ho_prio, gone |-> <<>>]
             S == [k \in 0 .. n |-> BufferedAfter(k)]
             step == [k \in 1 .. n |-> [x \in BufferedAfter(k - 1) |-> Buffer(x, ho_n + k, is[k])]]
  <1>0. base \in BufferedAfter(0)
    BY BufferedStart
  <1>1. ASSUME NEW k \in 1 .. n, NEW x \in BufferedAfter(k - 1)
        PROVE  Buffer(x, ho_n + k, is[k]) \in BufferedAfter(k)
    <2>1. k \in Nat \ {0} /\ ho_n + k <= HoPackets
      BY HoAssumption
    <2>2. is[k] \in -1 .. 2
      BY PrioritiesInRange
    <2> QED BY ONLY ho_prio \in [Priorities -> HoRings], ho_n \in 0 .. HoPackets, <2>1, <2>2,
                    x \in BufferedAfter(k - 1), BufferedStep
  <1>2. ASSUME NEW k \in 0 .. n PROVE S[k] = BufferedAfter(k)
    OBVIOUS
  <1>3. ASSUME NEW k \in 1 .. n PROVE k \in 0 .. n /\ k - 1 \in 0 .. n /\ 0 \in 0 .. n
    OBVIOUS
  <1>4. ASSUME NEW k \in 1 .. n, NEW x \in S[k - 1]
        PROVE  step[k][x] = Buffer(x, ho_n + k, is[k]) /\ step[k][x] \in S[k]
    <2>1. x \in BufferedAfter(k - 1)
      BY <1>2, <1>3
    <2>2. step[k][x] = Buffer(x, ho_n + k, is[k])
      BY <2>1
    <2> HIDE DEF step, S
    <2> QED BY <1>1, <1>2, <1>3, <2>1, <2>2
  <1> HIDE DEF step, S, base
  <1>5. StepsLead(n, S, base, step)
    <2>1. 0 \in 0 .. n
      OBVIOUS
    <2> QED BY <1>0, <1>2, <1>4, <2>1 DEF StepsLead
  <1>6. PICK g : /\ g = [k \in 0 .. n |-> g[k]] /\ g[0] = base
                 /\ \A k \in 0 .. n : g[k] \in S[k]
                 /\ \A k \in 1 .. n : g[k] = step[k][g[k - 1]]
    BY <1>5, StepsReach
  <1>7. ASSUME NEW k \in 0 .. n
        PROVE  g[k] = IF k = 0 THEN base ELSE Buffer(g[k - 1], ho_n + k, is[k])
    <2>1. CASE k # 0
      <3>1. k \in 1 .. n /\ k - 1 \in 0 .. n
        BY <2>1
      <3> QED BY <1>4, <1>6, <2>1, <3>1
    <2> QED BY <1>6, <2>1
  <1>8. BufferedBy(g, n, is)
    BY <1>6, <1>7, Zenon DEF BufferedBy, base
  <1> DEFINE f == CHOOSE f : BufferedBy(f, n, is)
  <1>9. BufferedBy(f, n, is)
    BY <1>8, Zenon
  <1>10. Buffered(n, is) = f[n]
    BY Zenon DEF Buffered, BufferedBy
  <1> HIDE DEF f
  <1>11. f[0] = base /\ \A k \in 1 .. n : f[k] = Buffer(f[k - 1], ho_n + k, is[k])
    BY <1>9 DEF BufferedBy, base
  <1> DEFINE T == {k \in 0 .. n : f[k] \in BufferedAfter(k)}
  <1>12. ASSUME NEW k \in 0 .. n - 1, k \in T PROVE k + 1 \in T
    <2>1. k + 1 \in 1 .. n /\ k + 1 \in 0 .. n /\ (k + 1) - 1 = k /\ f[k] \in BufferedAfter(k)
      BY <1>12
    <2>2. f[k + 1] = Buffer(f[k], ho_n + (k + 1), is[k + 1])
      BY <1>11, <2>1
    <2>3. Buffer(f[k], ho_n + (k + 1), is[k + 1]) \in BufferedAfter(k + 1)
      BY <1>1, <2>1
    <2> QED BY <2>1, <2>2, <2>3
  <1>13. 0 \in T
    BY <1>0, <1>11
  <1> HIDE DEF T
  <1>14. 0 .. n \subseteq T
    BY <1>12, <1>13, ReachesAll
  <1>15. n \in T
    BY <1>14
  <1> QED BY <1>10, <1>15 DEF T

\* The four counts a packet is held by are numbers.
LEMMA HeldType ==
  ASSUME HoTypeOK, NEW p
  PROVE  /\ InRings(p) = RingsIn(ho_prio, p)
         /\ InRings(p) \in Nat /\ Count(ho_ops, p) \in Nat /\ Cardinality({p} \cap ho_dev) \in Nat
         /\ Count(ho_mbufs, p) \in Nat /\ HeldTimes(p) \in Nat
  <1>1. InRings(p) = RingsIn(ho_prio, p)
    BY Zenon DEF InRings, RingsIn
  <1>2. RingsIn(ho_prio, p) \in Nat
    <2>1. ho_prio \in [Priorities -> HoRings] /\ 0 \in Priorities
      BY DEF HoTypeOK, Priorities
    <2>2. ho_prio[0] \in HoRings
      BY <2>1
    <2> QED BY ONLY <2>1, <2>2, RingsChange
  <1>3. Count(ho_ops, p) \in Nat /\ Count(ho_mbufs, p) \in Nat
    <2>1. ho_ops \in Seq(HoIds) /\ ho_mbufs \in Seq(HoIds)
      BY DEF HoTypeOK
    <2> QED BY ONLY <2>1, CountType
  <1>4. Cardinality({p} \cap ho_dev) \in Nat
    <2>1. IsFiniteSet({p}) /\ {p} \cap ho_dev \subseteq {p}
      BY FS_Singleton
    <2>2. IsFiniteSet({p} \cap ho_dev)
      BY ONLY <2>1, FS_Subset
    <2> QED BY ONLY <2>2, FS_CardinalityType
  <1>5. HeldTimes(p) = InRings(p) + Count(ho_ops, p) + Cardinality({p} \cap ho_dev) + Count(ho_mbufs, p)
    BY Zenon DEF HeldTimes
  <1> QED BY <1>1, <1>2, <1>3, <1>4, <1>5

\* What a packet is held by in the next state is a number, too.
LEMMA HeldNext ==
  ASSUME NEW p
  PROVE  (HoTypeOK => HeldTimes(p) \in Nat)'
  <1>1. HoTypeOK => HeldTimes(p) \in Nat
    BY HeldType
  <1> QED BY <1>1, PTL

\* Packets that leave are counted.
LEMMA LeaveCounts ==
  ASSUME NEW left \in [1 .. HoPackets -> Nat], NEW gone \in Seq(HoNumbers)
  PROVE  /\ Leave(left, gone) \in [1 .. HoPackets -> Nat]
         /\ \A p \in 1 .. HoPackets : Leave(left, gone)[p] = left[p] + Count(gone, p) /\ Count(gone, p) \in Nat
  <1>1. \A p : Count(gone, p) \in Nat
    BY CountType
  <1>2. Leave(left, gone) = [p \in 1 .. HoPackets |-> left[p] + Count(gone, p)]
    BY Zenon DEF Leave
  <1> HIDE DEF Leave
  <1> QED BY <1>1, <1>2

\* What arrives and what was held is held or leaves.
Counted == \A p \in 1 .. HoPackets : HeldTimes(p) + ho_left[p] = IF p <= ho_n THEN 1 ELSE 0
\* When every packet is held as often as before, but for what arrived and what left, all is counted.
LEMMA CountedStays ==
  ASSUME HoTypeOK, HoTypeOK', Counted, NEW n \in Nat, ho_n' = ho_n + n,
         NEW gone \in Seq(HoNumbers), ho_left' = Leave(ho_left, gone),
         \A p \in 1 .. HoPackets : HeldTimes(p)' + Count(gone, p) = HeldTimes(p) + New(n, p)
  PROVE  Counted'
  <1> SUFFICES ASSUME NEW p \in 1 .. HoPackets
               PROVE  HeldTimes(p)' + ho_left'[p] = IF p <= ho_n' THEN 1 ELSE 0
    BY DEF Counted
  <1>1. HeldTimes(p)' + Count(gone, p) = HeldTimes(p) + New(n, p)
    OBVIOUS
  <1>2. HeldTimes(p) + ho_left[p] = IF p <= ho_n THEN 1 ELSE 0
    BY DEF Counted
  <1>3. ho_left \in [1 .. HoPackets -> Nat] /\ ho_n \in Nat
    BY HoAssumption DEF HoTypeOK
  <1>4. ho_left'[p] = ho_left[p] + Count(gone, p) /\ Count(gone, p) \in Nat
    <2>1. Leave(ho_left, gone)[p] = ho_left[p] + Count(gone, p) /\ Count(gone, p) \in Nat
      BY ONLY <1>3, gone \in Seq(HoNumbers), p \in 1 .. HoPackets, LeaveCounts
    <2> QED BY <2>1
  <1>5. HeldTimes(p) \in Nat
    BY HeldType
  <1>6. HeldTimes(p)' \in Nat
    BY HeldNext
  <1>7. New(n, p) = (IF p <= ho_n THEN 0 ELSE IF p <= ho_n' THEN 1 ELSE 0) /\ p \in Int
    BY <1>3 DEF New
  <1>8. ho_left[p] \in Nat
    BY <1>3
  <1> DEFINE h == HeldTimes(p)  h2 == HeldTimes(p)'  l == ho_left[p]  l2 == ho_left'[p]  c == Count(gone, p)
             v == New(n, p)
  <1> HIDE DEF h, h2, l, l2, c, v
  <1>9. h2 + c = h + v /\ h + l = (IF p <= ho_n THEN 1 ELSE 0) /\ l2 = l + c /\ c \in Nat /\ h \in Nat
        /\ h2 \in Nat /\ l \in Nat /\ v = (IF p <= ho_n THEN 0 ELSE IF p <= ho_n' THEN 1 ELSE 0)
    BY <1>1, <1>2, <1>4, <1>5, <1>6, <1>7, <1>8 DEF h, h2, l, l2, c, v
  <1>10. p <= ho_n => p <= ho_n'
    BY <1>3
  <1>11. h2 + l2 = IF p <= ho_n' THEN 1 ELSE 0
    BY <1>9, <1>10
  <1> QED BY <1>11 DEF h2, l2

\* A ring that was sent at once is not forgotten.
LEMMA WrappedStays ==
  ASSUME NEW s, NEW i, s.wrapped \in BOOLEAN
  PROVE  SendRing(s, i).wrapped \in BOOLEAN /\ (s.wrapped => SendRing(s, i).wrapped)
  <1>1. CASE s.stop \/ s.prio[i].pkt_nb = 0
    BY <1>1 DEF SendRing
  <1>2. CASE ~ (s.stop \/ s.prio[i].pkt_nb = 0)
    <2> DEFINE k1 == FirstSent(s.prio[i], s.room)  k2 == SecondSent(s.prio[i], s.room)
    <2>1. SendRing(s, i) = Shorten(s, i, k1, k2)
      BY <1>2, Zenon DEF SendRing
    <2> HIDE DEF k1, k2
    <2>2. Shorten(s, i, k1, k2).wrapped = (s.wrapped \/ Sent8(k1 + k2) # k1 + k2)
      BY DEF Shorten
    <2> QED BY <2>1, <2>2
  <1> QED BY <1>1, <1>2

\* handle_aggregator_bulk
LEMMA AggregateKeeps ==
  ASSUME HoldInv, NEW n \in Nat, ho_n + n <= HoPackets, ho_n' = ho_n + n, ho_mode' = ho_mode, HoAggregate(n)
  PROVE  HoldInv'
  <1>1. /\ ho_mode = "aggreg" /\ ~ ho_wrapped /\ HoTypeOK /\ Counted
        /\ UNCHANGED <<ho_esp, ho_dv, ho_mbufs, ho_mir>>
    BY DEF HoAggregate, HoldInv, Accounted, Counted
  <1>2. PICK is \in [1 .. n -> PacketPriorities], room \in 0 .. 2 * HoLength :
          LET filled == Buffered(n, is)
              start == [prio |-> filled.prio, gone |-> filled.gone, room |-> room, stop |-> FALSE,
                        wrapped |-> ho_wrapped]
              end == SendRing(SendRing(SendRing(start, 0), 1), 2)
          IN ho_prio' = end.prio /\ ho_wrapped' = end.wrapped /\ ho_left' = Leave(ho_left, end.gone)
    BY Zenon DEF HoAggregate
  <1> DEFINE filled == Buffered(n, is)
             start == [prio |-> filled.prio, gone |-> filled.gone, room |-> room, stop |-> FALSE,
                       wrapped |-> ho_wrapped]
             s1 == SendRing(start, 0)
             s2 == SendRing(s1, 1)
             end == SendRing(s2, 2)
  <1>3. ho_prio' = end.prio /\ ho_wrapped' = end.wrapped /\ ho_left' = Leave(ho_left, end.gone)
    BY <1>2, Zenon
  <1>4. ho_prio \in [Priorities -> HoRings] /\ ho_n \in 0 .. HoPackets /\ HoPackets \in Nat /\ HoLength \in Nat
    BY <1>1, HoAssumption DEF HoTypeOK
  <1>5. filled \in BufferedAfter(n)
    BY ONLY <1>4, n \in Nat, ho_n + n <= HoPackets, is \in [1 .. n -> PacketPriorities], BufferedReaches
  <1> HIDE DEF filled
  <1>6. start \in SendStates /\ start.prio = filled.prio /\ start.gone = filled.gone
    <2>1. filled.prio \in [Priorities -> HoRings] /\ filled.gone \in Seq(HoNumbers)
      BY <1>5 DEF BufferedAfter, BufferStates
    <2>2. room \in Nat /\ ho_wrapped \in BOOLEAN
      BY <1>4 DEF HoldInv, OtherModesIdle
    <2> QED BY <2>1, <2>2 DEF SendStates
  <1> HIDE DEF start
  <1>w. /\ end.wrapped \in BOOLEAN
        /\ ~ end.wrapped => ~ s2.wrapped
        /\ ~ s2.wrapped => ~ s1.wrapped
    <2>1. start.wrapped \in BOOLEAN
      BY <1>6 DEF SendStates
    <2>2. s1.wrapped \in BOOLEAN
      BY <2>1, WrappedStays
    <2> HIDE DEF s1
    <2>3. s2.wrapped \in BOOLEAN /\ (s1.wrapped => s2.wrapped)
      BY <2>2, WrappedStays
    <2> HIDE DEF s2
    <2>4. end.wrapped \in BOOLEAN /\ (s2.wrapped => end.wrapped)
      BY <2>3, WrappedStays
    <2> HIDE DEF end
    <2> QED BY <2>3, <2>4
  <1>7. OtherModesIdle'
    <2> HIDE DEF end
    <2> QED BY <1>1, <1>3, <1>w DEF HoldInv, OtherModesIdle, ho_mir
  <1>8. ASSUME ~ ho_wrapped' PROVE HoTypeOK' /\ Counted'
    <2>1. ~ end.wrapped /\ ~ s2.wrapped /\ ~ s1.wrapped
      <3> HIDE DEF end, s2, s1
      <3> QED BY <1>3, <1>8, <1>w
    <2>2. 0 \in Priorities /\ 1 \in Priorities /\ 2 \in Priorities
      BY DEF Priorities
    <2>3. s1 \in SendStates
          /\ \A p : RingsIn(s1.prio, p) + Count(s1.gone, p) = RingsIn(start.prio, p) + Count(start.gone, p)
      BY ONLY <1>6, <2>1, <2>2, SendRingKeeps DEF s1
    <2>4. s2 \in SendStates
          /\ \A p : RingsIn(s2.prio, p) + Count(s2.gone, p) = RingsIn(s1.prio, p) + Count(s1.gone, p)
      BY ONLY <2>1, <2>2, <2>3, SendRingKeeps DEF s2
    <2>5. end \in SendStates
          /\ \A p : RingsIn(end.prio, p) + Count(end.gone, p) = RingsIn(s2.prio, p) + Count(s2.gone, p)
      BY ONLY <2>1, <2>2, <2>4, SendRingKeeps DEF end
    <2> HIDE DEF s1, s2, end
    <2>6. end.prio \in [Priorities -> HoRings] /\ end.gone \in Seq(HoNumbers)
      BY <2>5 DEF SendStates
    <2>7. ho_left \in [1 .. HoPackets -> Nat]
      BY <1>1 DEF HoTypeOK
    <2>8. ho_left' \in [1 .. HoPackets -> Nat]
      BY <1>3, <2>6, <2>7, LeaveCounts
    <2>9. HoTypeOK'
      <3>1. ho_n' \in 0 .. HoPackets
        BY <1>4
      <3>2. ho_prio' \in [Priorities -> HoRings]
        BY <1>3, <2>6
      <3> QED BY <1>1, <2>8, <3>1, <3>2 DEF HoTypeOK, ho_esp, ho_dv, ho_mir
    <2>10. ASSUME NEW p \in 1 .. HoPackets
           PROVE  HeldTimes(p)' + Count(end.gone, p) = HeldTimes(p) + New(n, p)
      <3>1. RingsIn(end.prio, p) + Count(end.gone, p) = RingsIn(filled.prio, p) + Count(filled.gone, p)
        BY <1>6, <2>3, <2>4, <2>5
      <3>2. RingsIn(filled.prio, p) + Count(filled.gone, p) = RingsIn(ho_prio, p) + New(n, p)
        BY <1>4, <1>5 DEF BufferedAfter, HoNumbers
      <3>3. InRings(p)' = RingsIn(end.prio, p) /\ InRings(p) = RingsIn(ho_prio, p)
        BY <1>3, Zenon DEF InRings, RingsIn
      <3>4. InRings(p)' + Count(end.gone, p) = InRings(p) + New(n, p)
        BY <3>1, <3>2, <3>3
      <3>5. /\ HeldTimes(p)' = InRings(p)' + Count(ho_ops, p) + Cardinality({p} \cap ho_dev) + Count(ho_mbufs, p)
            /\ HeldTimes(p) = InRings(p) + Count(ho_ops, p) + Cardinality({p} \cap ho_dev) + Count(ho_mbufs, p)
        BY <1>1, Zenon DEF HeldTimes, ho_esp, ho_dv
      <3>6. InRings(p) \in Nat /\ Count(ho_ops, p) \in Nat /\ Cardinality({p} \cap ho_dev) \in Nat
            /\ Count(ho_mbufs, p) \in Nat
        BY <1>1, HeldType
      <3>7. InRings(p)' \in Nat /\ Count(end.gone, p) \in Nat /\ New(n, p) \in Nat
        <4>1. Count(end.gone, p) \in Nat
          BY ONLY <2>6, CountType
        <4>2. end.prio[0] \in HoRings
          BY <2>2, <2>6
        <4>3. RingsIn(end.prio, p) \in Nat
          BY ONLY <2>2, <2>6, <4>2, RingsChange
        <4> QED BY <3>3, <4>1, <4>3 DEF New
      <3> DEFINE x == InRings(p)  y == InRings(p)'  a == Count(ho_ops, p)  b == Cardinality({p} \cap ho_dev)
                 c == Count(ho_mbufs, p)  g == Count(end.gone, p)  h == HeldTimes(p)  k == HeldTimes(p)'
                 v == New(n, p)
      <3>8. /\ y + g = x + v /\ k = y + a + b + c /\ h = x + a + b + c
            /\ x \in Nat /\ y \in Nat /\ a \in Nat /\ b \in Nat /\ c \in Nat /\ g \in Nat /\ v \in Nat
        BY <3>4, <3>5, <3>6, <3>7
      <3> HIDE DEF x, y, a, b, c, g, h, k, v
      <3>9. k + g = h + v
        BY <3>8
      <3> QED BY <3>9 DEF g, h, k, v
    <2>11. Counted'
      BY ONLY <1>1, <2>9, n \in Nat, ho_n' = ho_n + n, <2>6, <1>3, <2>10, CountedStays
    <2> QED BY <2>9, <2>11
  <1> QED BY <1>1, <1>7, <1>8 DEF HoldInv, Accounted, Counted

\* A sequence of some elements is one of more.
LEMMA SeqWider ==
  ASSUME NEW S, NEW T, S \subseteq T, NEW s \in Seq(S)
  PROVE  s \in Seq(T)
  <1>1. Len(s) \in Nat /\ s \in [1 .. Len(s) -> T]
    OBVIOUS
  <1> QED BY <1>1

\* A packet is in the device once or not at all.
LEMMA InDevice ==
  ASSUME NEW p, NEW X
  PROVE  Cardinality({p} \cap X) = IF p \in X THEN 1 ELSE 0
  <1>1. {p} \cap X = IF p \in X THEN {p} ELSE {}
    OBVIOUS
  <1> QED BY <1>1, FS_EmptySet, FS_Singleton

\* A burst that arrives has each of its packets once.
LEMMA CountArriving ==
  ASSUME HoPackets \in Nat, ho_n \in Nat, NEW n \in Nat, ho_n + n <= HoPackets
  PROVE  /\ Arriving(n) \in Seq(HoIds) /\ Len(Arriving(n)) = n
         /\ \A k \in 1 .. n : Arriving(n)[k] = ho_n + k
         /\ \A p : Count(Arriving(n), p) = New(n, p)
  <1> DEFINE a == Arriving(n)
  <1>1. a = [k \in 1 .. n |-> ho_n + k]
    BY DEF Arriving
  <1>2. \A k \in 1 .. n : ho_n + k \in HoIds
    BY DEF HoIds
  <1> HIDE DEF a
  <1>3. a \in [1 .. n -> HoIds] /\ \A k \in 1 .. n : a[k] = ho_n + k
    BY <1>1, <1>2
  <1>4. a \in Seq(HoIds) /\ Len(a) = n /\ DOMAIN a = 1 .. n
    BY <1>3
  <1>5. \A i, j \in 1 .. Len(a) : a[i] = a[j] => i = j
    BY <1>3, <1>4
  <1>6. ToSet(a) = ho_n + 1 .. ho_n + n
    <2>1. ASSUME NEW x \in ho_n + 1 .. ho_n + n PROVE x \in ToSet(a)
      <3>1. x - ho_n \in 1 .. n /\ ho_n + (x - ho_n) = x
        OBVIOUS
      <3>2. a[x - ho_n] = x
        BY <1>3, <3>1
      <3> QED BY <1>4, <3>1, <3>2 DEF ToSet
    <2>2. ASSUME NEW x \in ToSet(a) PROVE x \in ho_n + 1 .. ho_n + n
      <3>1. PICK k \in 1 .. n : a[k] = x
        BY <1>4 DEF ToSet
      <3>2. x = ho_n + k
        BY <1>3, <3>1
      <3> QED BY <3>2
    <2> QED BY <2>1, <2>2
  <1>7. ASSUME NEW p PROVE Count(a, p) = New(n, p)
    <2>1. Count(a, p) = IF p \in ToSet(a) THEN 1 ELSE 0
      BY ONLY <1>4, <1>5, CountOnce
    <2> QED BY <1>6, <2>1 DEF New
  <1> QED BY <1>3, <1>4, <1>7 DEF a

\* As many elements as places.
LEMMA DistinctLength ==
  ASSUME NEW S, NEW s \in Seq(S), \A i, j \in 1 .. Len(s) : s[i] = s[j] => i = j
  PROVE  IsFiniteSet(ToSet(s)) /\ Cardinality(ToSet(s)) = Len(s)
  <1>1. Len(s) \in Nat /\ DOMAIN s = 1 .. Len(s)
    OBVIOUS
  <1>2. s \in Bijection(1 .. Len(s), ToSet(s))
    <2>1. s \in [1 .. Len(s) -> ToSet(s)]
      BY <1>1 DEF ToSet
    <2>2. \A x \in ToSet(s) : \E k \in 1 .. Len(s) : s[k] = x
      BY <1>1 DEF ToSet
    <2> QED BY <2>1, <2>2 DEF Bijection, Injection, Surjection, IsInjective
  <1>3. ExistsBijection(1 .. Len(s), ToSet(s))
    BY <1>2 DEF ExistsBijection
  <1>4. IsFiniteSet(1 .. Len(s)) /\ Cardinality(1 .. Len(s)) = Len(s)
    <2>1. 1 \in Int /\ Len(s) \in Int /\ Len(s) \in Nat
      BY <1>1
    <2>2. IsFiniteSet(1 .. Len(s)) /\ Cardinality(1 .. Len(s)) = IF 1 > Len(s) THEN 0 ELSE Len(s) - 1 + 1
      BY ONLY <2>1, FS_Interval
    <2> QED BY <2>1, <2>2
  <1> QED BY <1>3, <1>4, FS_Bijection

\* What a handler of handle_esp.c works on, and how often it has a packet.
EspStates ==
  {s \in [dev : SUBSET HoIds, ops : Seq(HoIds), count : Nat, pool : Int, gone : Seq(HoIds)] :
     s.count = Cardinality(s.dev) /\ s.pool + Len(s.ops) + s.count = HoOps}
EspTotal(s, p) == Count(s.ops, p) + Cardinality({p} \cap s.dev) + Count(s.gone, p)

\* Operations that are enqueued are in the device, the others are free and their packets go.
LEMMA SendBurstKeeps ==
  ASSUME NEW s \in EspStates, NEW k \in 0 .. Len(s.ops), \A p \in HoIds : EspTotal(s, p) <= 1
  PROVE  /\ SendBurst(s, k) \in EspStates
         /\ \A p \in HoIds : EspTotal(SendBurst(s, k), p) = EspTotal(s, p)
  <1> DEFINE a == SubSeq(s.ops, 1, k)  b == SubSeq(s.ops, k + 1, Len(s.ops))
             D == ToSet(a)  t == SendBurst(s, k)
  <1>1. /\ s.dev \in SUBSET HoIds /\ s.ops \in Seq(HoIds) /\ s.count \in Nat /\ s.pool \in Int /\ s.gone \in Seq(HoIds)
        /\ s.count = Cardinality(s.dev) /\ s.pool + Len(s.ops) + s.count = HoOps
    BY DEF EspStates
  <1>2. a \in Seq(HoIds) /\ Len(a) = k /\ b \in Seq(HoIds) /\ \A p : Count(s.ops, p) = Count(a, p) + Count(b, p)
    <2>1. a \in Seq(HoIds) /\ b \in Seq(HoIds) /\ \A p : Count(s.ops, p) = Count(a, p) + Count(b, p)
      BY ONLY <1>1, k \in 0 .. Len(s.ops), CountParts
    <2>2. Len(a) = k
      BY <1>1
    <2> QED BY <2>1, <2>2
  <1>3. t = [dev |-> s.dev \cup D, ops |-> <<>>, gone |-> s.gone \o b,
             count |-> s.count + k, pool |-> s.pool + Len(s.ops) - k]
    BY Zenon DEF SendBurst
  <1> HIDE DEF a, b, t
  <1>4. \A p : Count(a, p) \in Nat /\ Count(b, p) \in Nat /\ Count(s.gone, p) \in Nat /\ (Count(a, p) = 0 <=> p \notin D)
    BY ONLY <1>1, <1>2, CountType DEF D
  <1>5. ASSUME NEW p \in HoIds
        PROVE  Count(a, p) <= 1 /\ (p \in s.dev => Count(a, p) = 0)
    <2> DEFINE x == Count(a, p)  y == Count(b, p)  z == Count(s.gone, p)  v == Cardinality({p} \cap s.dev)
    <2>1. EspTotal(s, p) = (x + y) + v + z /\ EspTotal(s, p) <= 1
      BY <1>2 DEF EspTotal
    <2>2. v = IF p \in s.dev THEN 1 ELSE 0
      BY InDevice
    <2>3. x \in Nat /\ y \in Nat /\ z \in Nat
      BY <1>4
    <2> HIDE DEF x, y, z, v
    <2>4. x <= 1 /\ (p \in s.dev => x = 0)
      BY <2>1, <2>2, <2>3
    <2> QED BY <2>4 DEF x
  <1>6. IsFiniteSet(D) /\ Cardinality(D) = k
    <2>1. \A p \in HoIds : Count(a, p) <= 1
      BY <1>5
    <2>2. \A i, j \in 1 .. Len(a) : a[i] = a[j] => i = j
      BY ONLY <1>2, <2>1, OnceDistinct
    <2> QED BY ONLY <1>2, <2>2, DistinctLength DEF D
  <1>7. D \subseteq HoIds /\ s.dev \cap D = {}
    <2>1. D \subseteq HoIds
      BY <1>2 DEF ToSet
    <2> HIDE DEF D
    <2> QED BY <1>1, <1>4, <1>5, <2>1
  <1> HIDE DEF D
  <1>8. IsFiniteSet(s.dev)
    <2>1. IsFiniteSet(HoIds)
      BY HoAssumption, FS_Interval DEF HoIds
    <2> QED BY ONLY <1>1, <2>1, FS_Subset
  <1>9. Cardinality(s.dev \cup D) = s.count + k
    <2>1. Cardinality(s.dev \cup D) = Cardinality(s.dev) + Cardinality(D) - Cardinality(s.dev \cap D)
      BY ONLY <1>6, <1>8, FS_Union
    <2>2. Cardinality(s.dev \cap D) = 0
      BY <1>7, FS_EmptySet
    <2>3. k \in Nat
      BY <1>1
    <2> QED BY <1>1, <1>6, <2>1, <2>2, <2>3
  <1>10. t \in EspStates
    <2>1. s.dev \cup D \in SUBSET HoIds /\ s.gone \o b \in Seq(HoIds)
      BY <1>1, <1>2, <1>7
    <2>2. <<>> \in Seq(HoIds) /\ Len(<<>>) = 0
      OBVIOUS
    <2>3. Len(s.ops) \in Nat /\ k \in Nat
      BY <1>1
    <2>4. s.count + k \in Nat /\ s.pool + Len(s.ops) - k \in Int
          /\ (s.pool + Len(s.ops) - k) + 0 + (s.count + k) = HoOps
      BY <1>1, <2>3
    <2> QED BY <1>3, <1>9, <2>1, <2>2, <2>4 DEF EspStates
  <1>11. ASSUME NEW p \in HoIds PROVE EspTotal(t, p) = EspTotal(s, p)
    <2> DEFINE x == Count(a, p)  y == Count(b, p)  z == Count(s.gone, p)  v == Cardinality({p} \cap s.dev)
               w == Cardinality({p} \cap (s.dev \cup D))
    <2>1. EspTotal(s, p) = (x + y) + v + z
      BY <1>2 DEF EspTotal
    <2>2. Count(s.gone \o b, p) = z + y
      BY ONLY <1>1, <1>2, CountBoth
    <2>3. EspTotal(t, p) = 0 + w + (z + y)
      <3>1. t.ops = <<>> /\ t.dev = s.dev \cup D /\ t.gone = s.gone \o b
        BY <1>3
      <3>2. EspTotal(t, p) = Count(<<>>, p) + w + Count(s.gone \o b, p)
        BY <3>1 DEF EspTotal
      <3> QED BY <2>2, <3>2, CountNone
    <2>4. v = (IF p \in s.dev THEN 1 ELSE 0) /\ w = (IF p \in s.dev \/ p \in D THEN 1 ELSE 0)
      BY InDevice
    <2>5. x \in Nat /\ y \in Nat /\ z \in Nat /\ (x = 0 <=> p \notin D) /\ x <= 1 /\ (p \in s.dev => x = 0)
      BY <1>4, <1>5
    <2> HIDE DEF x, y, z, v, w
    <2> QED BY <2>1, <2>3, <2>4, <2>5
  <1> QED BY <1>10, <1>11 DEF t

EspOld(p) == Count(ho_ops, p) + Cardinality({p} \cap ho_dev)
EspAfter(k) == {x \in EspStates : \A p \in HoIds : EspTotal(x, p) = EspOld(p) + New(k, p)}

\* A packet that has arrived is in the task once at most.
LEMMA EspOnce ==
  ASSUME HoTypeOK, Counted, NEW k \in Nat, ho_n + k <= HoPackets, NEW x \in EspAfter(k), NEW p \in HoIds
  PROVE  EspTotal(x, p) <= 1 /\ EspOld(p) \in Nat
  <1> DEFINE a == Count(ho_ops, p)  b == Cardinality({p} \cap ho_dev)  c == Count(ho_mbufs, p)  r == InRings(p)
             l == ho_left[p]
  <1>1. a \in Nat /\ b \in Nat /\ c \in Nat /\ r \in Nat
    BY HeldType
  <1>2. l \in Nat /\ p \in Int /\ ho_n \in Nat
    BY HoAssumption DEF HoTypeOK, HoIds
  <1>3. HeldTimes(p) = r + a + b + c /\ EspOld(p) = a + b
    BY Zenon DEF HeldTimes, EspOld
  <1>4. HeldTimes(p) + l = IF p <= ho_n THEN 1 ELSE 0
    BY DEF Counted, HoIds
  <1>5. EspTotal(x, p) = EspOld(p) + New(k, p)
    BY DEF EspAfter
  <1>6. New(k, p) \in 0 .. 1 /\ (p <= ho_n => New(k, p) = 0)
    BY <1>2 DEF New
  <1> DEFINE v == New(k, p)
  <1> HIDE DEF a, b, c, r, l, v
  <1>7. EspTotal(x, p) = a + b + v /\ v \in 0 .. 1 /\ (p <= ho_n => v = 0)
    BY <1>3, <1>5, <1>6 DEF v
  <1>8. r + a + b + c + l = IF p <= ho_n THEN 1 ELSE 0
    BY <1>3, <1>4
  <1> QED BY <1>1, <1>2, <1>3, <1>7, <1>8

\* No packet is prepared yet.
LEMMA EspStart ==
  ASSUME HoTypeOK, ho_pool + Len(ho_ops) + ho_count = HoOps
  PROVE  [dev |-> ho_dev, ops |-> ho_ops, count |-> ho_count, pool |-> ho_pool, gone |-> <<>>] \in EspAfter(0)
  <1> DEFINE s == [dev |-> ho_dev, ops |-> ho_ops, count |-> ho_count, pool |-> ho_pool, gone |-> <<>>]
  <1>1. /\ ho_dev \in SUBSET HoIds /\ ho_ops \in Seq(HoIds) /\ ho_pool \in Int /\ ho_count = Cardinality(ho_dev)
        /\ ho_n \in Nat
    BY HoAssumption DEF HoTypeOK
  <1>2. ho_count \in Nat
    <2>1. IsFiniteSet(HoIds)
      BY HoAssumption, FS_Interval DEF HoIds
    <2>2. IsFiniteSet(ho_dev)
      BY ONLY <1>1, <2>1, FS_Subset
    <2> QED BY <1>1, <2>2, FS_CardinalityType
  <1>3. <<>> \in Seq(HoIds)
    OBVIOUS
  <1>4. s \in EspStates
    BY <1>1, <1>2, <1>3 DEF EspStates
  <1>5. s.ops = ho_ops /\ s.dev = ho_dev /\ s.gone = <<>>
    OBVIOUS
  <1> HIDE DEF s
  <1>6. ASSUME NEW p \in HoIds PROVE EspTotal(s, p) = EspOld(p) + New(0, p)
    <2> DEFINE a == Count(ho_ops, p)  b == Cardinality({p} \cap ho_dev)
    <2>1. EspTotal(s, p) = a + b + Count(<<>>, p) /\ EspOld(p) = a + b
      BY <1>5, Zenon DEF EspTotal, EspOld
    <2>2. Count(<<>>, p) = 0
      BY CountNone
    <2>3. New(0, p) = 0
      BY <1>1 DEF New, HoIds
    <2>4. a \in Nat /\ b \in Nat
      BY HeldType
    <2> QED BY <2>1, <2>2, <2>3, <2>4
  <1> QED BY <1>4, <1>6 DEF EspAfter, s

\* One more packet is prepared, or discarded.
EspStep(x, k, bad, room) ==
  IF k \in bad THEN [x EXCEPT !.gone = Append(@, ho_n + k)] ELSE Prepare(x, ho_n + k, room)

\* One more packet is waiting, in the device, or has gone.
LEMMA EspStepKeeps ==
  ASSUME HoTypeOK, Counted, NEW k \in Nat \ {0}, ho_n + k <= HoPackets, NEW x \in EspAfter(k - 1),
         NEW bad, NEW room \in Nat
  PROVE  EspStep(x, k, bad, room) \in EspAfter(k)
  <1> DEFINE q == ho_n + k
  <1>1. /\ x.dev \in SUBSET HoIds /\ x.ops \in Seq(HoIds) /\ x.count \in Nat /\ x.pool \in Int /\ x.gone \in Seq(HoIds)
        /\ x.count = Cardinality(x.dev) /\ x.pool + Len(x.ops) + x.count = HoOps
        /\ x = [dev |-> x.dev, ops |-> x.ops, count |-> x.count, pool |-> x.pool, gone |-> x.gone]
    BY DEF EspAfter, EspStates
  <1>2. ho_n \in Nat /\ q \in HoIds /\ k - 1 \in Nat /\ k \in Nat
    BY HoAssumption DEF HoTypeOK, HoIds
  <1>3. ASSUME NEW p \in HoIds
        PROVE  /\ EspTotal(x, p) = EspOld(p) + New(k - 1, p)
               /\ New(k, p) = New(k - 1, p) + (IF q = p THEN 1 ELSE 0)
               /\ EspOld(p) \in Nat /\ New(k - 1, p) \in Nat
    <2>1. EspOld(p) \in Nat
      BY HeldType DEF EspOld
    <2>2. EspTotal(x, p) = EspOld(p) + New(k - 1, p)
      BY DEF EspAfter
    <2>3. New(k, p) = New(k - 1, p) + (IF q = p THEN 1 ELSE 0) /\ New(k - 1, p) \in Nat
      BY <1>2 DEF New, HoIds
    <2> QED BY <2>1, <2>2, <2>3
  <1> HIDE DEF q
  <1>4. ASSUME NEW t \in EspStates, \A p \in HoIds : EspTotal(t, p) = EspTotal(x, p) + (IF q = p THEN 1 ELSE 0)
        PROVE  t \in EspAfter(k)
    <2>1. ASSUME NEW p \in HoIds PROVE EspTotal(t, p) = EspOld(p) + New(k, p)
      <3> DEFINE a == EspTotal(x, p)  b == EspOld(p)  c == New(k - 1, p)  d == IF q = p THEN 1 ELSE 0
      <3>1. EspTotal(t, p) = a + d /\ a = b + c /\ New(k, p) = c + d /\ b \in Nat /\ c \in Nat /\ d \in Nat
        BY <1>3, <1>4
      <3> HIDE DEF a, b, c, d
      <3>2. EspTotal(t, p) = b + New(k, p)
        BY <3>1
      <3> QED BY <3>2 DEF b
    <2> QED BY <2>1 DEF EspAfter
  <1>5. CASE k \in bad
    <2> DEFINE t == [x EXCEPT !.gone = Append(@, q)]
    <2>1. Append(x.gone, q) \in Seq(HoIds)
      BY <1>1, <1>2
    <2>2. t \in EspStates /\ t.ops = x.ops /\ t.dev = x.dev /\ t.gone = Append(x.gone, q)
      BY <1>1, <2>1 DEF EspStates
    <2>3. EspStep(x, k, bad, room) = t
      BY <1>5, Zenon DEF EspStep, q
    <2> HIDE DEF t
    <2>4. ASSUME NEW p \in HoIds PROVE EspTotal(t, p) = EspTotal(x, p) + (IF q = p THEN 1 ELSE 0)
      <3> DEFINE a == Count(x.ops, p)  b == Cardinality({p} \cap x.dev)  c == Count(x.gone, p)  d == IF q = p THEN 1 ELSE 0
      <3>1. Count(t.gone, p) = c + d
        BY <1>1, <1>2, <2>2, CountMore
      <3>2. EspTotal(x, p) = a + b + c /\ EspTotal(t, p) = a + b + Count(t.gone, p)
        BY <2>2, Zenon DEF EspTotal
      <3>3. a \in Nat /\ c \in Nat
        BY ONLY <1>1, CountType
      <3>4. b \in Nat /\ d \in Nat
        BY InDevice
      <3> HIDE DEF a, b, c, d
      <3>5. EspTotal(t, p) = EspTotal(x, p) + d
        BY <3>1, <3>2, <3>3, <3>4
      <3> QED BY <3>5 DEF d
    <2> QED BY <1>4, <2>2, <2>3, <2>4
  <1>6. CASE k \notin bad
    <2> DEFINE t == [x EXCEPT !.ops = Append(@, q), !.pool = @ - 1]
    <2>1. Append(x.ops, q) \in Seq(HoIds) /\ Len(Append(x.ops, q)) = Len(x.ops) + 1 /\ Len(x.ops) \in Nat
      BY <1>1, <1>2
    <2> DEFINE Y == [dev : SUBSET HoIds, ops : Seq(HoIds), count : Nat, pool : Int, gone : Seq(HoIds)]
    <2>2. /\ t \in Y /\ t.dev = x.dev /\ t.ops = Append(x.ops, q) /\ t.count = x.count
          /\ t.pool = x.pool - 1 /\ t.gone = x.gone
      <3> DEFINE y == [x EXCEPT !.ops = Append(@, q)]
      <3>1. x \in Y
        BY DEF EspAfter, EspStates
      <3>2. y \in Y /\ y.dev = x.dev /\ y.ops = Append(x.ops, q) /\ y.count = x.count /\ y.pool = x.pool
            /\ y.gone = x.gone
        BY <2>1, <3>1
      <3>3. t = [y EXCEPT !.pool = y.pool - 1]
        OBVIOUS
      <3>4. y.pool - 1 \in Int
        BY <1>1, <3>2
      <3> HIDE DEF y, t
      <3> QED BY <3>2, <3>3, <3>4
    <2>3. EspStep(x, k, bad, room) = IF Len(t.ops) = HoBurst THEN SendBurst(t, TryTx(HoBurst, room)) ELSE t
      BY <1>6, Zenon DEF EspStep, Prepare, q
    <2> HIDE DEF t
    <2>4. t \in EspStates
      <3>1. x.pool - 1 \in Int /\ (x.pool - 1) + (Len(x.ops) + 1) + x.count = HoOps
        BY <1>1, <2>1
      <3> QED BY <1>1, <2>1, <2>2, <3>1 DEF EspStates
    <2>5. t.ops = Append(x.ops, q) /\ t.dev = x.dev /\ t.gone = x.gone
      BY <2>2
    <2>6. ASSUME NEW p \in HoIds PROVE EspTotal(t, p) = EspTotal(x, p) + (IF q = p THEN 1 ELSE 0)
      <3> DEFINE a == Count(x.ops, p)  b == Cardinality({p} \cap x.dev)  c == Count(x.gone, p)  d == IF q = p THEN 1 ELSE 0
      <3>1. Count(t.ops, p) = a + d
        BY <1>1, <1>2, <2>5, CountMore
      <3>2. EspTotal(x, p) = a + b + c /\ EspTotal(t, p) = Count(t.ops, p) + b + c
        BY <2>5, Zenon DEF EspTotal
      <3>3. a \in Nat /\ c \in Nat
        BY ONLY <1>1, CountType
      <3>4. b \in Nat /\ d \in Nat
        BY InDevice
      <3> HIDE DEF a, b, c, d
      <3>5. EspTotal(t, p) = EspTotal(x, p) + d
        BY <3>1, <3>2, <3>3, <3>4
      <3> QED BY <3>5 DEF d
    <2>7. t \in EspAfter(k)
      BY <1>4, <2>4, <2>6
    <2>8. CASE Len(t.ops) = HoBurst
      <3> DEFINE m == TryTx(HoBurst, room)  u == SendBurst(t, m)
      <3>1. m \in 0 .. Len(t.ops)
        BY <2>8, HoAssumption DEF TryTx
      <3>2. \A p \in HoIds : EspTotal(t, p) <= 1
        BY <1>2, <2>7, EspOnce
      <3> HIDE DEF m
      <3>3. u \in EspStates /\ \A p \in HoIds : EspTotal(u, p) = EspTotal(t, p)
        BY ONLY <2>4, <3>1, <3>2, SendBurstKeeps
      <3> HIDE DEF u
      <3>4. \A p \in HoIds : EspTotal(u, p) = EspTotal(x, p) + (IF q = p THEN 1 ELSE 0)
        BY <2>6, <3>3
      <3>5. EspStep(x, k, bad, room) = u
        BY <2>3, <2>8 DEF u, m
      <3> QED BY <1>4, <3>3, <3>4, <3>5
    <2> QED BY <2>3, <2>7, <2>8
  <1> QED BY <1>5, <1>6

PreparedBy(f, n, bad, room) ==
  f = [k \in 0 .. n |-> IF k = 0 THEN EspBase ELSE EspStep(f[k - 1], k, bad, room)]

\* A burst is prepared: each packet of it waits, is in the device or has gone.
LEMMA PreparedReaches ==
  ASSUME HoTypeOK, Counted, ho_pool + Len(ho_ops) + ho_count = HoOps,
         NEW n \in Nat, ho_n + n <= HoPackets, NEW bad, NEW room \in Nat
  PROVE  Prepared(n, bad, room) \in EspAfter(n)
  <1> DEFINE base == EspBase
             S == [k \in 0 .. n |-> EspAfter(k)]
             step == [k \in 1 .. n |-> [x \in EspAfter(k - 1) |-> EspStep(x, k, bad, room)]]
  <1>0. base \in EspAfter(0)
    BY EspStart DEF EspBase
  <1>1. ASSUME NEW k \in 1 .. n, NEW x \in EspAfter(k - 1)
        PROVE  EspStep(x, k, bad, room) \in EspAfter(k)
    <2>1. k \in Nat \ {0} /\ ho_n + k <= HoPackets
      BY HoAssumption DEF HoTypeOK
    <2> QED BY ONLY HoTypeOK, Counted, <2>1, x \in EspAfter(k - 1), room \in Nat, EspStepKeeps
  <1>2. ASSUME NEW k \in 0 .. n PROVE S[k] = EspAfter(k)
    OBVIOUS
  <1>3. ASSUME NEW k \in 1 .. n PROVE k \in 0 .. n /\ k - 1 \in 0 .. n /\ 0 \in 0 .. n
    OBVIOUS
  <1>4. ASSUME NEW k \in 1 .. n, NEW x \in S[k - 1]
        PROVE  step[k][x] = EspStep(x, k, bad, room) /\ step[k][x] \in S[k]
    <2>1. x \in EspAfter(k - 1)
      BY <1>2, <1>3
    <2>2. step[k][x] = EspStep(x, k, bad, room)
      BY <2>1
    <2> HIDE DEF step, S
    <2> QED BY <1>1, <1>2, <1>3, <2>1, <2>2
  <1> HIDE DEF step, S, base
  <1>5. StepsLead(n, S, base, step)
    <2>1. 0 \in 0 .. n
      OBVIOUS
    <2> QED BY <1>0, <1>2, <1>4, <2>1 DEF StepsLead
  <1>6. PICK g : /\ g = [k \in 0 .. n |-> g[k]] /\ g[0] = base
                 /\ \A k \in 0 .. n : g[k] \in S[k]
                 /\ \A k \in 1 .. n : g[k] = step[k][g[k - 1]]
    BY <1>5, StepsReach
  <1>7. ASSUME NEW k \in 0 .. n
        PROVE  g[k] = IF k = 0 THEN base ELSE EspStep(g[k - 1], k, bad, room)
    <2>1. CASE k # 0
      <3>1. k \in 1 .. n /\ k - 1 \in 0 .. n
        BY <2>1
      <3> QED BY <1>4, <1>6, <2>1, <3>1
    <2> QED BY <1>6, <2>1
  <1>8. PreparedBy(g, n, bad, room)
    BY <1>6, <1>7, Zenon DEF PreparedBy, base
  <1> DEFINE f == CHOOSE f : PreparedBy(f, n, bad, room)
  <1>9. PreparedBy(f, n, bad, room)
    BY <1>8, Zenon
  <1>10. Prepared(n, bad, room) = f[n]
    BY Zenon DEF Prepared, PreparedBy, EspStep
  <1> HIDE DEF f
  <1>11. f[0] = base /\ \A k \in 1 .. n : f[k] = EspStep(f[k - 1], k, bad, room)
    BY <1>9 DEF PreparedBy, base
  <1> DEFINE T == {k \in 0 .. n : f[k] \in EspAfter(k)}
  <1>12. ASSUME NEW k \in 0 .. n - 1, k \in T PROVE k + 1 \in T
    <2>1. k + 1 \in 1 .. n /\ k + 1 \in 0 .. n /\ (k + 1) - 1 = k /\ f[k] \in EspAfter(k)
      BY <1>12
    <2>2. f[k + 1] = EspStep(f[k], k + 1, bad, room)
      BY <1>11, <2>1
    <2>3. EspStep(f[k], k + 1, bad, room) \in EspAfter(k + 1)
      BY <1>1, <2>1
    <2> QED BY <2>1, <2>2, <2>3
  <1>13. 0 \in T
    BY <1>0, <1>11
  <1> HIDE DEF T
  <1>14. 0 .. n \subseteq T
    BY <1>12, <1>13, ReachesAll
  <1>15. n \in T
    BY <1>14
  <1> QED BY <1>10, <1>15 DEF T

\* Finished packets leave the device.
LEMMA DeviceLess ==
  ASSUME NEW D \in SUBSET HoIds, NEW E \in SUBSET D
  PROVE  /\ IsFiniteSet(D) /\ IsFiniteSet(E) /\ Cardinality(D) \in Nat /\ Cardinality(E) \in Nat
         /\ Cardinality(D \ E) = Cardinality(D) - Cardinality(E)
         /\ \A p : Cardinality({p} \cap (D \ E)) + Count(SetToSeq(E), p) = Cardinality({p} \cap D)
         /\ SetToSeq(E) \in Seq(HoIds) /\ \A p : Count(SetToSeq(E), p) \in Nat
  <1>1. IsFiniteSet(HoIds)
    BY HoAssumption, FS_Interval DEF HoIds
  <1>2. IsFiniteSet(D) /\ IsFiniteSet(E)
    <2>1. D \subseteq HoIds /\ E \subseteq HoIds
      OBVIOUS
    <2> QED BY ONLY <1>1, <2>1, FS_Subset
  <1>3. Cardinality(D) \in Nat /\ Cardinality(E) \in Nat
    BY ONLY <1>2, FS_CardinalityType
  <1>4. Cardinality(D \ E) = Cardinality(D) - Cardinality(E)
    <2>1. Cardinality(D \ E) = Cardinality(D) - Cardinality(D \cap E)
      BY ONLY <1>2, FS_Difference
    <2>2. D \cap E = E
      OBVIOUS
    <2> QED BY <2>1, <2>2
  <1>5. SetToSeq(E) \in Seq(E) /\ \A p : Count(SetToSeq(E), p) = IF p \in E THEN 1 ELSE 0
    BY ONLY <1>2, CountOfSet
  <1>6. SetToSeq(E) \in Seq(HoIds)
    <2>1. E \subseteq HoIds
      OBVIOUS
    <2> QED BY ONLY <1>5, <2>1, SeqWider
  <1>7. ASSUME NEW p PROVE Cardinality({p} \cap (D \ E)) + Count(SetToSeq(E), p) = Cardinality({p} \cap D)
    <2> DEFINE a == Cardinality({p} \cap (D \ E))  b == Count(SetToSeq(E), p)  c == Cardinality({p} \cap D)
    <2>1. a = (IF p \in D \ E THEN 1 ELSE 0) /\ c = (IF p \in D THEN 1 ELSE 0) /\ b = (IF p \in E THEN 1 ELSE 0)
      BY <1>5, InDevice
    <2> HIDE DEF a, b, c
    <2>2. a + b = c
      BY <2>1
    <2> QED BY <2>2 DEF a, b, c
  <1> QED BY <1>2, <1>3, <1>4, <1>5, <1>6, <1>7

\* What a call of handle_esp_bulk works up to before it dequeues.
LEMMA EspEndReaches ==
  ASSUME HoTypeOK, Counted, ho_pool + Len(ho_ops) + ho_count = HoOps,
         NEW n \in Nat, ho_n + n <= HoPackets, NEW bad, NEW room \in Nat
  PROVE  EspEnd(n, bad, room) \in EspAfter(n)
  <1>1. EspBase \in EspAfter(0)
    BY EspStart DEF EspBase
  <1>2. HoPackets \in Nat /\ ho_n \in Nat
    BY HoAssumption DEF HoTypeOK
  <1>3. CASE n > ho_pool
    <2> DEFINE t == [EspBase EXCEPT !.gone = Arriving(n)]
    <2>1. Arriving(n) \in Seq(HoIds) /\ \A p : Count(Arriving(n), p) = New(n, p)
      BY ONLY <1>2, n \in Nat, ho_n + n <= HoPackets, CountArriving
    <2>2. EspBase \in EspStates
      BY <1>1 DEF EspAfter
    <2>3. t \in EspStates /\ t.ops = EspBase.ops /\ t.dev = EspBase.dev /\ t.gone = Arriving(n)
      BY <2>1, <2>2 DEF EspStates
    <2>4. EspBase.ops = ho_ops /\ EspBase.dev = ho_dev
      BY DEF EspBase
    <2> HIDE DEF t
    <2>5. ASSUME NEW p \in HoIds PROVE EspTotal(t, p) = EspOld(p) + New(n, p)
      <3>1. EspTotal(t, p) = Count(ho_ops, p) + Cardinality({p} \cap ho_dev) + Count(Arriving(n), p)
        BY <2>3, <2>4, Zenon DEF EspTotal
      <3>2. EspOld(p) = Count(ho_ops, p) + Cardinality({p} \cap ho_dev)
        BY Zenon DEF EspOld
      <3> QED BY <2>1, <3>1, <3>2
    <2>6. EspEnd(n, bad, room) = t
      BY <1>3, Zenon DEF EspEnd, t
    <2> QED BY <2>3, <2>5, <2>6 DEF EspAfter
  <1>4. CASE ~ (n > ho_pool) /\ n = 0 /\ ho_ops # <<>>
    <2> DEFINE k == TryTx(Len(ho_ops), room)
    <2>1. EspBase \in EspStates /\ EspBase.ops = ho_ops /\ Len(ho_ops) \in Nat
      <3>1. ho_ops \in Seq(HoIds)
        BY DEF HoTypeOK
      <3> QED BY <1>1, <3>1 DEF EspAfter, EspBase
    <2>2. k \in 0 .. Len(EspBase.ops)
      BY <2>1 DEF TryTx
    <2> HIDE DEF k
    <2>3. 0 \in Nat /\ ho_n + 0 <= HoPackets
      BY <1>2
    <2>4. \A p \in HoIds : EspTotal(EspBase, p) <= 1
      BY ONLY HoTypeOK, Counted, <1>1, <2>3, EspOnce
    <2>5. SendBurst(EspBase, k) \in EspStates
          /\ \A p \in HoIds : EspTotal(SendBurst(EspBase, k), p) = EspTotal(EspBase, p)
      BY ONLY <2>1, <2>2, <2>4, SendBurstKeeps
    <2>6. SendBurst(EspBase, k) \in EspAfter(0)
      BY <1>1, <2>5 DEF EspAfter
    <2>7. EspEnd(n, bad, room) = SendBurst(EspBase, k)
      BY <1>4, Zenon DEF EspEnd, k
    <2> QED BY <1>4, <2>6, <2>7
  <1>5. CASE ~ (n > ho_pool) /\ ~ (n = 0 /\ ho_ops # <<>>)
    <2>1. EspEnd(n, bad, room) = Prepared(n, bad, room)
      BY <1>5, Zenon DEF EspEnd
    <2> QED BY <2>1, PreparedReaches
  <1> QED BY <1>3, <1>4, <1>5

\* handle_esp_bulk
LEMMA EspKeeps ==
  ASSUME HoldInv, NEW n \in Nat, ho_n + n <= HoPackets, ho_n' = ho_n + n, ho_mode' = ho_mode, HoEsp(n)
  PROVE  HoldInv'
  <1>1. /\ ho_mode = "esp" /\ ~ ho_wrapped /\ HoTypeOK /\ Counted
        /\ ho_pool + Len(ho_ops) + ho_count = HoOps
        /\ UNCHANGED <<ho_agg, ho_mbufs, ho_mir>>
    BY DEF HoEsp, HoldInv, Accounted, Counted, OtherModesIdle
  <1>2. PICK room \in 0 .. HoBurst, bad \in SUBSET (1 .. n) : \E done \in SUBSET EspEnd(n, bad, room).dev :
            /\ ho_dev' = EspEnd(n, bad, room).dev \ done /\ ho_ops' = EspEnd(n, bad, room).ops
            /\ ho_count' = EspEnd(n, bad, room).count - Cardinality(done)
            /\ ho_pool' = EspEnd(n, bad, room).pool + Cardinality(done)
            /\ ho_left' = Leave(ho_left, EspEnd(n, bad, room).gone \o SetToSeq(done))
    BY Zenon DEF HoEsp
  <1> DEFINE end == EspEnd(n, bad, room)
  <1>3. PICK done \in SUBSET end.dev :
            /\ ho_dev' = end.dev \ done /\ ho_ops' = end.ops
            /\ ho_count' = end.count - Cardinality(done)
            /\ ho_pool' = end.pool + Cardinality(done)
            /\ ho_left' = Leave(ho_left, end.gone \o SetToSeq(done))
    BY <1>2
  <1>4. end \in EspAfter(n)
    <2>1. room \in Nat
      BY HoAssumption
    <2> QED BY <1>1, <2>1, EspEndReaches
  <1> HIDE DEF end
  <1>5. /\ end.dev \in SUBSET HoIds /\ end.ops \in Seq(HoIds) /\ end.count \in Nat /\ end.pool \in Int
        /\ end.gone \in Seq(HoIds)
        /\ end.count = Cardinality(end.dev) /\ end.pool + Len(end.ops) + end.count = HoOps
    BY <1>4 DEF EspAfter, EspStates
  <1>6. /\ Cardinality(done) \in Nat /\ Cardinality(end.dev \ done) = Cardinality(end.dev) - Cardinality(done)
        /\ \A p : Cardinality({p} \cap (end.dev \ done)) + Count(SetToSeq(done), p) = Cardinality({p} \cap end.dev)
        /\ SetToSeq(done) \in Seq(HoIds) /\ \A p : Count(SetToSeq(done), p) \in Nat
    BY ONLY <1>5, done \in SUBSET end.dev, DeviceLess
  <1> DEFINE gone == end.gone \o SetToSeq(done)
  <1>7. /\ gone \in Seq(HoIds) /\ \A p : Count(gone, p) = Count(end.gone, p) + Count(SetToSeq(done), p)
        /\ \A p : Count(end.gone, p) \in Nat /\ Count(end.ops, p) \in Nat
    <2>1. gone \in Seq(HoIds)
      BY <1>5, <1>6
    <2>2. \A p : Count(gone, p) = Count(end.gone, p) + Count(SetToSeq(done), p)
      BY ONLY <1>5, <1>6, CountBoth
    <2>3. \A p : Count(end.gone, p) \in Nat /\ Count(end.ops, p) \in Nat
      BY ONLY <1>5, CountType
    <2> QED BY <2>1, <2>2, <2>3
  <1>8. gone \in Seq(HoNumbers)
    <2>1. HoIds \subseteq HoNumbers
      BY DEF HoIds, HoNumbers
    <2> QED BY ONLY <1>7, <2>1, SeqWider
  <1>9. HoTypeOK'
    <2>1. ho_n' \in 0 .. HoPackets
      BY <1>1 DEF HoTypeOK
    <2>2. ho_left' \in [1 .. HoPackets -> Nat]
      <3>1. ho_left \in [1 .. HoPackets -> Nat]
        BY <1>1 DEF HoTypeOK
      <3>2. Leave(ho_left, gone) \in [1 .. HoPackets -> Nat]
        BY ONLY <1>8, <3>1, LeaveCounts
      <3> QED BY <1>3, <3>2
    <2>3. ho_dev' \in SUBSET HoIds /\ ho_ops' \in Seq(HoIds) /\ ho_count' = Cardinality(ho_dev') /\ ho_pool' \in Int
      BY SMTT(60), <1>3, <1>5, <1>6
    <2> HIDE DEF gone
    <2> QED BY <1>1, <2>1, <2>2, <2>3 DEF HoTypeOK, ho_agg, ho_mir
  <1>10. ho_pool' + Len(ho_ops') + ho_count' = HoOps
    <2> DEFINE d == Cardinality(done)
    <2>1. Len(end.ops) \in Nat
      BY <1>5
    <2> DEFINE l == Len(end.ops)  a == end.pool  c == end.count
    <2>2. ho_pool' = a + d /\ ho_count' = c - d /\ Len(ho_ops') = l /\ d \in Nat
      BY <1>3, <1>6
    <2>3. a + l + c = HoOps /\ a \in Int /\ l \in Nat /\ c \in Nat
      BY <1>5, <2>1
    <2> HIDE DEF d, l, a, c
    <2>4. (a + d) + l + (c - d) = HoOps
      BY <2>2, <2>3
    <2> QED BY <2>2, <2>4
  <1>11. ASSUME NEW p \in 1 .. HoPackets
         PROVE  HeldTimes(p)' + Count(gone, p) = HeldTimes(p) + New(n, p)
    <2> DEFINE r == InRings(p)  o == Count(ho_ops, p)  d == Cardinality({p} \cap ho_dev)  m == Count(ho_mbufs, p)
               o2 == Count(end.ops, p)  d2 == Cardinality({p} \cap end.dev)
               d3 == Cardinality({p} \cap (end.dev \ done))
               g1 == Count(end.gone, p)  g2 == Count(SetToSeq(done), p)  v == New(n, p)
    <2>1. HeldTimes(p) = r + o + d + m /\ HeldTimes(p)' = r + o2 + d3 + m
      BY <1>1, <1>3, Zenon DEF HeldTimes, InRings, ho_agg
    <2>2. o2 + d2 + g1 = (o + d) + v
      BY <1>4 DEF EspAfter, EspTotal, EspOld, HoIds
    <2>3. Count(gone, p) = g1 + g2 /\ d3 + g2 = d2 /\ g1 \in Nat /\ g2 \in Nat /\ o2 \in Nat
      BY <1>6, <1>7
    <2>4. r \in Nat /\ o \in Nat /\ d \in Nat /\ m \in Nat
      BY <1>1, HeldType
    <2>5. d2 \in Nat /\ d3 \in Nat /\ v \in Nat
      BY InDevice DEF New
    <2> HIDE DEF r, o, d, m, o2, d2, d3, g1, g2, v, gone
    <2>6. HeldTimes(p)' + Count(gone, p) = HeldTimes(p) + v
      BY <2>1, <2>2, <2>3, <2>4, <2>5
    <2> QED BY <2>6 DEF v
  <1>12. Counted'
    BY ONLY <1>1, <1>3, <1>8, <1>9, n \in Nat, ho_n' = ho_n + n, <1>11, CountedStays DEF gone
  <1>13. OtherModesIdle'
    BY <1>1 DEF HoldInv, OtherModesIdle, ho_mir, ho_agg
  <1>14. ho_mode' = "esp"
    BY <1>1
  <1> QED BY <1>9, <1>10, <1>12, <1>13, <1>14 DEF HoldInv, Accounted, Counted

\* A packet that has not arrived is nowhere.
LEMMA NotYetHeld ==
  ASSUME HoTypeOK, Counted, NEW p \in 1 .. HoPackets, ~ (p <= ho_n)
  PROVE  p \notin ho_dev
  <1> DEFINE r == InRings(p)  o == Count(ho_ops, p)  d == Cardinality({p} \cap ho_dev)  m == Count(ho_mbufs, p)
             l == ho_left[p]
  <1>1. r \in Nat /\ o \in Nat /\ d \in Nat /\ m \in Nat
    BY HeldType
  <1>2. l \in Nat
    BY DEF HoTypeOK
  <1>3. r + o + d + m + l = 0
    <2>1. HeldTimes(p) = r + o + d + m
      BY Zenon DEF HeldTimes
    <2>2. HeldTimes(p) + l = 0
      BY DEF Counted
    <2> QED BY <2>1, <2>2
  <1>4. d = IF p \in ho_dev THEN 1 ELSE 0
    BY InDevice
  <1> HIDE DEF r, o, d, m, l
  <1>5. d = 0
    BY <1>1, <1>2, <1>3
  <1> QED BY <1>4, <1>5

\* handle_qos_bulk
LEMMA QosKeeps ==
  ASSUME HoldInv, NEW n \in Nat, ho_n + n <= HoPackets, ho_n' = ho_n + n, ho_mode' = ho_mode, HoQos(n)
  PROVE  HoldInv'
  <1> DEFINE N == ho_n + 1 .. ho_n + n
  <1>1. /\ ho_mode = "qos" /\ ~ ho_wrapped /\ HoTypeOK /\ Counted
        /\ UNCHANGED <<ho_agg, ho_esp, ho_mbufs, ho_mir>>
    BY DEF HoQos, HoldInv, Accounted, Counted, OtherModesIdle
  <1>2. PICK taken \in SUBSET N :
          LET dev == ho_dev \cup taken
              count == ho_count + Cardinality(taken)
          IN \E sent \in SUBSET dev :
               /\ Cardinality(sent) <= HoBurst /\ (count = 0 => sent = {})
               /\ ho_dev' = dev \ sent
               /\ ho_count' = count - Cardinality(sent)
               /\ ho_left' = Leave(ho_left, SetToSeq(sent \cup (N \ taken)))
    BY Zenon DEF HoQos
  <1> HIDE DEF N
  <1> DEFINE dev == ho_dev \cup taken
             count == ho_count + Cardinality(taken)
  <1>a. PICK sent \in SUBSET dev :
          /\ Cardinality(sent) <= HoBurst /\ (count = 0 => sent = {})
          /\ ho_dev' = dev \ sent
          /\ ho_count' = count - Cardinality(sent)
          /\ ho_left' = Leave(ho_left, SetToSeq(sent \cup (N \ taken)))
    BY ONLY <1>2
  <1>3. /\ ho_dev' = dev \ sent
        /\ ho_count' = (ho_count + Cardinality(taken)) - Cardinality(sent)
        /\ ho_left' = Leave(ho_left, SetToSeq(sent \cup (N \ taken)))
        /\ taken \subseteq N
    <2>1. taken \subseteq N
      OBVIOUS
    <2> QED BY <1>a, <2>1, Zenon
  <1> DEFINE out == sent \cup (N \ taken)
  <1>4. /\ ho_dev \in SUBSET HoIds /\ ho_count = Cardinality(ho_dev) /\ ho_n \in Nat /\ HoPackets \in Nat
        /\ ho_left \in [1 .. HoPackets -> Nat]
    BY <1>1, HoAssumption DEF HoTypeOK
  <1>5. N \subseteq HoIds /\ ho_dev \cap N = {}
    <2>1. N \subseteq HoIds
      BY <1>4 DEF HoIds, N
    <2>2. ASSUME NEW p \in N PROVE p \notin ho_dev
      <3>1. p \in 1 .. HoPackets /\ ~ (p <= ho_n)
        BY <1>4 DEF N
      <3> QED BY <1>1, <3>1, NotYetHeld
    <2> QED BY <2>1, <2>2
  <1>6. IsFiniteSet(HoIds)
    BY HoAssumption, FS_Interval DEF HoIds
  <1>7. taken \subseteq HoIds /\ dev \subseteq HoIds /\ sent \subseteq HoIds /\ out \subseteq HoIds
        /\ ho_dev \cap taken = {}
    BY <1>3, <1>4, <1>5
  <1>8. IsFiniteSet(taken) /\ IsFiniteSet(ho_dev) /\ IsFiniteSet(out)
    BY ONLY <1>4, <1>6, <1>7, FS_Subset
  <1>9. Cardinality(dev) = ho_count + Cardinality(taken) /\ Cardinality(taken) \in Nat /\ Cardinality(ho_dev) \in Nat
    <2>1. Cardinality(ho_dev \cup taken) = Cardinality(ho_dev) + Cardinality(taken) - Cardinality(ho_dev \cap taken)
      BY ONLY <1>8, FS_Union
    <2>2. Cardinality(ho_dev \cap taken) = 0
      BY <1>7, FS_EmptySet
    <2>3. Cardinality(taken) \in Nat /\ Cardinality(ho_dev) \in Nat
      BY ONLY <1>8, FS_CardinalityType
    <2> QED BY <1>4, <2>1, <2>2, <2>3
  <1>10. Cardinality(dev \ sent) = Cardinality(dev) - Cardinality(sent) /\ Cardinality(sent) \in Nat
    BY ONLY <1>7, sent \in SUBSET dev, DeviceLess
  <1>11. SetToSeq(out) \in Seq(out) /\ \A p : Count(SetToSeq(out), p) = IF p \in out THEN 1 ELSE 0
    <2> HIDE DEF out
    <2> QED BY ONLY <1>8, CountOfSet
  <1>12. SetToSeq(out) \in Seq(HoNumbers)
    <2>1. out \subseteq HoNumbers
      BY <1>7 DEF HoIds, HoNumbers
    <2> QED BY ONLY <1>11, <2>1, SeqWider
  <1>13. HoTypeOK'
    <2>1. ho_n' \in 0 .. HoPackets
      BY <1>4
    <2>2. ho_left' \in [1 .. HoPackets -> Nat]
      <3>1. Leave(ho_left, SetToSeq(out)) \in [1 .. HoPackets -> Nat]
        BY ONLY <1>4, <1>12, LeaveCounts
      <3> QED BY <1>3, <3>1
    <2>3. ho_dev' \in SUBSET HoIds /\ ho_count' = Cardinality(ho_dev')
      <3> HIDE DEF dev
      <3>1. ho_dev' = dev \ sent /\ ho_count' = (ho_count + Cardinality(taken)) - Cardinality(sent)
        BY <1>3
      <3>2. ho_count' = Cardinality(dev \ sent)
        BY <1>4, <1>9, <1>10, <3>1
      <3> QED BY <1>7, <3>1, <3>2
    <2> HIDE DEF out, dev
    <2> QED BY <1>1, <2>1, <2>2, <2>3 DEF HoTypeOK, ho_agg, ho_esp, ho_mir
  <1>14. ASSUME NEW p \in 1 .. HoPackets
         PROVE  HeldTimes(p)' + Count(SetToSeq(out), p) = HeldTimes(p) + New(n, p)
    <2> DEFINE r == InRings(p)  o == Count(ho_ops, p)  d == Cardinality({p} \cap ho_dev)  m == Count(ho_mbufs, p)
               d2 == Cardinality({p} \cap (dev \ sent))  g == Count(SetToSeq(out), p)  v == New(n, p)
    <2>1. HeldTimes(p) = r + o + d + m /\ HeldTimes(p)' = r + o + d2 + m
      BY <1>1, <1>3, Zenon DEF HeldTimes, InRings, ho_agg, ho_esp
    <2>2. /\ d = (IF p \in ho_dev THEN 1 ELSE 0) /\ d2 = (IF p \in dev \ sent THEN 1 ELSE 0)
          /\ g = (IF p \in out THEN 1 ELSE 0) /\ v = (IF p \in N THEN 1 ELSE 0)
      BY <1>11, InDevice DEF New, N
    <2>3. r \in Nat /\ o \in Nat /\ m \in Nat
      BY <1>1, HeldType
    <2> HIDE DEF r, o, d, m, d2, g, v
    <2>4. d2 + g = d + v
      <3>1. CASE p \in ho_dev
        <4>1. p \notin N /\ p \notin taken
          BY <1>5, <1>7, <3>1
        <4> QED BY <2>2, <3>1, <4>1
      <3>2. CASE p \notin ho_dev
        <4>1. CASE p \in N
          <5>1. p \in taken => p \in dev
            OBVIOUS
          <5>2. p \notin taken => p \notin dev
            BY <3>2
          <5> QED BY <2>2, <3>2, <4>1, <5>1, <5>2
        <4>2. CASE p \notin N
          <5>1. p \notin taken /\ p \notin dev /\ p \notin sent /\ p \notin out
            BY <1>3, <3>2, <4>2
          <5> QED BY <2>2, <3>2, <4>2, <5>1
        <4> QED BY <4>1, <4>2
      <3> QED BY <3>1, <3>2
    <2>5. d \in Nat /\ d2 \in Nat /\ g \in Nat /\ v \in Nat
      BY <2>2
    <2>6. HeldTimes(p)' + g = HeldTimes(p) + v
      BY <2>1, <2>3, <2>4, <2>5
    <2> QED BY <2>6 DEF g, v
  <1>15. Counted'
    BY ONLY <1>1, <1>3, <1>12, <1>13, n \in Nat, ho_n' = ho_n + n, <1>14, CountedStays DEF out
  <1>16. OtherModesIdle'
    BY <1>1 DEF HoldInv, OtherModesIdle, ho_mir, ho_agg
  <1>17. ho_mode' = "qos"
    BY <1>1
  <1> QED BY <1>13, <1>15, <1>16, <1>17 DEF HoldInv, Accounted, Counted

\* handle_dump_bulk
LEMMA DumpKeeps ==
  ASSUME HoldInv, NEW n \in Nat, ho_n + n <= HoPackets, ho_n' = ho_n + n, ho_mode' = ho_mode, HoDump(n)
  PROVE  HoldInv'
  <1> DEFINE a == Arriving(n)  k == TryTx(n, DumpSize - Len(ho_mbufs))
             b == SubSeq(a, 1, k)  gone == SubSeq(a, k + 1, n)
  <1>1. /\ ho_mode = "dump" /\ ~ ho_wrapped /\ HoTypeOK /\ Counted
        /\ ho_mbufs' = ho_mbufs \o b /\ ho_left' = Leave(ho_left, gone)
        /\ UNCHANGED <<ho_agg, ho_esp, ho_dv, ho_mir>>
    BY Zenon DEF HoDump, HoldInv, Accounted, Counted, OtherModesIdle
  <1>2. /\ ho_n \in Nat /\ HoPackets \in Nat /\ ho_left \in [1 .. HoPackets -> Nat]
        /\ ho_mbufs \in Seq(HoIds) /\ Len(ho_mbufs) \in Nat /\ DumpSize - Len(ho_mbufs) \in Nat
    <2>1. /\ ho_n \in Nat /\ HoPackets \in Nat /\ ho_left \in [1 .. HoPackets -> Nat]
          /\ ho_mbufs \in Seq(HoIds) /\ Len(ho_mbufs) <= DumpSize
      BY <1>1, HoAssumption DEF HoTypeOK
    <2>2. DumpSize \in Nat
      BY HoAssumption DEF DumpSize
    <2>3. Len(ho_mbufs) \in Nat
      BY <2>1
    <2>4. DumpSize - Len(ho_mbufs) \in Nat
      BY <2>1, <2>2, <2>3
    <2> QED BY <2>1, <2>3, <2>4
  <1>3. a \in Seq(HoIds) /\ Len(a) = n /\ \A p : Count(a, p) = New(n, p)
    BY ONLY <1>2, n \in Nat, ho_n + n <= HoPackets, CountArriving
  <1>4. k \in 0 .. n /\ Len(ho_mbufs) + k <= DumpSize
    <2> DEFINE l == Len(ho_mbufs)  z == DumpSize - l
    <2>1. l \in Nat /\ z \in Nat /\ k = (IF n < z THEN n ELSE z) /\ DumpSize \in Nat
      BY <1>2, HoAssumption DEF TryTx, DumpSize
    <2> HIDE DEF k
    <2> QED BY <2>1
  <1> HIDE DEF a, k
  <1>5. b \in Seq(HoIds) /\ Len(b) = k /\ gone \in Seq(HoIds) /\ \A p : Count(a, p) = Count(b, p) + Count(gone, p)
    <2>1. k \in 0 .. Len(a)
      BY <1>3, <1>4
    <2>2. SubSeq(a, 1, k) \in Seq(HoIds) /\ SubSeq(a, k + 1, Len(a)) \in Seq(HoIds)
          /\ \A p : Count(a, p) = Count(SubSeq(a, 1, k), p) + Count(SubSeq(a, k + 1, Len(a)), p)
      BY ONLY <1>3, <2>1, CountParts
    <2>3. Len(b) = k
      BY <1>3, <1>4
    <2> QED BY <1>3, <2>2, <2>3
  <1> HIDE DEF b, gone
  <1>6. gone \in Seq(HoNumbers)
    <2>1. HoIds \subseteq HoNumbers
      BY DEF HoIds, HoNumbers
    <2> QED BY ONLY <1>5, <2>1, SeqWider
  <1>7. HoTypeOK'
    <2>1. ho_n' \in 0 .. HoPackets
      BY <1>2
    <2>2. ho_left' \in [1 .. HoPackets -> Nat]
      BY <1>1, <1>2, <1>6, LeaveCounts
    <2>3. ho_mbufs' \in Seq(HoIds) /\ Len(ho_mbufs') <= DumpSize
      <3>1. ho_mbufs \o b \in Seq(HoIds) /\ Len(ho_mbufs \o b) = Len(ho_mbufs) + k
        <4>1. ho_mbufs \in Seq(HoIds) /\ b \in Seq(HoIds) /\ Len(b) = k
          BY <1>2, <1>5
        <4> QED BY ONLY <4>1
      <3> QED BY <1>1, <1>4, <3>1
    <2> QED BY <1>1, <2>1, <2>2, <2>3 DEF HoTypeOK, ho_agg, ho_esp, ho_dv, ho_mir
  <1>8. ASSUME NEW p \in 1 .. HoPackets
        PROVE  HeldTimes(p)' + Count(gone, p) = HeldTimes(p) + New(n, p)
    <2> DEFINE r == InRings(p)  o == Count(ho_ops, p)  d == Cardinality({p} \cap ho_dev)  m == Count(ho_mbufs, p)
               m2 == Count(ho_mbufs \o b, p)  g == Count(gone, p)  v == New(n, p)  e == Count(b, p)
    <2>1. HeldTimes(p) = r + o + d + m /\ HeldTimes(p)' = r + o + d + m2
      BY <1>1, Zenon DEF HeldTimes, InRings, ho_agg, ho_esp, ho_dv
    <2>2. m2 = m + e
      BY ONLY <1>2, <1>5, CountBoth
    <2>3. v = e + g
      BY <1>3, <1>5
    <2>4. r \in Nat /\ o \in Nat /\ d \in Nat /\ m \in Nat
      BY <1>1, HeldType
    <2>5. e \in Nat /\ g \in Nat
      BY ONLY <1>5, CountType
    <2> HIDE DEF r, o, d, m, m2, g, v, e
    <2>6. HeldTimes(p)' + g = HeldTimes(p) + v
      BY <2>1, <2>2, <2>3, <2>4, <2>5
    <2> QED BY <2>6 DEF g, v
  <1>9. Counted'
    BY ONLY <1>1, <1>6, <1>7, n \in Nat, ho_n' = ho_n + n, <1>8, CountedStays
  <1>10. OtherModesIdle'
    BY <1>1 DEF HoldInv, OtherModesIdle, ho_mir, ho_agg
  <1>11. ho_mode' = "dump"
    BY <1>1
  <1> QED BY <1>7, <1>9, <1>10, <1>11 DEF HoldInv, Accounted, Counted

\* Sequences joined one after the other stay in the sets that each of them leads to.
FlattenedBy(f, n, seqs) == f = [i \in 1 .. n |-> IF i = 1 THEN seqs[i] ELSE f[i - 1] \o seqs[i]]
\* FlattenSeq joins them all.
LEMMA FlattenReaches ==
  ASSUME NEW n \in Nat \ {0}, NEW seqs, Len(seqs) = n, NEW S,
         seqs[1] \in S[1], \A k \in 2 .. n : \A x \in S[k - 1] : x \o seqs[k] \in S[k]
  PROVE  FlattenSeq(seqs) \in S[n]
  <1> DEFINE m == n - 1
             R == [k \in 0 .. m |-> S[k + 1]]
             step == [k \in 1 .. m |-> [x \in S[k] |-> x \o seqs[k + 1]]]
             base == seqs[1]
  <1>0. m \in Nat /\ m + 1 = n
    OBVIOUS
  <1> HIDE DEF m
  <1>1. ASSUME NEW k \in 0 .. m PROVE R[k] = S[k + 1]
    OBVIOUS
  <1>2. ASSUME NEW k \in 1 .. m, NEW x \in R[k - 1]
        PROVE  step[k][x] = x \o seqs[k + 1] /\ step[k][x] \in R[k]
    <2>1. k - 1 \in 0 .. m /\ (k - 1) + 1 = k /\ k \in 0 .. m /\ k + 1 \in 2 .. n /\ (k + 1) - 1 = k
      BY <1>0
    <2>2. x \in S[k]
      <3> HIDE DEF R
      <3>1. R[k - 1] = S[(k - 1) + 1]
        BY <1>1, <2>1
      <3> QED BY <2>1, <3>1
    <2>3. step[k][x] = x \o seqs[k + 1]
      BY <2>2
    <2>4. x \o seqs[k + 1] \in S[k + 1]
      BY <2>1, <2>2
    <2> HIDE DEF step, R
    <2> QED BY <1>1, <2>1, <2>3, <2>4
  <1>3. base \in R[0]
    <2>1. 0 \in 0 .. m /\ 0 + 1 = 1
      BY <1>0
    <2> QED BY <2>1
  <1> HIDE DEF R, step, base
  <1>4. StepsLead(m, R, base, step)
    BY <1>0, <1>2, <1>3 DEF StepsLead
  <1>5. PICK g : /\ g = [k \in 0 .. m |-> g[k]] /\ g[0] = base
                 /\ \A k \in 0 .. m : g[k] \in R[k]
                 /\ \A k \in 1 .. m : g[k] = step[k][g[k - 1]]
    BY <1>4, StepsReach
  <1> DEFINE h == [i \in 1 .. n |-> g[i - 1]]
  <1>6. ASSUME NEW i \in 1 .. n PROVE h[i] = IF i = 1 THEN seqs[i] ELSE h[i - 1] \o seqs[i]
    <2>1. h[i] = g[i - 1]
      OBVIOUS
    <2>2. CASE i = 1
      BY <1>5, <2>1, <2>2 DEF base
    <2>3. CASE i # 1
      <3>1. i - 1 \in 1 .. m /\ i - 1 \in 1 .. n /\ (i - 1) + 1 = i /\ (i - 1) - 1 \in 0 .. m
        BY <1>0, <2>3
      <3>2. h[i - 1] = g[(i - 1) - 1]
        BY <3>1
      <3>3. g[i - 1] = step[i - 1][g[(i - 1) - 1]] /\ g[(i - 1) - 1] \in R[(i - 1) - 1]
        BY <1>5, <3>1
      <3>4. step[i - 1][g[(i - 1) - 1]] = g[(i - 1) - 1] \o seqs[(i - 1) + 1]
        BY ONLY <1>2, <3>1, <3>3
      <3> HIDE DEF h
      <3> QED BY <2>1, <2>3, <3>1, <3>2, <3>3, <3>4
    <2> QED BY <2>2, <2>3
  <1>7. h = [i \in 1 .. n |-> h[i]]
    OBVIOUS
  <1> HIDE DEF h
  <1>8. FlattenedBy(h, n, seqs)
    BY <1>6, <1>7, Zenon DEF FlattenedBy
  <1> DEFINE f == CHOOSE f : FlattenedBy(f, n, seqs)
  <1>9. FlattenedBy(f, n, seqs)
    BY <1>8, Zenon
  <1>10. FlattenSeq(seqs) = f[n]
    <2>1. ~ (Len(seqs) = 0)
      OBVIOUS
    <2> QED BY <2>1, Zenon DEF FlattenSeq, FlattenedBy
  <1> HIDE DEF f
  <1>11. \A i \in 1 .. n : f[i] = IF i = 1 THEN seqs[i] ELSE f[i - 1] \o seqs[i]
    BY <1>9 DEF FlattenedBy
  <1> DEFINE T == {k \in 0 .. m : f[k + 1] \in S[k + 1]}
  <1>12. 0 \in T
    <2>1. 0 \in 0 .. m /\ 0 + 1 = 1 /\ 1 \in 1 .. n
      BY <1>0
    <2>2. f[1] = seqs[1]
      BY <1>11, <2>1
    <2> QED BY <2>1, <2>2
  <1>13. ASSUME NEW k \in 0 .. m - 1, k \in T PROVE k + 1 \in T
    <2>1. k + 1 \in 0 .. m /\ (k + 1) + 1 \in 1 .. n /\ (k + 1) + 1 \in 2 .. n /\ (k + 1) + 1 # 1
          /\ ((k + 1) + 1) - 1 = k + 1
      BY <1>0
    <2>2. f[k + 1] \in S[k + 1]
      BY <1>13
    <2>3. f[(k + 1) + 1] = f[k + 1] \o seqs[(k + 1) + 1]
      BY <1>11, <2>1
    <2>4. f[k + 1] \o seqs[(k + 1) + 1] \in S[(k + 1) + 1]
      <3>1. S[((k + 1) + 1) - 1] = S[k + 1]
        BY <2>1
      <3>2. f[k + 1] \in S[((k + 1) + 1) - 1]
        BY <2>2, <3>1
      <3> QED BY <2>1, <3>2
    <2> QED BY <2>1, <2>3, <2>4
  <1> HIDE DEF T
  <1>14. 0 .. m \subseteq T
    BY <1>0, <1>12, <1>13, ReachesAll
  <1>15. m \in T
    BY <1>0, <1>14
  <1>16. f[n] \in S[n]
    BY <1>0, <1>15 DEF T
  <1> QED BY <1>10, <1>16

\* The multiples of a number and the places below them.
LEMMA BurstsWithin ==
  ASSUME NEW b \in Nat \ {0}, NEW l \in Nat \ {0}
  PROVE  LET full == (l - 1) \div b IN
         /\ full \in Nat /\ full * b < l
         /\ \A k \in 1 .. full : (k - 1) * b \in Nat /\ k * b = (k - 1) * b + b /\ k * b <= full * b
  <1> DEFINE x == l - 1  q == x \div b  r == x % b
  <1>1. x \in Nat
    OBVIOUS
  <1>2. x = b * q + r /\ q \in Int /\ r \in 0 .. (b - 1)
    <2> HIDE DEF x
    <2>1. x \in Int
      BY <1>1
    <2> QED BY ONLY <2>1, b \in Nat \ {0}, Division DEF q, r
  <1>3. q \in Nat
    <2> HIDE DEF x, r
    <2>1. q \in Nat
      BY <1>1 DEF q
    <2> QED BY <2>1
  <1> HIDE DEF q, r, x
  <1>4. q * b = b * q /\ q * b \in Nat
    BY <1>3
  <1>5. q * b < l
    <2> DEFINE y == q * b
    <2>1. x = y + r /\ y \in Nat /\ r >= 0 /\ r \in Int
      BY <1>2, <1>4
    <2> HIDE DEF y
    <2>2. x = l - 1
      BY DEF x
    <2>3. y < l
      BY <2>1, <2>2
    <2> QED BY <2>3 DEF y
  <1>6. ASSUME NEW k \in 1 .. q PROVE (k - 1) * b \in Nat /\ k * b = (k - 1) * b + b /\ k * b <= q * b
    <2>1. k - 1 \in Nat /\ k \in Nat /\ q - k \in Nat /\ q = k + (q - k)
      BY <1>3
    <2>2. (k - 1) * b \in Nat /\ (q - k) * b \in Nat /\ k * b \in Nat
      BY <2>1
    <2>3. k * b = (k - 1) * b + b
      BY <2>1
    <2>4. q * b = k * b + (q - k) * b
      BY <1>3, <2>1
    <2> QED BY <1>4, <2>2, <2>3, <2>4
  <1> QED BY <1>3, <1>5, <1>6 DEF q, x

\* What stop passes on are the packets that are held, in their order.
LEMMA AllFlushed ==
  ASSUME NEW ps \in Seq(HoIds), ps # <<>>
  PROVE  Flushed(ps) = ps
  <1> DEFINE L == Len(ps)  B == HoBurst  full == (L - 1) \div B
             upto(m) == SubSeq(ps, 1, m)
             burst == [k \in 1 .. full |-> SubSeq(ps, (k - 1) * B + 1, k * B)]
             rest == SubSeq(ps, full * B + 1, L)
             S == [k \in 1 .. full |-> {upto(k * B)}]
  <1>1. L \in Nat \ {0} /\ B \in Nat \ {0}
    BY HoAssumption
  <1>2. /\ full \in Nat /\ full * B < L
        /\ \A k \in 1 .. full : (k - 1) * B \in Nat /\ k * B = (k - 1) * B + B /\ k * B <= full * B
    BY ONLY <1>1, BurstsWithin
  <1>3. Flushed(ps) = FlattenSeq(burst) \o rest
    BY Zenon DEF Flushed
  <1> HIDE DEF full, L, B
  <1>4. ASSUME NEW m \in Nat, NEW m2 \in Nat, m <= m2, m2 <= L
        PROVE  upto(m) \o SubSeq(ps, m + 1, m2) = upto(m2)
    <2> DEFINE a == SubSeq(ps, 1, m)  b == SubSeq(ps, m + 1, m2)  c == SubSeq(ps, 1, m2)
    <2>1. a \in Seq(HoIds) /\ Len(a) = m /\ \A i \in 1 .. m : a[i] = ps[i]
      BY <1>4 DEF L
    <2>2. b \in Seq(HoIds) /\ Len(b) = m2 - m /\ \A i \in 1 .. m2 - m : b[i] = ps[i + m]
      BY <1>4 DEF L
    <2>3. c \in Seq(HoIds) /\ Len(c) = m2 /\ \A i \in 1 .. m2 : c[i] = ps[i]
      BY <1>4 DEF L
    <2> HIDE DEF a, b, c
    <2>4. a \o b \in Seq(HoIds) /\ Len(a \o b) = m2 /\ \A i \in 1 .. m2 : (a \o b)[i] = ps[i]
      <3>1. a \o b \in Seq(HoIds) /\ Len(a \o b) = m + (m2 - m)
            /\ \A i \in 1 .. m + (m2 - m) : (a \o b)[i] = IF i <= m THEN a[i] ELSE b[i - m]
        <4>1. a \in Seq(HoIds) /\ Len(a) = m /\ b \in Seq(HoIds) /\ Len(b) = m2 - m
          BY <2>1, <2>2
        <4> QED BY ONLY SMTT(60), <4>1
      <3>2. m + (m2 - m) = m2
        OBVIOUS
      <3>3. ASSUME NEW i \in 1 .. m2 PROVE (a \o b)[i] = ps[i]
        <4>1. CASE i <= m
          <5>1. i \in 1 .. m /\ i \in 1 .. m + (m2 - m)
            BY <3>2, <4>1
          <5> QED BY <2>1, <3>1, <4>1, <5>1
        <4>2. CASE ~ (i <= m)
          <5>1. i - m \in 1 .. m2 - m /\ (i - m) + m = i /\ i \in 1 .. m + (m2 - m)
            BY <3>2, <4>2
          <5> QED BY <2>2, <3>1, <4>2, <5>1
        <4> QED BY <4>1, <4>2
      <3> QED BY <3>1, <3>2, <3>3
    <2>5. a \o b = c
      BY <2>3, <2>4, SeqEqual
    <2> QED BY <2>5 DEF a, b, c
  <1>5. CASE full = 0
    <2>1. burst = <<>> /\ FlattenSeq(burst) = <<>>
      <3>1. burst = <<>>
        BY <1>5
      <3> HIDE DEF burst
      <3>2. Len(burst) = 0
        BY <3>1
      <3> QED BY <3>1, <3>2 DEF FlattenSeq
    <2>2. rest = ps
      <3>1. full * B = 0
        BY <1>1, <1>5
      <3>2. rest = SubSeq(ps, 1, L)
        <4> DEFINE f == full * B
        <4>1. f + 1 = 1 /\ rest = SubSeq(ps, f + 1, L)
          BY <3>1
        <4> HIDE DEF f, rest
        <4> QED BY <4>1
      <3>3. SubSeq(ps, 1, L) = ps
        BY DEF L
      <3> QED BY <3>2, <3>3
    <2> HIDE DEF rest, burst
    <2>3. <<>> \o ps = ps
      OBVIOUS
    <2> QED BY <1>3, <2>1, <2>2, <2>3
  <1>6. CASE full # 0
    <2>1. full \in Nat \ {0} /\ Len(burst) = full
      <3>1. full \in Nat \ {0}
        BY <1>2, <1>6
      <3>2. burst \in [1 .. full -> {burst[k] : k \in 1 .. full}]
        BY <1>2
      <3> HIDE DEF burst
      <3>3. burst \in Seq({burst[k] : k \in 1 .. full}) /\ Len(burst) = full
        BY SMTT(60), <3>1, <3>2
      <3> QED BY <3>1, <3>3
    <2>2. \A k \in 1 .. full : burst[k] = SubSeq(ps, (k - 1) * B + 1, k * B)
      OBVIOUS
    <2>3. \A k \in 1 .. full : S[k] = {upto(k * B)}
      OBVIOUS
    <2> HIDE DEF burst, S, upto
    <2>4. burst[1] \in S[1]
      <3>1. 1 \in 1 .. full
        BY <2>1
      <3>2. (1 - 1) * B = 0 /\ 0 + 1 = 1
        BY <1>1
      <3>3. burst[1] = SubSeq(ps, 1, 1 * B)
        BY <2>2, <3>1, <3>2
      <3> QED BY <2>3, <3>1, <3>3 DEF upto
    <2>5. ASSUME NEW k \in 2 .. full, NEW x \in S[k - 1] PROVE x \o burst[k] \in S[k]
      <3>1. k \in 1 .. full /\ k - 1 \in 1 .. full
        BY <2>1
      <3>2. x = upto((k - 1) * B)
        BY <2>3, <3>1
      <3>3. (k - 1) * B \in Nat /\ k * B = (k - 1) * B + B /\ k * B <= full * B
        BY <1>2, <3>1
      <3> DEFINE m == (k - 1) * B  m2 == k * B  f == full * B
      <3>4. m \in Nat /\ m2 \in Nat /\ m <= m2 /\ m2 <= L
        <4>1. m \in Nat /\ m2 = m + B /\ m2 <= f /\ f < L
          BY <1>2, <3>3
        <4>2. f \in Nat
          BY <1>1, <1>2
        <4> HIDE DEF m, m2, f
        <4> QED BY <1>1, <4>1, <4>2
      <3>5. burst[k] = SubSeq(ps, m + 1, m2)
        BY <2>2, <3>1
      <3>6. upto(m) \o SubSeq(ps, m + 1, m2) = upto(m2)
        <4> HIDE DEF m, m2
        <4> QED BY <1>4, <3>4
      <3> QED BY <2>3, <3>1, <3>2, <3>5, <3>6
    <2>6. FlattenSeq(burst) \in S[full]
      BY ONLY <2>1, <2>4, <2>5, FlattenReaches
    <2>7. FlattenSeq(burst) = upto(full * B)
      <3>1. full \in 1 .. full
        BY <2>1
      <3> QED BY <2>3, <2>6, <3>1
    <2>8. upto(full * B) \o SubSeq(ps, full * B + 1, L) = upto(L)
      <3> DEFINE f == full * B
      <3>1. f \in Nat /\ f <= L /\ L \in Nat /\ L <= L
        <4>1. f \in Nat
          BY <1>1, <1>2
        <4>2. f < L
          BY <1>2
        <4> HIDE DEF f
        <4> QED BY <1>1, <4>1, <4>2
      <3> HIDE DEF f
      <3>2. upto(f) \o SubSeq(ps, f + 1, L) = upto(L)
        BY <1>4, <3>1
      <3> QED BY <3>2 DEF f
    <2>9. upto(L) = ps
      BY DEF upto, L
    <2> QED BY <1>3, <2>7, <2>8, <2>9
  <1> QED BY <1>5, <1>6

\* stop of dump
LEMMA StopKeeps ==
  ASSUME HoldInv, HoStop
  PROVE  HoldInv'
  <1>1. /\ ho_mode = "dump" /\ ~ ho_wrapped /\ HoTypeOK /\ Counted /\ ho_mbufs # <<>>
        /\ ho_mbufs' = <<>> /\ ho_left' = Leave(ho_left, Flushed(ho_mbufs))
        /\ UNCHANGED <<ho_mode, ho_n, ho_agg, ho_esp, ho_dv, ho_mir>>
    BY Zenon DEF HoStop, HoldInv, Accounted, Counted, OtherModesIdle
  <1>2. /\ ho_n \in 0 .. HoPackets /\ HoPackets \in Nat /\ ho_left \in [1 .. HoPackets -> Nat]
        /\ ho_mbufs \in Seq(HoIds)
    BY <1>1, HoAssumption DEF HoTypeOK
  <1>3. ho_left' = Leave(ho_left, ho_mbufs)
    BY <1>1, <1>2, AllFlushed
  <1>4. ho_mbufs \in Seq(HoNumbers)
    <2>1. HoIds \subseteq HoNumbers
      BY DEF HoIds, HoNumbers
    <2> QED BY ONLY <1>2, <2>1, SeqWider
  <1>5. HoTypeOK'
    <2>1. ho_left' \in [1 .. HoPackets -> Nat]
      BY <1>2, <1>3, <1>4, LeaveCounts
    <2>2. ho_mbufs' \in Seq(HoIds) /\ Len(ho_mbufs') <= DumpSize
      <3>1. <<>> \in Seq(HoIds) /\ Len(<<>>) = 0
        OBVIOUS
      <3>2. 0 <= DumpSize
        BY HoAssumption DEF DumpSize
      <3> QED BY <1>1, <3>1, <3>2
    <2> QED BY <1>1, <2>1, <2>2 DEF HoTypeOK, ho_agg, ho_esp, ho_dv, ho_mir
  <1>6. ASSUME NEW p \in 1 .. HoPackets
        PROVE  HeldTimes(p)' + Count(ho_mbufs, p) = HeldTimes(p) + New(0, p)
    <2> DEFINE r == InRings(p)  o == Count(ho_ops, p)  d == Cardinality({p} \cap ho_dev)  m == Count(ho_mbufs, p)
    <2>1. HeldTimes(p) = r + o + d + m /\ HeldTimes(p)' = r + o + d + Count(<<>>, p)
      BY <1>1, Zenon DEF HeldTimes, InRings, ho_agg, ho_esp, ho_dv
    <2>2. Count(<<>>, p) = 0
      BY CountNone
    <2>3. New(0, p) = 0
      BY <1>2 DEF New
    <2>4. r \in Nat /\ o \in Nat /\ d \in Nat /\ m \in Nat
      BY <1>1, HeldType
    <2> HIDE DEF r, o, d, m
    <2>5. HeldTimes(p)' + m = HeldTimes(p) + New(0, p)
      BY <2>1, <2>2, <2>3, <2>4
    <2> QED BY <2>5 DEF m
  <1>7. ho_n' = ho_n + 0 /\ 0 \in Nat
    BY <1>1, <1>2
  <1>8. Counted'
    BY ONLY <1>1, <1>3, <1>4, <1>5, <1>6, <1>7, CountedStays
  <1>9. OtherModesIdle'
    BY <1>1 DEF HoldInv, OtherModesIdle, ho_mir, ho_agg
  <1>10. ho_mode' = "dump"
    BY <1>1
  <1> QED BY <1>5, <1>8, <1>9, <1>10 DEF HoldInv, Accounted, Counted

\* The same burst, time and again.
LEMMA CopiesCounted ==
  ASSUME NEW a \in Seq(HoIds), \A p : Count(a, p) \in 0 .. 1, NEW n \in Nat \ {0}
  PROVE  LET t == FlattenSeq([c \in 1 .. n |-> a]) IN
         t \in Seq(HoIds) /\ \A p \in HoIds : Count(t, p) = IF Count(a, p) = 1 THEN n ELSE 0
  <1> DEFINE seqs == [c \in 1 .. n |-> a]
             After(k) == {x \in Seq(HoIds) : \A p \in HoIds : Count(x, p) = IF Count(a, p) = 1 THEN k ELSE 0}
             S == [k \in 1 .. n |-> After(k)]
  <1>1. Len(seqs) = n /\ \A k \in 1 .. n : seqs[k] = a
    <2>1. seqs \in [1 .. n -> Seq(HoIds)]
      OBVIOUS
    <2>2. \A k \in 1 .. n : seqs[k] = a
      OBVIOUS
    <2> HIDE DEF seqs
    <2>3. seqs \in Seq(Seq(HoIds)) /\ Len(seqs) = n
      BY <2>1
    <2> QED BY <2>2, <2>3
  <1>2. \A k \in 1 .. n : S[k] = After(k)
    OBVIOUS
  <1> HIDE DEF seqs, S
  <1>3. 1 \in 1 .. n /\ n \in 1 .. n
    OBVIOUS
  <1>4. seqs[1] \in S[1]
    <2>1. a \in After(1)
      OBVIOUS
    <2> HIDE DEF After
    <2> QED BY <1>1, <1>2, <1>3, <2>1
  <1>5. ASSUME NEW k \in 2 .. n, NEW x \in S[k - 1] PROVE x \o seqs[k] \in S[k]
    <2>1. k \in 1 .. n /\ k - 1 \in 1 .. n
      OBVIOUS
    <2>2. x \in After(k - 1)
      <3> HIDE DEF After
      <3> QED BY <1>2, <2>1
    <2>3. x \in Seq(HoIds) /\ \A p \in HoIds : Count(x, p) = IF Count(a, p) = 1 THEN k - 1 ELSE 0
      BY <2>2
    <2>4. x \o a \in Seq(HoIds)
      BY <2>3
    <2>5. \A p : Count(x \o a, p) = Count(x, p) + Count(a, p)
      BY ONLY <2>3, a \in Seq(HoIds), CountBoth
    <2>6. ASSUME NEW p \in HoIds PROVE Count(x \o a, p) = IF Count(a, p) = 1 THEN k ELSE 0
      <3> DEFINE u == Count(x, p)  v == Count(a, p)
      <3>1. Count(x \o a, p) = u + v /\ u = (IF v = 1 THEN k - 1 ELSE 0) /\ v \in 0 .. 1
        BY <2>3, <2>5
      <3> HIDE DEF u, v
      <3>2. Count(x \o a, p) = IF v = 1 THEN k ELSE 0
        BY <3>1
      <3> QED BY <3>2 DEF v
    <2>7. x \o a \in After(k)
      BY <2>4, <2>6
    <2> HIDE DEF After
    <2> QED BY <1>1, <1>2, <2>1, <2>7
  <1>6. FlattenSeq(seqs) \in S[n]
    BY ONLY <1>1, <1>4, <1>5, n \in Nat \ {0}, FlattenReaches
  <1>7. FlattenSeq(seqs) \in After(n)
    <2> HIDE DEF After
    <2> QED BY <1>2, <1>3, <1>6
  <1> HIDE DEF seqs
  <1>8. FlattenSeq(seqs) \in Seq(HoIds)
        /\ \A p \in HoIds : Count(FlattenSeq(seqs), p) = IF Count(a, p) = 1 THEN n ELSE 0
    BY <1>7
  <1> QED BY <1>8 DEF seqs

\* handle_mirror_bulk
LEMMA MirrorKeeps ==
  ASSUME HoldInv, NEW n \in Nat, ho_n + n <= HoPackets, ho_n' = ho_n + n, ho_mode' = ho_mode, HoMirror(n)
  PROVE  HoldInv'
  <1> DEFINE a == Arriving(n)  m == HoDests * HoMultiplier  t == FlattenSeq([c \in 1 .. m |-> a])
  <1>1. /\ ho_mode = "mirror" /\ ~ ho_wrapped /\ HoTypeOK /\ AllReferenced /\ ho_todo = <<>>
        /\ ho_refs' = [p \in DOMAIN ho_refs |-> IF p \in ToSet(a) THEN ho_refs[p] + m - 1 ELSE ho_refs[p]]
        /\ ho_todo' = t
        /\ UNCHANGED <<ho_left, ho_agg, ho_esp, ho_dv, ho_mbufs, ho_out>>
    BY Zenon DEF HoMirror, HoldInv, OtherModesIdle, Copies
  <1>2. /\ ho_n \in 0 .. HoPackets /\ HoPackets \in Nat /\ ho_refs \in [1 .. HoPackets -> Nat] /\ ho_n \in Nat
        /\ ho_out \in [1 .. HoPackets -> Nat]
    BY SMTT(60), <1>1, HoAssumption DEF HoTypeOK
  <1>3. m \in Nat \ {0}
    <2>1. HoDests \in Nat \ {0} /\ HoMultiplier \in Nat \ {0}
      BY HoAssumption
    <2>2. PICK d \in Nat : HoDests = d + 1
      <3>1. HoDests - 1 \in Nat /\ HoDests = (HoDests - 1) + 1
        BY <2>1
      <3> QED BY <3>1
    <2>3. m = d * HoMultiplier + HoMultiplier /\ d * HoMultiplier \in Nat
      BY <2>1, <2>2
    <2> HIDE DEF m
    <2> QED BY <2>1, <2>3
  <1>4. a \in Seq(HoIds) /\ \A p : Count(a, p) = New(n, p)
    BY ONLY <1>2, n \in Nat, ho_n + n <= HoPackets, CountArriving
  <1>5. \A p : Count(a, p) \in 0 .. 1 /\ (Count(a, p) = 0 <=> p \notin ToSet(a))
    <2>1. \A p : Count(a, p) \in 0 .. 1
      BY <1>4 DEF New
    <2>2. \A p : Count(a, p) = 0 <=> p \notin ToSet(a)
      BY ONLY <1>4, CountType
    <2> QED BY <2>1, <2>2
  <1> HIDE DEF a, m
  <1>6. t \in Seq(HoIds) /\ \A p \in HoIds : Count(t, p) = IF Count(a, p) = 1 THEN m ELSE 0
    BY ONLY <1>3, <1>4, <1>5, CopiesCounted
  <1> HIDE DEF t
  <1>7. \A p \in 1 .. HoPackets : ho_refs'[p] = (IF p \in ToSet(a) THEN ho_refs[p] + m - 1 ELSE ho_refs[p])
                                  /\ ho_refs'[p] \in Nat
    <2>1. \A p \in 1 .. HoPackets : ho_refs'[p] = IF p \in ToSet(a) THEN ho_refs[p] + m - 1 ELSE ho_refs[p]
      BY <1>1, <1>2
    <2>2. \A p \in 1 .. HoPackets : ho_refs[p] \in Nat
      BY <1>2
    <2>3. \A p \in 1 .. HoPackets : ho_refs'[p] \in Nat
      BY <1>3, <2>1, <2>2
    <2> QED BY <2>1, <2>3
  <1>8. ho_refs' \in [1 .. HoPackets -> Nat]
    <2>1. DOMAIN ho_refs' = 1 .. HoPackets /\ ho_refs' = [p \in 1 .. HoPackets |-> ho_refs'[p]]
      BY <1>1, <1>2
    <2> QED BY <1>7, <2>1
  <1>9. HoTypeOK'
    <2>1. ho_n' \in 0 .. HoPackets
      BY <1>2
    <2> QED BY <1>1, <1>6, <1>8, <2>1 DEF HoTypeOK, ho_agg, ho_esp, ho_dv
  <1>10. ASSUME NEW p \in 1 .. HoPackets PROVE Referenced(p)'
    <2> DEFINE o == ho_out[p]  l == ho_left[p]  c == Count(ho_todo, p)  c2 == Count(t, p)  v == Count(a, p)
               r == ho_refs[p]  r2 == ho_refs'[p]
    <2>1. c = 0
      BY <1>1, CountNone
    <2>2. o \in Nat /\ r \in Nat
      BY <1>2
    <2>3. c2 = (IF v = 1 THEN m ELSE 0) /\ v = New(n, p) /\ v \in 0 .. 1
      BY <1>4, <1>5, <1>6 DEF HoIds
    <2>4. r2 = IF v = 1 THEN r + m - 1 ELSE r
      BY <1>5, <1>7
    <2>5. IF p <= ho_n THEN r = c + o /\ l = (IF r = 0 THEN 1 ELSE 0)
          ELSE r = 1 /\ c = 0 /\ o = 0 /\ l = 0
      BY <1>1, Zenon DEF AllReferenced, Referenced
    <2>6. v = (IF p <= ho_n THEN 0 ELSE IF p <= ho_n' THEN 1 ELSE 0)
      BY <1>2, <2>3 DEF New
    <2>7. ho_out' = ho_out /\ ho_left' = ho_left /\ ho_todo' = t
      BY <1>1
    <2>8. p <= ho_n => p <= ho_n'
      BY <1>2
    <2> HIDE DEF o, l, c, c2, v, r, r2
    <2>9. IF p <= ho_n' THEN r2 = c2 + o /\ l = (IF r2 = 0 THEN 1 ELSE 0)
          ELSE r2 = 1 /\ c2 = 0 /\ o = 0 /\ l = 0
      BY <1>3, <2>1, <2>2, <2>3, <2>4, <2>5, <2>6, <2>8
    <2> QED BY <2>7, <2>9, Zenon DEF Referenced, o, l, c2, r2
  <1>11. OtherModesIdle'
    BY <1>1 DEF HoldInv, OtherModesIdle, ho_agg
  <1>12. ho_mode' = "mirror"
    BY <1>1
  <1>13. AllReferenced'
    BY <1>10 DEF AllReferenced
  <1> QED BY <1>9, <1>11, <1>12, <1>13 DEF HoldInv

\* The burst is sent, a packet at a time.
LEMMA MirrorSendKeeps ==
  ASSUME HoldInv, HoMirrorSend
  PROVE  HoldInv'
  <1> DEFINE h == Head(ho_todo)  t == Tail(ho_todo)
  <1>1. /\ ho_mode = "mirror" /\ ~ ho_wrapped /\ HoTypeOK /\ AllReferenced /\ ho_todo # <<>>
        /\ ho_todo' = t /\ ho_out' = [ho_out EXCEPT ![h] = @ + 1]
        /\ UNCHANGED <<ho_mode, ho_n, ho_left, ho_agg, ho_esp, ho_dv, ho_mbufs, ho_refs>>
    BY Zenon DEF HoMirrorSend, HoldInv, OtherModesIdle
  <1>2. /\ ho_todo \in Seq(HoIds) /\ ho_out \in [1 .. HoPackets -> Nat] /\ ho_n \in Nat
        /\ ho_refs \in [1 .. HoPackets -> Nat]
    BY <1>1 DEF HoTypeOK
  <1>3. h \in HoIds /\ t \in Seq(HoIds) /\ ho_todo = <<h>> \o t /\ <<h>> \in Seq(HoIds)
    <2>1. ho_todo \in Seq(HoIds) /\ ho_todo # <<>>
      BY <1>1, <1>2
    <2> QED BY ONLY <2>1
  <1> HIDE DEF h, t
  <1>4. \A p : Count(ho_todo, p) = (IF h = p THEN 1 ELSE 0) + Count(t, p)
    <2>1. \A p : Count(<<h>>, p) = IF h = p THEN 1 ELSE 0
      BY ONLY CountOne
    <2>2. \A p : Count(<<h>> \o t, p) = Count(<<h>>, p) + Count(t, p)
      BY ONLY <1>3, CountBoth
    <2> QED BY <1>3, <2>1, <2>2
  <1>5. \A p : Count(t, p) \in Nat
    BY ONLY <1>3, CountType
  <1>6. \A p \in 1 .. HoPackets : ho_out'[p] = ho_out[p] + (IF h = p THEN 1 ELSE 0) /\ ho_out'[p] \in Nat
    BY <1>1, <1>2
  <1>7. ho_out' \in [1 .. HoPackets -> Nat]
    <2>1. DOMAIN ho_out' = 1 .. HoPackets /\ ho_out' = [p \in 1 .. HoPackets |-> ho_out'[p]]
      BY <1>1, <1>2
    <2> QED BY <1>6, <2>1
  <1>8. HoTypeOK'
    BY <1>1, <1>3, <1>7 DEF HoTypeOK, ho_agg, ho_esp, ho_dv
  <1>9. ASSUME NEW p \in 1 .. HoPackets PROVE Referenced(p)'
    <2> DEFINE o == ho_out[p]  o2 == ho_out'[p]  l == ho_left[p]  c == Count(ho_todo, p)  c2 == Count(t, p)
               r == ho_refs[p]  v == IF h = p THEN 1 ELSE 0
    <2>1. c = v + c2 /\ c2 \in Nat /\ v \in Nat
      BY <1>4, <1>5
    <2>2. o2 = o + v /\ o \in Nat
      BY <1>2, <1>6
    <2>3. IF p <= ho_n THEN r = c + o /\ l = (IF r = 0 THEN 1 ELSE 0)
          ELSE r = 1 /\ c = 0 /\ o = 0 /\ l = 0
      BY <1>1, Zenon DEF AllReferenced, Referenced
    <2>4. ho_n' = ho_n /\ ho_left' = ho_left /\ ho_todo' = t /\ ho_refs' = ho_refs
      BY <1>1
    <2> HIDE DEF o, o2, l, c, c2, r, v
    <2>5. IF p <= ho_n THEN r = c2 + o2 /\ l = (IF r = 0 THEN 1 ELSE 0)
          ELSE r = 1 /\ c2 = 0 /\ o2 = 0 /\ l = 0
      BY <2>1, <2>2, <2>3
    <2> QED BY <2>4, <2>5, Zenon DEF Referenced, o2, l, c2, r
  <1>10. OtherModesIdle'
    BY <1>1 DEF HoldInv, OtherModesIdle, ho_agg
  <1>11. ho_mode' = "mirror"
    BY <1>1
  <1>12. AllReferenced'
    BY <1>9 DEF AllReferenced
  <1> QED BY <1>8, <1>10, <1>11, <1>12 DEF HoldInv

\* A task behind the mirror frees one reference, and the packet with the last.
LEMMA FreeKeeps ==
  ASSUME HoldInv, NEW q \in 1 .. HoPackets, HoFree(q)
  PROVE  HoldInv'
  <1>1. ho_out[q] > 0
    BY DEF HoFree
  <1>2. /\ ho_mode = "mirror" /\ ~ ho_wrapped /\ HoTypeOK /\ AllReferenced
    <2>1. ho_mode = "mirror"
      BY <1>1 DEF HoldInv, OtherModesIdle
    <2> QED BY <2>1 DEF HoldInv, OtherModesIdle
  <1>3. /\ ho_out' = [ho_out EXCEPT ![q] = @ - 1]
        /\ ho_refs' = [ho_refs EXCEPT ![q] = @ - 1]
        /\ ho_left' = IF ho_refs[q] = 1 THEN Leave(ho_left, <<q>>) ELSE ho_left
        /\ UNCHANGED <<ho_mode, ho_n, ho_agg, ho_esp, ho_dv, ho_mbufs, ho_todo>>
    BY Zenon DEF HoFree
  <1>4. /\ ho_todo \in Seq(HoIds) /\ ho_out \in [1 .. HoPackets -> Nat] /\ ho_n \in Nat
        /\ ho_refs \in [1 .. HoPackets -> Nat] /\ ho_left \in [1 .. HoPackets -> Nat]
    BY <1>2 DEF HoTypeOK
  <1>5. \A p \in 1 .. HoPackets :
          ho_left'[p] = ho_left[p] + (IF p = q /\ ho_refs[q] = 1 THEN 1 ELSE 0)
    <2>1. \A p : Count(<<q>>, p) = IF q = p THEN 1 ELSE 0
      BY ONLY CountOne
    <2>2. \A p \in 1 .. HoPackets : Leave(ho_left, <<q>>)[p] = ho_left[p] + Count(<<q>>, p)
      BY <1>4 DEF Leave
    <2>3. \A p \in 1 .. HoPackets : ho_left[p] \in Nat
      BY <1>4
    <2>4. CASE ho_refs[q] = 1
      BY <1>3, <2>1, <2>2, <2>4
    <2>5. CASE ho_refs[q] # 1
      BY <1>3, <2>3, <2>5
    <2> QED BY <2>4, <2>5
  <1>6. DOMAIN ho_left' = 1 .. HoPackets /\ ho_left' = [p \in 1 .. HoPackets |-> ho_left'[p]]
    BY <1>3, <1>4 DEF Leave
  <1>7. \A p \in 1 .. HoPackets : ho_left'[p] \in Nat
    BY <1>4, <1>5
  <1>8. ho_left' \in [1 .. HoPackets -> Nat]
    BY <1>6, <1>7
  <1>9. \A p \in 1 .. HoPackets :
          /\ ho_out'[p] = ho_out[p] - (IF p = q THEN 1 ELSE 0)
          /\ ho_refs'[p] = ho_refs[p] - (IF p = q THEN 1 ELSE 0)
    BY <1>3, <1>4
  <1>10. ASSUME NEW p \in 1 .. HoPackets
         PROVE  Referenced(p)' /\ ho_out'[p] \in Nat /\ ho_refs'[p] \in Nat
    <2> DEFINE o == ho_out[p]  o2 == ho_out'[p]  l == ho_left[p]  l2 == ho_left'[p]  c == Count(ho_todo, p)
               r == ho_refs[p]  r2 == ho_refs'[p]  v == IF p = q THEN 1 ELSE 0
    <2>1. c \in Nat
      BY ONLY <1>4, CountType
    <2>2. o \in Nat /\ r \in Nat /\ l \in Nat /\ v \in {0, 1} /\ (v = 1 => o > 0)
      BY <1>1, <1>4
    <2>3. o2 = o - v /\ r2 = r - v
      BY <1>9
    <2>4. l2 = l + (IF v = 1 /\ r = 1 THEN 1 ELSE 0)
      BY <1>5
    <2>5. IF p <= ho_n THEN r = c + o /\ l = (IF r = 0 THEN 1 ELSE 0)
          ELSE r = 1 /\ c = 0 /\ o = 0 /\ l = 0
      BY <1>2, Zenon DEF AllReferenced, Referenced
    <2>6. ho_n' = ho_n /\ ho_todo' = ho_todo
      BY <1>3
    <2> HIDE DEF o, o2, l, l2, c, r, r2, v
    <2>7. (IF p <= ho_n THEN r2 = c + o2 /\ l2 = (IF r2 = 0 THEN 1 ELSE 0)
           ELSE r2 = 1 /\ c = 0 /\ o2 = 0 /\ l2 = 0)
          /\ o2 \in Nat /\ r2 \in Nat
      BY <2>1, <2>2, <2>3, <2>4, <2>5
    <2>8. Referenced(p)'
      BY <2>6, <2>7, Zenon DEF Referenced, o2, l2, c, r2
    <2> QED BY <2>7, <2>8 DEF o2, r2
  <1>11. ho_out' \in [1 .. HoPackets -> Nat] /\ ho_refs' \in [1 .. HoPackets -> Nat]
    <2>1. /\ DOMAIN ho_out' = 1 .. HoPackets /\ ho_out' = [p \in 1 .. HoPackets |-> ho_out'[p]]
          /\ DOMAIN ho_refs' = 1 .. HoPackets /\ ho_refs' = [p \in 1 .. HoPackets |-> ho_refs'[p]]
      BY <1>3, <1>4
    <2> QED BY <1>10, <2>1
  <1>12. HoTypeOK'
    BY <1>2, <1>3, <1>8, <1>11 DEF HoTypeOK, ho_agg, ho_esp, ho_dv
  <1>13. OtherModesIdle'
    BY <1>2, <1>3 DEF HoldInv, OtherModesIdle, ho_agg
  <1>14. ho_mode' = "mirror"
    BY <1>2, <1>3
  <1>15. AllReferenced'
    BY <1>10 DEF AllReferenced
  <1> QED BY <1>12, <1>13, <1>14, <1>15 DEF HoldInv

\* The tasks start without packets.
LEMMA HoldStart ==
  ASSUME HoInit
  PROVE  HoldInv
  <1>1. /\ HoPackets \in Nat /\ HoBurst \in Nat \ {0} /\ HoLength \in Nat \ {0} /\ HoOps \in Nat
    BY HoAssumption
  <1>2. /\ ho_mode \in {"aggreg", "esp", "qos", "dump", "mirror"}
        /\ ho_n = 0 /\ ho_left = [p \in 1 .. HoPackets |-> 0]
        /\ ho_prio = [i \in Priorities |-> [buffer |-> [k \in 0 .. HoLength - 1 |-> 0], pkt_pos |-> 0, pkt_nb |-> 0]]
        /\ ho_wrapped = FALSE
        /\ ho_ops = <<>> /\ ho_dev = {} /\ ho_count = 0 /\ ho_pool = HoOps /\ ho_mbufs = <<>>
        /\ ho_todo = <<>> /\ ho_refs = [p \in 1 .. HoPackets |-> 1] /\ ho_out = [p \in 1 .. HoPackets |-> 0]
    BY Zenon DEF HoInit
  <1>3. ho_prio \in [Priorities -> HoRings]
    <2> DEFINE b == [k \in 0 .. HoLength - 1 |-> 0]  r == [buffer |-> b, pkt_pos |-> 0, pkt_nb |-> 0]
    <2>1. b \in [0 .. HoLength - 1 -> HoNumbers]
      BY <1>1 DEF HoNumbers
    <2>2. r \in HoRings
      <3> HIDE DEF b
      <3> QED BY <1>1, <2>1 DEF HoRings
    <2>3. ho_prio = [i \in Priorities |-> r]
      BY <1>2
    <2> HIDE DEF r
    <2> QED BY <2>2, <2>3
  <1>4. HoTypeOK
    <2>1. ho_count = Cardinality(ho_dev)
      BY <1>2, FS_EmptySet
    <2>2. /\ ho_n \in 0 .. HoPackets /\ ho_left \in [1 .. HoPackets -> Nat]
          /\ ho_ops \in Seq(HoIds) /\ ho_dev \in SUBSET HoIds /\ ho_pool \in Int
          /\ ho_mbufs \in Seq(HoIds) /\ ho_todo \in Seq(HoIds)
      BY <1>1, <1>2
    <2>3. Len(ho_mbufs) <= DumpSize
      BY <1>1, <1>2 DEF DumpSize
    <2>4. ho_refs \in [1 .. HoPackets -> Nat] /\ ho_out \in [1 .. HoPackets -> Nat]
      BY <1>2
    <2> QED BY <1>3, <2>1, <2>2, <2>3, <2>4 DEF HoTypeOK
  <1>5. OtherModesIdle
    BY <1>2 DEF OtherModesIdle
  <1>6. ASSUME NEW p \in 1 .. HoPackets PROVE HeldTimes(p) = 0
    <2>1. ASSUME NEW i \in Priorities PROVE Count(Contents(ho_prio[i]), p) = 0
      <3>1. ho_prio[i] \in HoRings /\ ho_prio[i].pkt_nb = 0
        BY <1>2, <1>3
      <3>2. Contents(ho_prio[i]) \in Seq(HoNumbers) /\ Len(Contents(ho_prio[i])) = 0
        BY <3>1, ContentsType
      <3> DEFINE c == Contents(ho_prio[i])
      <3> HIDE DEF c
      <3>3. c = <<>>
        BY <3>2 DEF c
      <3>4. Count(c, p) = 0
        BY <3>3, CountNone
      <3> QED BY <3>4 DEF c
    <2>2. InRings(p) = 0
      <3>1. 0 \in Priorities /\ 1 \in Priorities /\ 2 \in Priorities
        BY DEF Priorities
      <3> QED BY <2>1, <3>1 DEF InRings
    <2>3. Count(ho_ops, p) = 0 /\ Count(ho_mbufs, p) = 0
      BY <1>2, CountNone
    <2>4. Cardinality({p} \cap ho_dev) = 0
      <3>1. {p} \cap ho_dev = {}
        BY <1>2
      <3> QED BY <3>1, FS_EmptySet
    <2> QED BY <2>2, <2>3, <2>4 DEF HeldTimes
  <1>7. Accounted
    <2>1. ASSUME NEW p \in 1 .. HoPackets PROVE HeldTimes(p) + ho_left[p] = IF p <= ho_n THEN 1 ELSE 0
      <3>1. ho_left[p] = 0 /\ ~ (p <= ho_n)
        BY <1>2
      <3> QED BY <1>6, <3>1
    <2>2. ho_pool + Len(ho_ops) + ho_count = HoOps
      BY <1>1, <1>2
    <2> QED BY <2>1, <2>2 DEF Accounted
  <1>8. AllReferenced
    <2>1. ASSUME NEW p \in 1 .. HoPackets PROVE Referenced(p)
      <3>1. ~ (p <= ho_n) /\ ho_refs[p] = 1 /\ ho_out[p] = 0 /\ ho_left[p] = 0
        BY <1>2
      <3>2. Count(ho_todo, p) = 0
        BY <1>2, CountNone
      <3> QED BY <3>1, <3>2 DEF Referenced
    <2> QED BY <2>1 DEF AllReferenced
  <1> QED BY <1>4, <1>5, <1>7, <1>8 DEF HoldInv

\* Every step keeps the invariant.
LEMMA HoldStep ==
  ASSUME HoldInv, [HoNext]_ho_vars
  PROVE  HoldInv'
  <1>1. ASSUME NEW n \in 0 .. HoBurst, HoHandle(n) PROVE HoldInv'
    <2>1. n \in Nat /\ ho_n + n <= HoPackets /\ ho_n' = ho_n + n /\ ho_mode' = ho_mode
      BY <1>1, HoAssumption DEF HoHandle
    <2>2. HoAggregate(n) \/ HoEsp(n) \/ HoQos(n) \/ HoDump(n) \/ HoMirror(n)
      BY <1>1, Zenon DEF HoHandle
    <2> QED BY ONLY HoldInv, <2>1, <2>2, AggregateKeeps, EspKeeps, QosKeeps, DumpKeeps, MirrorKeeps
  <1>2. CASE UNCHANGED ho_vars
    <2>1. /\ ho_mode' = ho_mode /\ ho_n' = ho_n /\ ho_left' = ho_left /\ ho_prio' = ho_prio
          /\ ho_wrapped' = ho_wrapped /\ ho_ops' = ho_ops /\ ho_pool' = ho_pool /\ ho_dev' = ho_dev
          /\ ho_count' = ho_count /\ ho_mbufs' = ho_mbufs
          /\ ho_todo' = ho_todo /\ ho_refs' = ho_refs /\ ho_out' = ho_out
      BY <1>2 DEF ho_vars, ho_agg, ho_esp, ho_dv, ho_mir
    <2> QED BY <2>1, Zenon DEF HoldInv, HoTypeOK, OtherModesIdle, Accounted, AllReferenced, Referenced, HeldTimes, InRings
  <1>3. HoStop => HoldInv'
    BY StopKeeps
  <1>4. HoMirrorSend => HoldInv'
    BY MirrorSendKeeps
  <1>5. ASSUME NEW q \in 1 .. HoPackets, HoFree(q) PROVE HoldInv'
    BY <1>5, FreeKeeps
  <1> QED BY <1>1, <1>2, <1>3, <1>4, <1>5, Zenon DEF HoNext

\* The invariant says what the property says.
LEMMA HoldSuffices ==
  ASSUME HoldInv
  PROVE  HoldingSound
  <1>1. EachLeavesOnce
    <2>1. SUFFICES ASSUME ho_mode # "mirror", ~ ho_wrapped
                   PROVE  /\ \A p \in 1 .. ho_n : HeldTimes(p) + ho_left[p] = 1
                          /\ ho_count = Cardinality(ho_dev)
                          /\ ho_mode = "esp" => ho_pool + Len(ho_ops) + ho_count = HoOps
      BY DEF EachLeavesOnce
    <2>2. HoTypeOK /\ Accounted
      BY <2>1 DEF HoldInv
    <2>3. ho_n \in 0 .. HoPackets /\ HoPackets \in Nat
      BY <2>2, HoAssumption DEF HoTypeOK
    <2>4. \A p \in 1 .. ho_n : p \in 1 .. HoPackets /\ p <= ho_n
      BY <2>3
    <2>5. \A p \in 1 .. ho_n : HeldTimes(p) + ho_left[p] = 1
      BY <2>2, <2>4 DEF Accounted
    <2>6. ho_count = Cardinality(ho_dev)
      BY <2>2 DEF HoTypeOK
    <2>7. ho_mode = "esp" => ho_pool + Len(ho_ops) + ho_count = HoOps
      BY <2>2 DEF Accounted
    <2> QED BY <2>5, <2>6, <2>7
  <1>2. MirroredAlive
    <2>1. SUFFICES ASSUME ho_mode = "mirror", NEW p \in 1 .. ho_n
                   PROVE  ho_left[p] = IF p \in ToSet(ho_todo) \/ ho_out[p] > 0 THEN 0 ELSE 1
      BY DEF MirroredAlive
    <2>2. HoTypeOK /\ AllReferenced
      BY <2>1 DEF HoldInv, OtherModesIdle
    <2>3. ho_n \in 0 .. HoPackets /\ HoPackets \in Nat /\ ho_todo \in Seq(HoIds) /\ ho_out \in [1 .. HoPackets -> Nat]
      BY <2>2, HoAssumption DEF HoTypeOK
    <2>4. p \in 1 .. HoPackets /\ p <= ho_n
      BY <2>1, <2>3
    <2> DEFINE c == Count(ho_todo, p)  o == ho_out[p]  r == ho_refs[p]  l == ho_left[p]
    <2>5. c \in Nat /\ (c = 0 <=> p \notin ToSet(ho_todo))
      BY ONLY <2>3, CountType
    <2>6. r = c + o /\ l = (IF r = 0 THEN 1 ELSE 0) /\ o \in Nat
      BY <2>2, <2>3, <2>4 DEF AllReferenced, Referenced
    <2> HIDE DEF c, o, r, l
    <2>7. l = IF p \in ToSet(ho_todo) \/ o > 0 THEN 0 ELSE 1
      BY <2>5, <2>6
    <2> QED BY <2>7 DEF l, o
  <1> QED BY <1>1, <1>2 DEF HoldingSound

\* A packet that a task keeps between two calls, or hands to many, leaves it once
\* and is not freed before the last who holds it.
THEOREM HeldOnce == HoSpec => []HoldingSound
  <1>1. HoInit => HoldInv
    BY HoldStart
  <1>2. HoldInv /\ [HoNext]_ho_vars => HoldInv'
    BY HoldStep
  <1>3. HoldInv => HoldingSound
    BY HoldSuffices
  <1> QED BY <1>1, <1>2, <1>3, PTL DEF HoSpec

=============================================================================
