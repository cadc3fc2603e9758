-------------------------------- MODULE Bursts --------------------------------
(***************************************************************************)
(* The tasks that decide about every packet of a burst and leave their     *)
(* decision in it for the tasks behind: acl, classify, police, the class   *)
(* that qos writes, and arp.  A burst goes through a chain of them.        *)
(*                                                                         *)
(* A packet is what it is (kind, user, dscp, rule: what the ACL says of it)*)
(* and its sched: the pipe, traffic class, queue and colour kept in the    *)
(* mbuf, in the place of the receive hash.                                 *)
(***************************************************************************)
EXTENDS Integers, Sequences, SequencesExt, FiniteSets

CONSTANTS BuPackets,   \* the packets bursts are made of
          BuLength,    \* bound on the length of a burst
          BuSteps,     \* bound on the length of a chain
          BuColors,    \* the colours the meters give
          BuOffset     \* PREFETCH_OFFSET

Rules == {"allow", "rate limit", "none"}
Kinds == {"ip", "gratuitous", "request", "strange request", "answer"}
ASSUME BuAssumption ==
  /\ BuLength \in Nat \ {0} /\ BuSteps \in Nat /\ BuOffset \in Nat
  /\ BuPackets \subseteq [kind : Kinds, user : Nat, dscp : Nat, rule : Rules]
  /\ BuColors \subseteq {"green", "yellow", "red"}

VARIABLES
  bu_pkts,    \* the burst, as the last task passed it on
  bu_path,    \* the tasks it went through
  bu_last,    \* what the last task did: its packets and what became of each
  bu_ip, bu_tmp_ip   \* ip and tmp_ip of the arp task; 0 when it has none
bu_vars == <<bu_pkts, bu_path, bu_last, bu_ip, bu_tmp_ip>>

DISCARDED == -1
Nothing == [task |-> "none", in |-> <<>>, out |-> <<>>]

\* user_table and the dscp table of the configuration; a table that is no identity.
UserTable(qinq) == (qinq + 1) % 3
TcOf(dscp) == dscp \div 4
QueueOf(dscp) == dscp % 4
PoliceAct(color) == CASE color = "green" -> "green" [] color = "yellow" -> "red" [] color = "red" -> "drop"

Survivors(pkts, out) ==
  LET kept[i \in 0 .. Len(pkts)] ==
        IF i = 0 THEN <<>>
        ELSE IF out[i] = DISCARDED THEN kept[i - 1] ELSE Append(kept[i - 1], pkts[i])
  IN kept[Len(pkts)]

BuInit ==
  /\ \E n \in 1 .. BuLength : \E ps \in [1 .. n -> BuPackets] : \E hash \in 0 .. 1 :
       bu_pkts = [i \in 1 .. n |->
                    [p |-> ps[i], sched |-> [pipe |-> 0, tc |-> hash, queue |-> 0, color |-> "green"]]]
  /\ bu_path = <<>> /\ bu_last = Nothing
  /\ bu_ip \in {0, 1} /\ bu_tmp_ip = bu_ip

Passes(task, pkts, out, meter, classify) ==
  /\ bu_pkts' = Survivors(pkts, out)
  /\ bu_last' = [task |-> task, in |-> bu_pkts, out |-> out, meter |-> meter, classify |-> classify]
  /\ bu_path' = Append(bu_path, task)

----------------------------------------------------------------------------
\* handle_acl_bulk: out is not written for a packet whose rate is limited.
AclOut(rule) == CASE rule = "allow" -> {0} [] rule = "rate limit" -> {0, DISCARDED} [] OTHER -> {DISCARDED}
SetTc(x, tc) == [x EXCEPT !.sched.tc = tc]
AclClass(x) == IF x.p.rule \in {"allow", "rate limit"} THEN SetTc(x, 3) ELSE x
BuAcl ==
  /\ \E out \in [DOMAIN bu_pkts -> {0, DISCARDED}] :
       /\ \A i \in DOMAIN bu_pkts : out[i] \in AclOut(bu_pkts[i].p.rule)
       /\ Passes("acl", [i \in DOMAIN bu_pkts |-> AclClass(bu_pkts[i])], out, <<>>, TRUE)
  /\ UNCHANGED <<bu_ip, bu_tmp_ip>>

\* handle_classify: a class that is set is not overwritten.
\* Mutant: the class of the code point in any case.
Classified_anew(x) ==
  [x EXCEPT !.sched = [pipe |-> UserTable(x.p.user), queue |-> QueueOf(x.p.dscp), color |-> "green",
                       tc |-> TcOf(x.p.dscp)]]
Classified(x) ==
  [x EXCEPT !.sched = [pipe |-> UserTable(x.p.user), queue |-> QueueOf(x.p.dscp), color |-> "green",
                       tc |-> IF x.sched.tc # 0 THEN x.sched.tc ELSE TcOf(x.p.dscp)]]
BuClassify ==
  /\ Passes("classify", [i \in DOMAIN bu_pkts |-> Classified(bu_pkts[i])], [i \in DOMAIN bu_pkts |-> 0], <<>>, TRUE)
  /\ UNCHANGED <<bu_ip, bu_tmp_ip>>

\* handle_qos_bulk with TASK_CLASSIFY writes all of it anew.
Scheduled(x) ==
  LET d == IF x.p.kind = "ip" THEN x.p.dscp ELSE 0
  IN [x EXCEPT !.sched = [pipe |-> UserTable(x.p.user), queue |-> QueueOf(d), tc |-> TcOf(d), color |-> "green"]]
BuQos ==
  /\ Passes("qos", [i \in DOMAIN bu_pkts |-> Scheduled(bu_pkts[i])], [i \in DOMAIN bu_pkts |-> 0], <<>>, TRUE)
  /\ UNCHANGED <<bu_ip, bu_tmp_ip>>

\* handle_pb works in phases, BuOffset packets apart.  Which elements of user[]
\* are written: the first phase runs while there are packets for the two phases
\* before it, the others write the element BuOffset ahead.
\* Mutant: the phases are counted from the end.
UserWritten_two(n) == 2 * BuOffset + 1 .. n
UserWritten(n) == {j \in 1 .. BuOffset : j + 2 * BuOffset <= n} \cup (BuOffset + 1 .. n)
\* get_user: the tags of the packet (TASK_CLASSIFY), or the pipe that was written.
GetUser(x, classify) == IF classify THEN x.p.user ELSE x.sched.pipe

\* handle_police, handle_police_tr: the meter of user_table[user[j]] takes the tokens
\* of each packet and gives it a colour, another one perhaps than to the packet of
\* the same user before it; with TASK_MARK the action is the packet's new colour.
BuPolice(classify, mark) ==
  LET n == Len(bu_pkts) IN
  /\ \E meter \in [1 .. n -> 0 .. 2] : \E color \in [1 .. n -> BuColors] :
       /\ \A j \in UserWritten(n) : meter[j] = UserTable(GetUser(bu_pkts[j], classify))
       /\ Passes("police",
                 [j \in 1 .. n |-> IF mark THEN [bu_pkts[j] EXCEPT !.sched.color = PoliceAct(color[j])] ELSE bu_pkts[j]],
                 [j \in 1 .. n |-> IF PoliceAct(color[j]) = "drop" THEN DISCARDED ELSE 0],
                 meter, classify)
  /\ UNCHANGED <<bu_ip, bu_tmp_ip>>

----------------------------------------------------------------------------
\* handle_arp_bulk: the outputs.  A task with a ring to the task that answers
\* ARP has arp_replies_ring, here 2; the others go to other_pkts_ring, here 1.
ARP_RING == 2
OTHER_RING == 1
REPLY == 0
\* Three arrays of packets are filled, with one array of outputs: "list" is where
\* the packet is put, "out" what is written at its place.
ArpPlace(kind, to_ring) ==
  CASE kind = "gratuitous" -> [list |-> "nowhere", out |-> DISCARDED]
    [] kind \in {"request", "strange request"} ->
         IF to_ring THEN [list |-> "arp", out |-> ARP_RING]
         ELSE IF kind = "request" \/ bu_ip = 0 THEN [list |-> "reply", out |-> REPLY]
         ELSE [list |-> "other", out |-> DISCARDED]
    [] kind = "answer" -> [list |-> "arp", out |-> IF to_ring THEN ARP_RING ELSE DISCARDED]
    [] OTHER -> [list |-> "other", out |-> OTHER_RING]
\* out[] and the array of the others after the packets up to the k-th: a
\* gratuitous packet takes a place in the array of the others, and is not put
\* there: what the burst has at that place is sent.
\* Mutant: a packet that is discarded is not moved.
Moved_to_ring(place) == place.list = "other" /\ place.out = OTHER_RING
Moved(place) == place.list = "other"
ListOf(place) == IF place.list = "nowhere" THEN "other" ELSE place.list
ArpPut(s, k, place) ==
  LET l == ListOf(place)
      at == Len(s.lists[l]) + 1
  IN [out |-> [s.out EXCEPT ![at] = place.out],
      burst |-> IF Moved(place) THEN [s.burst EXCEPT ![at] = k] ELSE s.burst,
      lists |-> [s.lists EXCEPT ![l] = Append(@, k)]]
ArpSplit(places) ==
  LET split[k \in 0 .. Len(places)] ==
        IF k = 0 THEN [out |-> [i \in DOMAIN places |-> 0], burst |-> [i \in DOMAIN places |-> i],
                       lists |-> [l \in {"reply", "arp", "other"} |-> <<>>]]
        ELSE ArpPut(split[k - 1], k, places[k])
  IN split[Len(places)]
\* What is sent: packet and output.  Replies leave through the port.
ArpSent(s) ==
  [i \in 1 .. Len(s.lists["reply"]) |-> <<s.lists["reply"][i], s.out[i]>>]
    \o [i \in 1 .. Len(s.lists["arp"]) |-> <<s.lists["arp"][i], s.out[i]>>]
    \o [i \in 1 .. Len(s.lists["other"]) |-> <<s.burst[i], s.out[i]>>]
BuArp(to_ring) ==
  LET places == [i \in DOMAIN bu_pkts |-> ArpPlace(bu_pkts[i].p.kind, to_ring)]
      sent == ArpSent(ArpSplit(places))
  IN /\ bu_last' = [task |-> "arp", in |-> bu_pkts, places |-> places, sent |-> sent]
     /\ bu_pkts' = Survivors([k \in DOMAIN sent |-> bu_pkts[sent[k][1]]],
                             [k \in DOMAIN sent |-> IF sent[k][2] = OTHER_RING THEN 0 ELSE DISCARDED])
     /\ bu_path' = Append(bu_path, "arp")
     /\ bu_ip' = bu_tmp_ip /\ UNCHANGED bu_tmp_ip   \* task_update_config

\* task_arp_set_local_ip, by the master
BuSetLocalIp ==
  /\ \E ip \in {0, 1} : ip # bu_tmp_ip /\ bu_tmp_ip' = ip
  /\ UNCHANGED <<bu_pkts, bu_path, bu_last, bu_ip>>

BuNext ==
  \/ /\ bu_pkts # <<>> /\ Len(bu_path) < BuSteps
     /\ \/ BuAcl \/ BuClassify \/ BuQos
        \/ \E c, m \in BOOLEAN : BuPolice(c, m)
        \/ \E r \in BOOLEAN : BuArp(r)
  \/ BuSetLocalIp

BuSpec == BuInit /\ [][BuNext]_bu_vars

----------------------------------------------------------------------------
\* The traffic class the ACL gives stays with the packet through classify and
\* police, which is what handle_classify reads it for; only a scheduler that
\* classifies itself writes another.
ClassKept ==
  \A i \in DOMAIN bu_path : bu_path[i] = "acl" /\ "qos" \notin ToSet(SubSeq(bu_path, i, Len(bu_path))) =>
    \A x \in ToSet(bu_pkts) : x.sched.tc = 3

\* In a burst of three phases or more every packet is metered as its own user; in
\* a shorter one the first packets are metered as whatever user[] held.
OwnMeter ==
  bu_last.task = "police" /\ Len(bu_last.in) >= 3 * BuOffset =>
    \A j \in DOMAIN bu_last.in :
      bu_last.meter[j] = UserTable(GetUser(bu_last.in[j], bu_last.classify))

\* An arp task passes every packet of a burst on once, and to the output of its
\* kind: but for a burst with a gratuitous packet, and for packets that share
\* their place in out[] with a packet of another list.
ArpSplitsBurst ==
  bu_last.task = "arp" /\ (\A i \in DOMAIN bu_last.in : bu_last.places[i].list # "nowhere") =>
    LET sent == bu_last.sent
        lists == {bu_last.places[i].list : i \in DOMAIN bu_last.in}
    IN /\ \A i \in DOMAIN bu_last.in : Cardinality({k \in DOMAIN sent : sent[k][1] = i}) = 1
       /\ Cardinality(lists) = 1 => \A k \in DOMAIN sent : sent[k][2] = bu_last.places[sent[k][1]].out

\* The three above, for every chain of tasks.
BurstsSound == ClassKept /\ OwnMeter /\ ArpSplitsBurst

-----------------------------------------------------------------------------
(***************************************************************************)
(* The inductive invariant: the class of what came through the last ACL,   *)
(* and what the last task left behind.                                     *)
(***************************************************************************)

Sched == [pipe : Int, tc : Int, queue : Int, color : {"green", "yellow", "red", "drop"}]
Marked == [p : BuPackets, sched : Sched]
Tasks == {"acl", "classify", "qos", "police", "arp"}
BuTypeOK == bu_pkts \in Seq(Marked) /\ bu_path \in Seq(Tasks)

\* No scheduler came after the ACL that was the i-th task.
AclSince(path, i) == path[i] = "acl" /\ \A j \in i .. Len(path) : path[j] # "qos"
ClassInv ==
  (\E i \in 1 .. Len(bu_path) : AclSince(bu_path, i)) => \A k \in 1 .. Len(bu_pkts) : bu_pkts[k].sched.tc = 3
BurstsInv == BuTypeOK /\ ClassInv /\ OwnMeter /\ ArpSplitsBurst
=============================================================================
