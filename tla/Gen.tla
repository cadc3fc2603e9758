-------------------------------- MODULE Gen --------------------------------
(***************************************************************************)
(* The packet generator (handle_gen.c): the templates and their sizes, the *)
(* number of packets left to generate and the time stamps, while commands  *)
(* of the master change sizes and count without a lock.                    *)
(*                                                                         *)
(* TokenTime has the bucket that limits the rate: here the bytes it allows *)
(* are a choice.  GenLat has the packet ids.  One byte takes one cycle on  *)
(* the wire; times are relative to the present.                            *)
(***************************************************************************)
EXTENDS Integers, Sequences, SequencesExt

CONSTANTS
  GenSizes,      \* packet sizes a command may ask for
  MaxFrame,      \* max_frame_size
  MinLen,        \* what the headers and the fields written need
  MinBulk, MaxBulk,  \* min_bulk_size, max_bulk_size
  GenCounts,     \* what "count" may ask for
  GenModulus,    \* 2^32, one more than the largest pkt_count
  MaxAhead       \* bound: stamps run at most so far ahead of the time

ASSUME GenAssumption ==
  /\ MinLen \in Nat \ {0} /\ MaxFrame \in Nat /\ MinLen <= MaxFrame
  /\ GenSizes \subseteq Nat /\ \E s \in GenSizes : s \in MinLen .. MaxFrame
  /\ MinBulk \in Nat \ {0} /\ MaxBulk \in Nat /\ MinBulk <= MaxBulk
  /\ GenModulus \in Nat \ {0} /\ GenCounts \subseteq 0 .. (GenModulus - 2)

Endless == GenModulus - 1  \* (uint32_t)-1

VARIABLES
  template_len,      \* pkt_template[].len
  pkt_idx,           \* the next template
  imix_pkt_sizes,
  new_imix_nb_pkts,
  checking,          \* the master is in task_gen_set_imix: sizes not checked yet
  pkt_count,
  gen_at,            \* where handle_gen_bulk is: "start", "applied", "take", "send"
  bulk,              \* send_bulk
  earliest,          \* earliest_tsc_next_pkt, from now on
  stamp,             \* the time stamp of the last packet sent, from now on
  budget,            \* packets the last "count" still allows, or Endless
  overlap,           \* a command came before the last one was taken, or in a call
  uneven             \* a transmission of different sizes was refused in part

gen_vars == <<template_len, pkt_idx, imix_pkt_sizes, new_imix_nb_pkts, checking,
              pkt_count, gen_at, bulk, earliest, stamp, budget, overlap, uneven>>
commands == <<imix_pkt_sizes, checking, budget, overlap>>
templates == <<template_len, pkt_idx>>
timing == <<earliest, stamp, uneven>>

\* check_pkt_size, check_fields_in_bounds
Fits(size) == size >= MinLen /\ size <= MaxFrame

GenInit ==
  /\ \E size \in GenSizes : Fits(size) /\ template_len = <<size>> /\ imix_pkt_sizes = <<size, size>>
  /\ pkt_idx = 1 /\ new_imix_nb_pkts = 0 /\ checking = 0
  /\ pkt_count = Endless /\ budget = Endless
  /\ gen_at = "start" /\ bulk = 0
  /\ earliest = 0 /\ stamp = -1
  /\ overlap = FALSE /\ uneven = FALSE

-----------------------------------------------------------------------------
(***************************************************************************)
(* Commands, executed by the master.                                       *)
(***************************************************************************)

\* Once commands have overlapped, nothing is said of the packets sent, and no
\* further commands are followed.
Overlaps(count) ==
  /\ overlap' = (overlap \/ gen_at # "start" \/ new_imix_nb_pkts # 0)
  /\ budget' = IF overlap' THEN Endless ELSE count

task_gen_set_pkt_count(count) ==
  /\ checking = 0 /\ ~ overlap
  /\ pkt_count' = count
  /\ Overlaps(count)
  /\ UNCHANGED <<templates, imix_pkt_sizes, new_imix_nb_pkts, checking, gen_at, bulk, timing>>

\* task_gen_set_imix: the sizes are copied, then checked.
CopySizes(sizes) ==
  /\ checking = 0 /\ checking' = Len(sizes) /\ ~ overlap
  /\ imix_pkt_sizes' = [i \in 1 .. 2 |-> IF i <= Len(sizes) THEN sizes[i] ELSE imix_pkt_sizes[i]]
  /\ Overlaps(budget)
  /\ UNCHANGED <<templates, new_imix_nb_pkts, pkt_count, gen_at, bulk, timing>>

\* Mutant: only the first size is checked.
SizesFitFirst(n) == Fits(imix_pkt_sizes[1])
SizesFit(n) == \A i \in 1 .. n : Fits(imix_pkt_sizes[i])

CheckSizes ==
  /\ checking # 0 /\ checking' = 0
  /\ new_imix_nb_pkts' = IF SizesFit(checking) THEN checking ELSE new_imix_nb_pkts
  /\ Overlaps(budget)
  /\ UNCHANGED <<templates, imix_pkt_sizes, pkt_count, gen_at, bulk, timing>>

\* task_gen_set_pkt_size
task_gen_set_pkt_size(size) ==
  /\ checking = 0 /\ ~ overlap
  /\ template_len' = [i \in DOMAIN template_len |-> IF Fits(size) THEN size ELSE template_len[i]]
  /\ Overlaps(budget)
  /\ UNCHANGED <<pkt_idx, imix_pkt_sizes, new_imix_nb_pkts, checking, pkt_count, gen_at, bulk, timing>>

-----------------------------------------------------------------------------
(***************************************************************************)
(* handle_gen_bulk.                                                        *)
(***************************************************************************)

\* task_gen_update_config, task_gen_apply_imix: the checks are not repeated
\* to any effect.
ApplyImix ==
  /\ gen_at = "start" /\ gen_at' = "applied"
  /\ IF new_imix_nb_pkts # 0
     THEN /\ template_len' = SubSeq(imix_pkt_sizes, 1, new_imix_nb_pkts)
          /\ pkt_idx' = IF pkt_idx > new_imix_nb_pkts THEN 1 ELSE pkt_idx
     ELSE UNCHANGED templates
  /\ UNCHANGED <<commands, new_imix_nb_pkts, pkt_count, bulk, timing>>

\* The sizes of n packets from pkt_idx on.
Sizes(n) == [k \in 1 .. n |-> template_len[((pkt_idx + k - 2) % Len(template_len)) + 1]]
SumOf(s, n) ==
  LET sum[k \in 0 .. n] == IF k = 0 THEN 0 ELSE sum[k - 1] + s[k] IN sum[n]

\* task_gen_calc_send_bulk: the templates are looked at one after the other
\* while the bytes suffice.
Limit == IF pkt_count # Endless /\ pkt_count < MaxBulk THEN pkt_count ELSE MaxBulk
calc_send_bulk(bytes_now) ==
  LET n == CHOOSE k \in 0 .. Limit :
             /\ SumOf(Sizes(k), k) <= bytes_now
             /\ k < Limit => SumOf(Sizes(k + 1), k + 1) > bytes_now
  IN IF n < MinBulk THEN 0 ELSE n

CalcBulk ==
  /\ gen_at = "applied"
  /\ new_imix_nb_pkts' = 0
  /\ IF pkt_count = 0 THEN gen_at' = "start" /\ bulk' = 0
     ELSE \E bytes_now \in 0 .. (MaxBulk * MaxFrame) :
            /\ bulk' = calc_send_bulk(bytes_now)
            /\ gen_at' = IF bulk' = 0 THEN "start" ELSE "take"
  /\ UNCHANGED <<commands, templates, pkt_count, timing>>

\* Mutant: the count is reduced by what was sent, later.
Less(n) == pkt_count
\* The count is compared and reduced in place; it does not go below 0 unless
\* a command has changed it in between.
Reduced(n) == IF pkt_count = Endless THEN pkt_count
              ELSE IF pkt_count >= n THEN pkt_count - n ELSE 0

\* task_gen_take_count: a command between the comparison and the subtraction
\* is either overwritten, or the difference wraps.
TakeCount ==
  /\ gen_at = "take" /\ gen_at' = "send"
  /\ \/ pkt_count' = Reduced(bulk) /\ UNCHANGED <<budget, overlap>>
     \/ /\ ~ overlap /\ pkt_count # Endless /\ pkt_count >= bulk
        /\ \E count \in GenCounts :
             /\ budget' = Endless /\ overlap' = TRUE
             /\ pkt_count' \in {pkt_count - bulk, (count - bulk) % GenModulus}
  /\ UNCHANGED <<templates, imix_pkt_sizes, new_imix_nb_pkts, checking, bulk, timing>>

\* Mutant: after a refusal the stamps go on from the present.
EarliestNow(s, ret) == 0
\* task_gen_write_latency, then the correction for the ret packets refused:
\* the duration of the first ret packets and that of the last one.
Earliest(s, ret) ==
  LET n == Len(s) IN
  IF ret = 0 THEN earliest + SumOf(s, n) ELSE earliest + SumOf(s, n - 1) - SumOf(s, ret - 1)

\* task_gen_build_packets and the transmission, which refuses the last ret
\* packets; without mbufs nothing is sent.
SendBulk ==
  /\ gen_at = "send" /\ gen_at' = "start" /\ bulk' = 0
  /\ \/ /\ pkt_idx' = ((pkt_idx + bulk - 1) % Len(template_len)) + 1
        /\ \E ret \in 0 .. bulk, s \in {Sizes(bulk)} :
             /\ earliest' = Earliest(s, ret) /\ earliest' <= MaxAhead
             /\ uneven' = (uneven \/ (ret # 0 /\ \E i \in 1 .. bulk : s[i] # s[1]))
             /\ stamp' = IF uneven' THEN -1 ELSE IF ret = bulk THEN stamp
                         ELSE earliest + SumOf(s, bulk - ret - 1)
             /\ budget' = IF budget = Endless THEN budget ELSE budget - (bulk - ret)
     \/ UNCHANGED <<pkt_idx, timing, budget>>
  /\ UNCHANGED <<template_len, imix_pkt_sizes, checking, overlap, new_imix_nb_pkts, pkt_count>>

TimeFlies ==
  /\ earliest > 0 \/ stamp > -1
  /\ earliest' = (IF earliest > 0 THEN earliest - 1 ELSE 0)
  /\ stamp' = IF stamp > -1 THEN stamp - 1 ELSE -1
  /\ UNCHANGED <<templates, commands, new_imix_nb_pkts, pkt_count, gen_at, bulk, uneven>>

GenNext ==
  \/ \E count \in GenCounts : task_gen_set_pkt_count(count)
  \/ \E s1 \in GenSizes : CopySizes(<<s1>>) \/ task_gen_set_pkt_size(s1)
                          \/ \E s2 \in GenSizes : CopySizes(<<s1, s2>>)
  \/ CheckSizes \/ ApplyImix \/ CalcBulk \/ TakeCount \/ SendBulk \/ TimeFlies

GenSpec == GenInit /\ [][GenNext]_gen_vars

-----------------------------------------------------------------------------
(***************************************************************************)
(* Properties.                                                             *)
(***************************************************************************)

\* As long as each command finds the one before taken and comes between two
\* calls, no more packets are sent than the last "count" allows, and every
\* template has a size that passed the checks.
CountRespected == ~ overlap => budget >= 0
SizesChecked == ~ overlap => \A i \in DOMAIN template_len : Fits(template_len[i])

\* "Adding the offset to the actual time insures that the time written in the
\* packets is monotonically increasing" (task_gen_write_latency), and after a
\* transmission was refused in part too, if its packets had one size.
StampsIncrease == ~ uneven => stamp <= earliest

GenSound == CountRespected /\ SizesChecked /\ StampsIncrease

-----------------------------------------------------------------------------
(***************************************************************************)
(* An inductive invariant.                                                 *)
(***************************************************************************)
GenTypeOK ==
  /\ template_len \in Seq(GenSizes) /\ template_len # <<>> /\ pkt_idx \in Nat \ {0}
  /\ imix_pkt_sizes \in Seq(GenSizes) /\ Len(imix_pkt_sizes) = 2
  /\ new_imix_nb_pkts \in 0 .. 2 /\ checking \in 0 .. 2
  /\ pkt_count \in 0 .. Endless /\ budget \in Int /\ bulk \in 0 .. MaxBulk
  /\ gen_at \in {"start", "applied", "take", "send"}
  /\ earliest \in Nat /\ stamp \in Nat \cup {-1}
  /\ overlap \in BOOLEAN /\ uneven \in BOOLEAN

\* Sizes that wait for the worker have been checked.
WaitingChecked == ~ overlap => SizesFit(new_imix_nb_pkts)

\* A bulk was taken from the count: what the count still allows, and the bulk
\* that is on its way, are within what the command asked for.
BulkCounted ==
  /\ gen_at \in {"take", "send"} => bulk # 0
  /\ ~ overlap /\ gen_at = "take" => pkt_count = Endless \/ bulk <= pkt_count
  /\ ~ overlap /\ budget # Endless =>
       pkt_count # Endless /\ budget >= pkt_count + (IF gen_at = "send" THEN bulk ELSE 0)

GenInv == GenTypeOK /\ WaitingChecked /\ BulkCounted /\ GenSound
=============================================================================
