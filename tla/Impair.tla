-------------------------------- MODULE Impair --------------------------------
(***************************************************************************)
(* handle_impair.c: a task that drops, delays, reorders and duplicates     *)
(* packets, and the commands of the master that change how while it runs.  *)
(*                                                                         *)
(* Time is counted in slots of DELAY_ACCURACY.  A packet is a number, given*)
(* in the order of arrival.  A constant delay keeps packets in one ring    *)
(* (im_ring, im_head, im_tail); a random delay keeps a queue for every     *)
(* slot of the near future (im_buffer), emptied as im_last passes.         *)
(***************************************************************************)
EXTENDS Integers, Sequences, SequencesExt, FiniteSetsExt

CONSTANTS ImBurst,    \* MAX_PKT_BURST
          ImSizes,    \* how many packets a call may bring
          ImSlots,    \* DELAY_MAX_MASK + 1: the slots of about a second
          ImDelays,   \* the delays that are configured and commanded, of up to a second
          ImOrders,   \* the commands that are given: "delay", "proba"
          ImPackets,  \* bound on the packets that arrive
          ImTime,     \* bound on time
          ImChanges   \* bound on the commands

ASSUME ImAssumption ==
  /\ ImBurst \in Nat \ {0} /\ ImSlots \in Nat \ {0}
  /\ ImSizes \subseteq 0 .. ImBurst /\ ImDelays \subseteq 0 .. ImSlots - 1
  /\ ImOrders \subseteq {"delay", "proba"}

VARIABLES
  im_flag, im_random, im_delay,   \* IMPAIR_NEED_UPDATE, random_delay_us, delay_us
  im_todo, im_changes,            \* what the master has still to write; its commands
  im_asked,                       \* the delays configured, or of the last command that was done
  im_pc,                          \* where the worker is
  im_bulk, im_time_of,            \* handle_bulk; delay_time
  im_mask, im_ring, im_head, im_tail,   \* queue: <<>> when there is none
  im_buffer, im_last,             \* buffer: <<>> when there is none; last_idx
  im_now, im_arrived,             \* now; packets that have arrived
  im_since,                       \* now_idx of the last update
  im_fifo,                        \* what the ring should hold, oldest first
  im_cut,                         \* packets passed over by last_idx
  im_raced                        \* a command was written during an update
im_settings == <<im_flag, im_random, im_delay, im_todo, im_changes, im_asked>>
im_queue == <<im_mask, im_ring, im_head, im_tail, im_fifo>>
im_slots == <<im_buffer, im_last, im_cut>>
im_vars == <<im_settings, im_pc, im_bulk, im_time_of, im_queue, im_slots, im_now, im_arrived, im_since, im_raced>>

Slot(t) == t % ImSlots
\* rte_align32pow2 of the packets that fit in the delay; never below a burst.
MaskFor(delay) == (IF delay > ImBurst THEN 2 * ImBurst ELSE ImBurst) - 1
EmptyRing(mask) == [i \in 0 .. mask |-> [p |-> 0, tsc |-> 0]]
EmptyBuffer == [i \in 0 .. ImSlots - 1 |-> <<>>]
HandlerFor(random, delay) ==
  CASE random > 0 -> "random" [] random = 0 /\ delay = 0 -> "drop" [] OTHER -> "delay"

\* init_task takes the handler and the queues from the configuration, which gives
\* one of the delays; random_delay_us and delay_us stay 0 as they were allocated.
ImInit ==
  /\ im_flag = FALSE /\ im_todo = <<>> /\ im_changes = 0 /\ im_pc = "call"
  /\ im_random = 0 /\ im_delay = 0
  /\ im_asked \in [random : ImDelays, delay : ImDelays] /\ 0 \in {im_asked.random, im_asked.delay}
  /\ im_bulk = HandlerFor(im_asked.random, im_asked.delay)
  /\ im_time_of = IF im_asked.random > 0 THEN im_asked.random ELSE im_asked.delay
  /\ im_mask = MaskFor(im_asked.delay)
  /\ im_ring = IF im_asked.delay > 0 THEN EmptyRing(im_mask) ELSE <<>>
  /\ im_buffer = IF im_asked.random > 0 THEN EmptyBuffer ELSE <<>>
  /\ im_head = 0 /\ im_tail = 0 /\ im_last = 0 /\ im_now = 1 /\ im_arrived = 0 /\ im_since = 1
  /\ im_fifo = <<>> /\ im_cut = {} /\ im_raced = FALSE

----------------------------------------------------------------------------
\* The master: task_impair_set_delay_us writes the flag first.
\* Mutant: the other delay is left as it was.
SetDelayUs_one(delay, random) ==
  <<[to |-> "flag"], IF delay > 0 THEN [to |-> "delay", val |-> delay] ELSE [to |-> "random", val |-> random]>>
SetDelayUs(delay, random) ==
  <<[to |-> "flag"], [to |-> "random", val |-> random], [to |-> "delay", val |-> delay]>>
\* task_impair_set_proba_delay: a threshold, which only changes chances, and the flag.
SetProbaDelay == <<[to |-> "flag"]>>
\* delay_us and random delay_us of cmd_parser.c set the other one to 0.
ImCommand ==
  /\ im_todo = <<>> /\ im_changes < ImChanges
  /\ im_changes' = im_changes + 1
  /\ \/ "delay" \in ImOrders /\ \E v \in ImDelays : im_todo' \in {SetDelayUs(v, 0), SetDelayUs(0, v)}
     \/ "proba" \in ImOrders /\ im_todo' = SetProbaDelay
  /\ UNCHANGED <<im_flag, im_random, im_delay, im_asked, im_pc, im_bulk, im_time_of, im_queue, im_slots, im_now, im_arrived, im_since, im_raced>>

ImWrite ==
  /\ im_todo # <<>>
  /\ LET w == Head(im_todo) IN
       /\ im_flag' = (w.to = "flag" \/ im_flag)
       /\ im_random' = IF w.to = "random" THEN w.val ELSE im_random
       /\ im_delay' = IF w.to = "delay" THEN w.val ELSE im_delay
       /\ im_asked' = IF w.to = "delay" THEN [random |-> im_random, delay |-> w.val] ELSE im_asked
  /\ im_todo' = Tail(im_todo)
  /\ im_raced' = (im_raced \/ im_pc \in {"drain", "alloc"})
  /\ UNCHANGED <<im_changes, im_pc, im_bulk, im_time_of, im_queue, im_slots, im_now, im_arrived, im_since>>

\* The task is called at least once in every turn of the slots.
ImTick ==
  /\ im_now < ImTime
  /\ im_buffer # <<>> => Slot(im_now) # im_last
  /\ im_now' = im_now + 1
  /\ UNCHANGED <<im_settings, im_pc, im_bulk, im_time_of, im_queue, im_slots, im_arrived, im_since, im_raced>>

----------------------------------------------------------------------------
\* handle_bulk_impair: room in the ring, the packets that are taken and those
\* that are discarded.
Next1(i) == (i + 1) % (im_mask + 1)
NbEmptySlots == (im_tail - im_head + im_mask) % (im_mask + 1)
\* Mutant: the room is not checked packet by packet.
Taken_burst(n) == IF NbEmptySlots > 0 THEN n ELSE 0
FullAfter(k) == (im_head + k + 1 - im_tail) % (im_mask + 1) = 0
Taken(n) ==
  IF NbEmptySlots >= n THEN n
  ELSE CHOOSE k \in 0 .. n : FullAfter(k) /\ \A j \in 0 .. k - 1 : ~ FullAfter(j)
StoreAt(n) ==
  [i \in DOMAIN im_ring |->
     LET k == (i - im_head) % (im_mask + 1) IN
       IF k < n THEN [p |-> im_arrived + 1 + k, tsc |-> im_now + im_time_of] ELSE im_ring[i]]
\* The loop that takes due packets off the ring, at most a burst of them.
DueFrom(ring, head) ==
  LET inside(k) == k < (head - im_tail) % (im_mask + 1)
  IN CHOOSE k \in 0 .. ImBurst :
       /\ \A j \in 0 .. k - 1 : inside(j) /\ ring[(im_tail + j) % (im_mask + 1)].tsc <= im_now
       /\ k = ImBurst \/ ~inside(k) \/ ring[(im_tail + k) % (im_mask + 1)].tsc > im_now

ImDelay(n) ==
  LET take == Taken(n)
      head == (im_head + take) % (im_mask + 1)
      ring == StoreAt(take)
      due == DueFrom(ring, head)
  IN /\ im_bulk = "delay" /\ im_ring # <<>>
     /\ im_ring' = ring /\ im_head' = head
     /\ im_tail' = (im_tail + due) % (im_mask + 1)
     /\ im_fifo' = SubSeq(im_fifo \o [k \in 1 .. take |-> im_arrived + k], due + 1, Len(im_fifo) + take)
     /\ UNCHANGED <<im_mask, im_slots>>

\* handle_bulk_impair_random: the slot of a packet, or the next one with room,
\* counted from now; -1 when there is none before the slot that is emptied last.
\* Mutant: up to and including the slot before now.
FirstFree_whole_turn(buffer, d) ==
  LET free == {k \in d .. ImSlots - 1 : Len(buffer[Slot(im_now + k)]) < im_mask}
  IN IF free = {} THEN -1 ELSE Min(free)
FirstFree(buffer, d) ==
  LET free == {k \in d .. ImSlots - 2 : Len(buffer[Slot(im_now + k)]) < im_mask}
  IN IF free = {} THEN -1 ELSE Min(free)
Insert(buffer, p, d) ==
  LET k == FirstFree(buffer, d)
  IN IF k = -1 THEN buffer
     ELSE [buffer EXCEPT ![Slot(im_now + k)] = Append(@, [p |-> p, at |-> im_now + k])]

\* The slots from last_idx up to the one before now, until a burst is full:
\* last_idx steps on even if the slot could not be emptied.
DrainSlot(s) ==
  LET q == s.buffer[s.last]
      n == IF Len(q) < s.left THEN Len(q) ELSE s.left
      rest == SubSeq(q, n + 1, Len(q))
  IN IF s.left = 0 \/ s.last = Slot(im_now - 1) THEN s
     ELSE [buffer |-> [s.buffer EXCEPT ![s.last] = rest], last |-> Slot(s.last + 1),
           left |-> s.left - n, cut |-> s.cut \cup ToSet(rest)]
Drain(buffer) ==
  LET after[k \in 0 .. ImSlots] ==
        IF k = 0 THEN [buffer |-> buffer, last |-> im_last, left |-> ImBurst, cut |-> {}]
        ELSE DrainSlot(after[k - 1])
  IN after[ImSlots]

\* The packets of a call, one after the other.
InsertAll(n, ds) ==
  LET after[k \in 0 .. n] ==
        IF k = 0 THEN im_buffer ELSE Insert(after[k - 1], im_arrived + k, ds[k])
  IN after[n]

ImRandom(n) ==
  \E ds \in [1 .. n -> 0 .. im_time_of - 1] : \E copy \in -1 .. im_time_of - 1 :
    LET once == InsertAll(n, ds)
        \* rte_pktmbuf_copy: the same packet again, with a delay of its own
        all == IF n = 0 \/ copy = -1 THEN once ELSE Insert(once, im_arrived + n, copy)
        end == Drain(all)
    IN /\ im_bulk = "random" /\ im_buffer # <<>>
       /\ im_buffer' = end.buffer /\ im_last' = end.last
       /\ im_cut' = (im_cut \cup end.cut) \cap UNION {ToSet(end.buffer[i]) : i \in 0 .. ImSlots - 1}
       /\ UNCHANGED im_queue

\* handle_bulk_random_drop keeps nothing.
ImDrop(n) == im_bulk = "drop" /\ UNCHANGED <<im_queue, im_slots>>

\* Whether a packet that leaves is dropped is up to chance and changes nothing
\* here.  A handler without its queue dereferences NULL when it looks at a place.
Dereferences(n) ==
  \/ im_bulk = "delay" /\ im_ring = <<>> /\ n > 0
  \/ im_bulk = "random" /\ im_buffer = <<>> /\ (n > 0 \/ im_last # Slot(im_now - 1))
FindsNothing(n) ==
  /\ (im_bulk = "delay" /\ im_ring = <<>>) \/ (im_bulk = "random" /\ im_buffer = <<>>)
  /\ ~ Dereferences(n)
ImCall(n) ==
  /\ im_pc = "call" /\ im_arrived + n <= ImPackets
  /\ im_arrived' = im_arrived + n
  /\ \/ (ImDelay(n) \/ ImRandom(n) \/ ImDrop(n)) /\ im_pc' = "update"
     \/ FindsNothing(n) /\ im_pc' = "update" /\ UNCHANGED <<im_queue, im_slots>>
     \/ Dereferences(n) /\ im_pc' = "crash" /\ UNCHANGED <<im_queue, im_slots>>
  /\ UNCHANGED <<im_settings, im_bulk, im_time_of, im_now, im_since, im_raced>>

----------------------------------------------------------------------------
\* task_impair_update, which ends every call: the handler is chosen, the packets
\* that wait are sent when they are due, and then the new queue is made.
ImUpdate ==
  /\ im_pc = "update"
  /\ IF ~im_flag
     THEN im_pc' = "call" /\ UNCHANGED <<im_flag, im_bulk, im_time_of, im_since, im_raced>>
     ELSE /\ im_flag' = FALSE /\ im_pc' = "drain" /\ im_since' = im_now
          /\ im_raced' = (im_raced \/ im_todo # <<>>)
          /\ im_bulk' = HandlerFor(im_random, im_delay)
          /\ im_time_of' = IF im_random > 0 THEN im_random ELSE im_delay
  /\ UNCHANGED <<im_random, im_delay, im_todo, im_changes, im_asked, im_queue, im_slots, im_now, im_arrived>>

ImDrain ==
  /\ im_pc = "drain"
  /\ LET due == IF im_ring = <<>> THEN 0 ELSE DueFrom(im_ring, im_head) IN
       /\ due > 0 \/ im_ring = <<>> \/ im_tail = im_head
       /\ im_fifo' = SubSeq(im_fifo, due + 1, Len(im_fifo))
       /\ IF im_ring # <<>> /\ im_tail # im_head
          THEN im_tail' = (im_tail + due) % (im_mask + 1) /\ UNCHANGED <<im_ring, im_pc, im_buffer>>
          ELSE im_ring' = <<>> /\ im_buffer' = <<>> /\ im_pc' = "alloc" /\ UNCHANGED im_tail
  /\ im_cut' = IF im_pc' = "alloc" THEN {} ELSE im_cut
  /\ im_last' = IF im_pc' = "alloc" /\ im_buffer # <<>> THEN Slot(im_since - 1) ELSE im_last
  /\ UNCHANGED <<im_settings, im_bulk, im_time_of, im_mask, im_head, im_now, im_arrived, im_since, im_raced>>

\* The settings are read once more, and in the other order.
ImAlloc ==
  /\ im_pc = "alloc" /\ im_pc' = "call"
  /\ im_mask' = IF im_bulk = "delay" THEN MaskFor(im_time_of) ELSE ImBurst - 1
  /\ IF im_delay > 0
     THEN im_ring' = EmptyRing(im_mask') /\ im_head' = 0 /\ im_tail' = 0 /\ UNCHANGED im_buffer
     ELSE /\ im_buffer' = IF im_random > 0 THEN EmptyBuffer ELSE im_buffer
          /\ UNCHANGED <<im_ring, im_head, im_tail>>
  /\ UNCHANGED <<im_settings, im_bulk, im_time_of, im_fifo, im_last, im_cut, im_now, im_arrived, im_since, im_raced>>

ImNext ==
  \/ ImCommand \/ ImWrite \/ ImTick
  \/ \E n \in ImSizes : ImCall(n)
  \/ ImUpdate \/ ImDrain \/ ImAlloc

ImSpec == ImInit /\ [][ImNext]_im_vars

----------------------------------------------------------------------------
\* What lies in the ring between tail and head is what was taken and has not been
\* sent, in the order of arrival: nothing is overwritten when the ring wraps, and
\* a change of the delay does not let go of a packet.
RingInOrder ==
  im_ring # <<>> =>
    LET n == (im_head - im_tail) % (im_mask + 1) IN
      /\ n = Len(im_fifo)
      /\ \A k \in 1 .. n : im_ring[(im_tail + k - 1) % (im_mask + 1)].p = im_fifo[k]

\* With a random delay a packet waits where last_idx gets in its time, neither a
\* turn before nor a turn after it, unless a full burst cut its slot: last_idx
\* steps on and the rest of the slot waits for a whole turn more.
OnTimeUnlessCut ==
  im_buffer # <<>> =>
    LET lag == (im_now - 1 - im_last) % ImSlots IN
      \A i \in 0 .. ImSlots - 1 : \A e \in ToSet(im_buffer[i]) :
        (e.at >= im_now - 1 - lag \/ e \in im_cut) /\ e.at < im_now - 1 + ImSlots

\* The worker has taken over all that the master has written.
Quiet == im_pc = "call" /\ ~im_flag /\ im_todo = <<>>

\* A command that is not written while the worker makes a change takes effect, and
\* the handler has the queue it works on.  A delay that was only configured is not
\* in the settings: a change of the probability turns it off.
QuietChangeApplies ==
  ~im_raced =>
    /\ im_pc # "crash"
    /\ Quiet => \/ im_bulk = HandlerFor(im_asked.random, im_asked.delay)
                \/ [random |-> im_random, delay |-> im_delay] # im_asked /\ im_bulk = "drop"

\* The help of delay_us: "Set the delay in usec for the impair mode to <delay_us>",
\* and of proba delay: "Set the percent of delayed packets for the impair mode":
\* the handler is the one for the delays configured or last commanded.
DelaySet == Quiet => im_bulk = HandlerFor(im_asked.random, im_asked.delay)

\* The ring, the slots and a change, together.
ImpairSound == RingInOrder /\ OnTimeUnlessCut /\ QuietChangeApplies

-----------------------------------------------------------------------------
(***************************************************************************)
(* The inductive invariant: what the ring and the slots hold, and how far  *)
(* a change of the settings got.                                           *)
(***************************************************************************)

Settings == ImDelays \cup {0}
Handlers == {"random", "drop", "delay"}
ImTypeOK ==
  /\ im_flag \in BOOLEAN /\ im_raced \in BOOLEAN
  /\ im_random \in Settings /\ im_delay \in Settings /\ im_time_of \in Settings
  /\ im_pc \in {"call", "update", "drain", "alloc", "crash"} /\ im_bulk \in Handlers
  /\ im_mask \in Nat /\ im_now \in Nat /\ im_arrived \in Nat
  /\ im_last \in 0 .. ImSlots - 1 /\ im_since \in Nat
  /\ im_asked \in [random : Settings, delay : Settings]

\* The ring, and the packets in it in the order of arrival.
RingHolds(ring, mask, head, tail, fifo) ==
  /\ ring \in [0 .. mask -> [p : Nat, tsc : Nat]]
  /\ head \in 0 .. mask /\ tail \in 0 .. mask
  /\ Len(fifo) = (head - tail) % (mask + 1)
  /\ \A k \in 1 .. Len(fifo) : ring[(tail + k - 1) % (mask + 1)].p = fifo[k]
RingInv ==
  /\ im_fifo \in Seq(Nat)
  /\ IF im_ring = <<>> THEN im_fifo = <<>>
     ELSE RingHolds(im_ring, im_mask, im_head, im_tail, im_fifo)
  /\ im_pc = "alloc" => im_ring = <<>> /\ im_buffer = <<>>

\* A packet lies in the slot of its time.  Base is the time last_idx stands for.
Waiting == [p : Nat, at : Int]
Base(last) == im_now - 1 - ((im_now - 1 - last) % ImSlots)
InSlots(buffer) ==
  /\ buffer \in [0 .. ImSlots - 1 -> Seq(Waiting)]
  /\ \A i \in 0 .. ImSlots - 1 : \A e \in ToSet(buffer[i]) :
       Slot(e.at) = i /\ e.at < im_now - 1 + ImSlots
NoneLeftBehind(buffer, last, cut) ==
  \A i \in 0 .. ImSlots - 1 : \A e \in ToSet(buffer[i]) : e.at >= Base(last) \/ e \in cut
SlotsInv ==
  im_buffer # <<>> => InSlots(im_buffer) /\ NoneLeftBehind(im_buffer, im_last, im_cut)

\* A command is written one field after the other; one of the two delays is 0.
OneDelay(random, delay) == random = 0 \/ delay = 0
Begun == im_todo # <<>> /\ Head(im_todo).to # "flag"
TodoInv ==
  \/ im_todo = <<>> /\ OneDelay(im_random, im_delay)
  \/ \E v, w \in Settings :
       /\ OneDelay(v, w)
       /\ \/ im_todo \in {SetDelayUs(v, w), SetProbaDelay} /\ OneDelay(im_random, im_delay)
          \/ im_todo = <<[to |-> "random", val |-> v], [to |-> "delay", val |-> w]>>
          \/ im_todo = <<[to |-> "delay", val |-> w]>> /\ im_random = v

\* The settings are those asked for, or never written.
NeverWritten == im_random = 0 /\ im_delay = 0
AskedInv ==
  ~ Begun => NeverWritten \/ im_asked = [random |-> im_random, delay |-> im_delay]

\* Without a race a change that was begun is still to be taken over, and the
\* handler has what it works on.
QuietInv ==
  ~im_raced =>
    /\ im_pc # "crash"
    /\ Begun => im_flag /\ im_pc \in {"call", "update"}
    /\ im_pc \in {"drain", "alloc"} => ~im_flag /\ im_bulk = HandlerFor(im_random, im_delay)
    /\ ~im_flag /\ ~Begun => \/ im_bulk = HandlerFor(im_random, im_delay)
                             \/ NeverWritten /\ im_bulk = HandlerFor(im_asked.random, im_asked.delay)
    /\ im_pc \in {"call", "update"} => /\ im_bulk = "delay" => im_ring # <<>>
                                       /\ im_bulk = "random" => im_buffer # <<>>

ImpairInv == ImTypeOK /\ RingInv /\ SlotsInv /\ TodoInv /\ AskedInv /\ QuietInv
=============================================================================
