------------------------------ MODULE L4Stream ------------------------------
(***************************************************************************)
(* One connection of the L4 generator, TCP or UDP: the client and the      *)
(* server play the same list of actions, each the transmission of data by  *)
(* one of them, over a network that loses segments and may reorder them    *)
(* (genl4_stream_tcp.c, genl4_stream_udp.c).                               *)
(*                                                                         *)
(* A step of a peer is one call of stream_tcp_proc or stream_udp_proc,     *)
(* because a segment arrived or because its timer expired.  Rate limiting  *)
(* by token_time and the value of the timers are choices: a call may find  *)
(* the bucket not full, and a retransmission time not reached.             *)
(***************************************************************************)
EXTENDS Integers, Sequences

CONSTANTS
  Streams,   \* connections [proto, orderly, actions], an action being a record
             \* [peer, beg, len]; orderly: the network keeps the order
  Mss,       \* other_mss
  RxWindow,  \* rx_win of stream_tcp_proc_out_estab_tx: 300000
  MaxSame,   \* calls without progress after which a stream expires: 10
  NetSize    \* bound: segments under way to one peer

Peers == {"client", "server"}
Other(p) == IF p = "client" THEN "server" ELSE "client"

\* The bytes a peer sends in the actions before each one.
Before(actions, p) ==
  LET before[i \in 1 .. Len(actions)] ==
        IF i = 1 THEN 0
        ELSE before[i - 1] + (IF actions[i - 1].peer = p THEN actions[i - 1].len ELSE 0)
  IN before

\* What stream_tcp_proc relies on: the data of a peer follow each other, and the
\* last action, and no other, closes the connection.
PlayedInOrder(actions) ==
  \A i \in 1 .. Len(actions) :
    /\ actions[i].len = 0 <=> i = Len(actions)
    /\ i # Len(actions) => actions[i].beg = Before(actions, actions[i].peer)[i]

ASSUME L4StreamAssumption ==
  /\ \A s \in Streams : /\ s.proto \in {"tcp", "udp"} /\ s.orderly \in BOOLEAN
                        /\ s.actions \in Seq([peer : Peers, beg : Nat, len : Nat])
                        /\ s.actions # <<>>
                        /\ s.proto = "tcp" => PlayedInOrder(s.actions)
  /\ Mss \in Nat \ {0} /\ RxWindow \in Nat /\ MaxSame \in Nat \ {0} /\ NetSize \in Nat \ {0}

VARIABLES
  stream,     \* the stream_cfg
  ctx,        \* the stream_ctx of each peer, or Gone
  net,        \* segments under way to each peer
  timer,      \* peers with an element in the heap
  outcome,    \* how the stream of a peer ended: "", "finished", "reset", "expired"
  reached     \* the action each peer got to

l4_vars == <<stream, ctx, net, timer, outcome, reached>>

Gone == [st |-> "GONE"]
Live(p) == ctx[p].st # "GONE"
Actions == stream.actions
Act(c) == Actions[c.act]

\* stream_ctx_init
InitCtx(p) ==
  [st |-> IF p = "client" THEN "CLOSED" ELSE "LISTEN", act |-> 1, next |-> 0, ackd |-> 0,
   recv |-> 0, ackable |-> 0, first |-> 0, ofirst |-> 0, same |-> 0, flags |-> {}]

L4Init ==
  /\ stream \in Streams
  /\ ctx = [p \in Peers |-> IF p = "client" THEN InitCtx(p) ELSE Gone]
  /\ net = [p \in Peers |-> <<>>]
  /\ timer = {"client"}
  /\ outcome = [p \in Peers |-> ""] /\ reached = [p \in Peers |-> 1]

-----------------------------------------------------------------------------
(***************************************************************************)
(* What a call leaves behind.                                              *)
(***************************************************************************)

Sent(p, inbox, out) ==
  net' = [net EXCEPT ![p] = inbox, ![Other(p)] = IF Len(@) < NetSize THEN @ \o out ELSE @]

\* The context is kept and its timer set, which every packet stops; a segment
\* that finds no room in the network is lost.
Done(p, c, inbox, out) ==
  /\ ctx' = [ctx EXCEPT ![p] = c] /\ timer' = timer \cup {p} /\ Sent(p, inbox, out)
  /\ reached' = [reached EXCEPT ![p] = IF c.act > @ THEN c.act ELSE @]
  /\ UNCHANGED <<stream, outcome>>

\* bundle_iterate_streams, bundle_expire: the context is freed.
End(p, how, inbox, out) ==
  /\ ctx' = [ctx EXCEPT ![p] = Gone] /\ timer' = timer \ {p} /\ Sent(p, inbox, out)
  /\ outcome' = [outcome EXCEPT ![p] = how]
  /\ UNCHANGED <<stream, reached>>

\* The call returns without a time for the next one.
Untimed(p, c, inbox) ==
  /\ ctx' = [ctx EXCEPT ![p] = c] /\ timer' = timer \ {p} /\ Sent(p, inbox, <<>>)
  /\ UNCHANGED <<stream, outcome, reached>>

\* create_tcp_pkt: the segment, and the context after it.
Segment(p, c, flags, len) ==
  [from |-> p, flags |-> flags, seq |-> c.next, ack |-> IF "ACK" \in flags THEN c.recv ELSE 0,
   pos |-> c.next - c.first, len |-> len]
Advanced(c, flags, len) ==
  [c EXCEPT !.next = @ + (IF flags \cap {"SYN", "FIN", "RST"} # {} THEN 1 ELSE len),
            !.first = IF "SYN" \in flags THEN c.ackd + 1 ELSE @]
Emit(p, d, inbox, flags, len) ==
  \E c \in {d} : Done(p, Advanced(c, flags, len), inbox, <<Segment(p, c, flags, len)>>)
Again(c) == [c EXCEPT !.same = @ + 1, !.next = c.ackd]

-----------------------------------------------------------------------------
(***************************************************************************)
(* stream_tcp_proc_in.                                                     *)
(***************************************************************************)

\* Mutant: data sent again after a late acknowledgement is not skipped.
SkippedNever(c) == c.next
Skipped(c) == IF c.next < c.ackable THEN c.ackable ELSE c.next

\* Mutant: any acknowledgement ends the action.
AllAckedEarly(c, s) == c.ackable # 0
AllAcked(c, s) == c.ackable = s.ack

\* The acknowledgement; with the last byte of an action the next one begins.
Acked(c, s) ==
  IF "ACK" \notin s.flags \/ s.ack <= c.ackd THEN c
  ELSE IF ~ AllAcked(c, s) THEN [c EXCEPT !.ackd = s.ack]
  ELSE [c EXCEPT !.ackd = s.ack, !.next = Skipped(c), !.ackable = 0, !.act = @ + 1]

\* stream_tcp_proc_in_order_data: data is compared with that of the action.
Expected(c, s) ==
  LET at == c.recv - c.ofirst IN
  /\ s.len > 0 /\ s.len <= Act(c).beg + Act(c).len - at
  /\ Act(c).peer = s.from /\ s.pos = at
Consumed(c, s) ==
  [c EXCEPT !.recv = @ + s.len, !.flags = @ \cup {"NEW_DATA"},
            !.act = IF c.recv - c.ofirst + s.len = Act(c).beg + Act(c).len THEN @ + 1 ELSE @]

SegmentReceived(c, s) ==
  IF "SYN" \in s.flags THEN [c EXCEPT !.recv = s.seq + 1, !.ofirst = s.seq + 1]
  ELSE IF c.recv # s.seq THEN c
  ELSE IF "FIN" \in s.flags THEN [c EXCEPT !.recv = s.seq + 1]
  ELSE IF Expected(c, s) THEN Consumed(c, s) ELSE c

tcp_in(c, s) ==
  LET r == SegmentReceived(Acked(c, s), s)
      progress == r.ackd # c.ackd \/ r.recv # c.recv \/ "SYN" \in s.flags
  IN [r EXCEPT !.same = IF progress THEN 0 ELSE @,
               !.flags = (IF progress THEN @ \cup {"PROGRESS"} ELSE @ \ {"PROGRESS"})
                         \cup (s.flags \cap {"SYN", "FIN"})]

-----------------------------------------------------------------------------
(***************************************************************************)
(* stream_tcp_proc_out, with a full bucket.                                *)
(***************************************************************************)

out_closed(p, c, inbox) ==
  Emit(p, [c EXCEPT !.st = "SYN_SENT", !.next = 99, !.ackd = 99], inbox, {"SYN"}, 0)

out_listen(p, c, inbox) ==
  IF "SYN" \in c.flags
  THEN Emit(p, [c EXCEPT !.st = "SYN_RECEIVED", !.next = 200, !.ackd = 200], inbox, {"SYN", "ACK"}, 0)
  ELSE End(p, "reset", inbox, <<Segment(p, c, {"RST"}, 0)>>)

out_syn_sent(p, c, inbox) ==
  LET est == [c EXCEPT !.same = 0, !.st = "ESTABLISHED"] IN
  IF c.ackd < c.next \/ "SYN" \notin c.flags THEN out_closed(p, [c EXCEPT !.same = @ + 1], inbox)
  ELSE IF Act(c).peer = p THEN Done(p, est, inbox, <<>>)
  ELSE Emit(p, est, inbox, {"ACK"}, 0)

out_syn_recv(p, c, inbox) ==
  LET est == [c EXCEPT !.same = 0, !.st = "ESTABLISHED"] IN
  IF c.ackd # c.next THEN Emit(p, Again(c), inbox, {"SYN", "ACK"}, 0)
  ELSE IF Act(c).peer = p THEN Done(p, est, inbox, <<>>)
  ELSE Emit(p, est, inbox, {"ACK"}, 0)

Remaining(c) == Act(c).len - (c.next - c.first - Act(c).beg)

\* outstanding_bytes is unsigned: an acknowledgement beyond what was sent again
\* blocks the stream too, until all is acknowledged or the timeout occurs.
Blocked(c) == c.next < c.ackd \/ c.next - c.ackd > RxWindow
MaySend(c) == Remaining(c) # 0 /\ ~ Blocked(c)

\* At most Mss bytes of the action, from next_seq.
SendData(p, c, inbox) ==
  LET left == Remaining(c)
      d == [c EXCEPT !.flags = IF left > Mss THEN @ \cup {"MORE_DATA"} ELSE @ \ {"MORE_DATA"}]
  IN Emit(p, d, inbox, {"ACK"}, IF left > Mss THEN Mss ELSE left)

\* PROX_ASSERT(outstanding_bytes == 0), when an action begins.
NothingOutstanding(c) == c.next = c.ackd

out_estab_tx(p, c, inbox) ==
  \/ Act(c).len = 0 /\ Emit(p, [c EXCEPT !.st = "FIN_WAIT", !.same = 0], inbox, {"FIN", "ACK"}, 0)
  \/ /\ Act(c).len # 0 /\ MaySend(c)
     /\ SendData(p, [c EXCEPT !.ackable = IF @ = 0 THEN c.next + Act(c).len ELSE @], inbox)
  \/ /\ Act(c).len # 0 /\ ~ MaySend(c) /\ "MORE_DATA" \in c.flags
     /\ Done(p, [c EXCEPT !.flags = @ \ {"MORE_DATA"}], inbox, <<>>)
  \* Waiting for the acknowledgement: longer after progress, then until the
  \* timeout really occurs.
  \/ /\ Act(c).len # 0 /\ ~ MaySend(c) /\ "MORE_DATA" \notin c.flags
     /\ \/ "PROGRESS" \in c.flags /\ Done(p, [c EXCEPT !.flags = @ \ {"PROGRESS"}], inbox, <<>>)
        \/ inbox # net[p] /\ Done(p, c, inbox, <<>>)
        \/ SendData(p, Again(c), inbox)

out_estab_rx(p, c, inbox) ==
  IF "FIN" \in c.flags THEN Emit(p, [c EXCEPT !.st = "LAST_ACK"], inbox, {"FIN", "ACK"}, 0)
  ELSE LET d == IF "NEW_DATA" \in c.flags THEN [c EXCEPT !.flags = @ \ {"NEW_DATA"}]
                                          ELSE [c EXCEPT !.same = @ + 1]
       IN Emit(p, d, inbox, {"ACK"}, 0)

out_estab(p, c, inbox) ==
  IF Act(c).peer = p THEN out_estab_tx(p, c, inbox) ELSE out_estab_rx(p, c, inbox)

\* The FIN is sent again, unless the last packet made progress.
FinAgain(p, c, inbox) ==
  IF "PROGRESS" \in c.flags THEN Done(p, [c EXCEPT !.flags = @ \ {"PROGRESS"}], inbox, <<>>)
  ELSE Emit(p, Again(c), inbox, {"FIN", "ACK"}, 0)

out_last_ack(p, c, inbox) ==
  IF c.ackd = c.next THEN End(p, "finished", inbox, <<>>) ELSE FinAgain(p, c, inbox)

out_fin_wait(p, c, inbox) ==
  IF c.ackd # c.next THEN FinAgain(p, c, inbox)
  ELSE IF "FIN" \in c.flags THEN Emit(p, [c EXCEPT !.same = 0, !.st = "TIME_WAIT"], inbox, {"ACK"}, 0)
  ELSE Done(p, c, inbox, <<>>)

\* The time of TIME_WAIT is over, or a packet came before.
out_time_wait(p, c, inbox) ==
  \/ End(p, "finished", inbox, <<>>)
  \/ inbox # net[p] /\ Emit(p, c, inbox, {"ACK"}, 0)

NoProgress(c) == c.same = MaxSame

tcp_out(p, c, inbox) ==
  IF NoProgress(c) THEN End(p, "expired", inbox, <<>>)
  ELSE \/ c.st = "CLOSED" /\ out_closed(p, c, inbox)
       \/ c.st = "LISTEN" /\ out_listen(p, c, inbox)
       \/ c.st = "SYN_SENT" /\ out_syn_sent(p, c, inbox)
       \/ c.st = "SYN_RECEIVED" /\ out_syn_recv(p, c, inbox)
       \/ c.st = "ESTABLISHED" /\ out_estab(p, c, inbox)
       \/ c.st = "LAST_ACK" /\ out_last_ack(p, c, inbox)
       \/ c.st = "FIN_WAIT" /\ out_fin_wait(p, c, inbox)
       \/ c.st = "TIME_WAIT" /\ out_time_wait(p, c, inbox)

-----------------------------------------------------------------------------
(***************************************************************************)
(* stream_udp_proc, and the two callers: bundle_proc_data for a segment or *)
(* for an expired timer.                                                   *)
(***************************************************************************)

LastAction(c) == c.act = Len(Actions)

\* The datagram of the current action, if it is this peer's.
udp_out(p, c, inbox) ==
  LET out == <<[act |-> c.act, from |-> p]>> IN
  IF Act(c).peer # p THEN Done(p, c, inbox, <<>>)
  ELSE IF LastAction(c) THEN End(p, "finished", inbox, out)
  ELSE Done(p, [c EXCEPT !.act = @ + 1], inbox, out)

\* A datagram must be that of the current action; any other stops the timer.
udp_in(p, c, s, inbox) ==
  IF s.act # c.act THEN Untimed(p, c, inbox)
  ELSE IF LastAction(c) THEN End(p, "finished", inbox, <<>>)
  ELSE LET d == [c EXCEPT !.act = @ + 1] IN
       udp_out(p, d, inbox) \/ (Act(d).peer = p /\ Done(p, d, inbox, <<>>))

tcp_packet(p, c, s, inbox) ==
  IF "RST" \in s.flags THEN End(p, "reset", inbox, <<>>)
  ELSE \E d \in {tcp_in(c, s)} :
       \/ tcp_out(p, d, inbox)
       \/ ~ NoProgress(d) /\ Done(p, d, inbox, <<>>)  \* the bucket is not full

\* handle_gen_bulk_client answers what belongs to no connection with a RST;
\* handle_gen_queued accepts it as a new one.
Receive(p) ==
  /\ net[p] # <<>>
  /\ LET s == Head(net[p]) IN
     IF Live(p) \/ p = "server"
     THEN \E c \in {IF Live(p) THEN ctx[p] ELSE InitCtx(p)} :
          IF stream.proto = "udp" THEN udp_in(p, c, s, Tail(net[p]))
                                  ELSE tcp_packet(p, c, s, Tail(net[p]))
     ELSE /\ Sent(p, Tail(net[p]),
                  IF stream.proto = "udp" THEN <<>> ELSE <<Segment(p, InitCtx(p), {"RST"}, 0)>>)
          /\ UNCHANGED <<stream, ctx, timer, outcome, reached>>

\* The timer set by the last call expires; it may find the bucket not full.
Timeout(p) ==
  /\ p \in timer
  /\ IF stream.proto = "tcp" THEN tcp_out(p, ctx[p], net[p])
     ELSE IF Act(ctx[p]).peer = p THEN udp_out(p, ctx[p], net[p])
     ELSE End(p, "expired", net[p], <<>>)

SegmentLost(p) ==
  /\ net[p] # <<>> /\ net' = [net EXCEPT ![p] = Tail(@)]
  /\ UNCHANGED <<stream, ctx, timer, outcome, reached>>
Reorder(p) ==
  /\ ~ stream.orderly /\ Len(net[p]) > 1
  /\ net' = [net EXCEPT ![p] = Append(Tail(@), Head(@))]
  /\ UNCHANGED <<stream, ctx, timer, outcome, reached>>

L4Next == \E p \in Peers : Receive(p) \/ Timeout(p) \/ SegmentLost(p) \/ Reorder(p)
L4Spec == L4Init /\ [][L4Next]_l4_vars
\* The handler of a task is called again and again, and timers expire.
L4Fairness == \A p \in Peers : WF_l4_vars(Receive(p)) /\ WF_l4_vars(Timeout(p))

-----------------------------------------------------------------------------
(***************************************************************************)
(* Properties.                                                             *)
(***************************************************************************)

Tcp == stream.proto = "tcp"
Open(p) == ctx[p].st \notin {"GONE", "CLOSED", "LISTEN", "SYN_SENT"}
ToSend(p, c) ==
  c.st = "ESTABLISHED" /\ Act(c).peer = p /\ Act(c).len # 0 /\ Remaining(c) # 0

\* No peer believes acknowledged what the other has not received, and a peer
\* begins an action only when the other is at the same one or still sends the
\* one before, whatever was lost and sent again.
SameConversation ==
  Open("client") /\ Open("server") =>
    \A p \in Peers : LET q == Other(p) IN
      /\ ctx[p].ackd <= ctx[q].recv
      /\ ctx[p].act > ctx[q].act => ctx[p].act = ctx[q].act + 1 /\ Act(ctx[q]).peer = q

\* PROX_ASSERT(outstanding_bytes == 0) in stream_tcp_proc_out_estab_tx: when a
\* peer begins to send the data of an action, all it sent before is acknowledged.
NothingLeftBehind ==
  \A p \in Peers : LET c == ctx[p] IN
    Live(p) /\ ToSend(p, c) /\ c.ackable = 0 => NothingOutstanding(c)

\* A TCP stream counted as finished was played to the last action by the other
\* peer too.
FinishedMeansPlayed ==
  \A p \in Peers : outcome[p] = "finished" => reached[Other(p)] = Len(Actions)

\* The two ends of a TCP connection over a network that loses segments agree.
InStep ==
  Tcp /\ stream.orderly => SameConversation /\ NothingLeftBehind /\ FinishedMeansPlayed

\* Every stream ends on both sides, is finished, reset or expires, except a
\* UDP stream that was left without a timer (Untimed).
Ends == <>[](\A p \in Peers : Live(p) => ~ Tcp /\ p \notin timer)

\* "server waiting for 10 more" (genl4_stream_udp.c): a UDP stream in which
\* nothing happens any more expires.
EndsUdp == ~ Tcp => <>[](\A p \in Peers : ~ Live(p))
=============================================================================
