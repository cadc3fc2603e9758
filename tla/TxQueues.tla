------------------------------ MODULE TxQueues ------------------------------
(***************************************************************************)
(* What transmit buffering promises: each output is a first-in first-out   *)
(* queue, packets leave it in bursts, and no packet is lost, repeated or   *)
(* sent to another output.  TxBuffer implements it with two 16-bit         *)
(* counters and an array per output, the first of which is also the place  *)
(* where packets are received.                                             *)
(***************************************************************************)
EXTENDS Integers, Sequences, SequencesExt

CONSTANTS MAX_PKT_BURST, Outs, Packets

VARIABLES
  burst,   \* packets received and not yet given to an output
  queue,   \* packets that wait at each output
  handed   \* what the last step handed over for transmission

Nothing == [o \in Outs |-> <<>>]

Init == burst = <<>> /\ queue = Nothing /\ handed = Nothing

Receive ==
  /\ burst = <<>>
  /\ burst' \in BoundedSeq(Packets, MAX_PKT_BURST)
  /\ handed' = Nothing /\ UNCHANGED queue

Drop ==
  /\ burst # <<>> /\ burst' = Tail(burst)
  /\ handed' = Nothing /\ UNCHANGED queue

Put(o) ==
  /\ burst # <<>> /\ burst' = Tail(burst)
  /\ queue' = [queue EXCEPT ![o] = Append(@, Head(burst))]
  /\ handed' = Nothing

\* A full burst leaves; what is left is less than one.
Send(o) ==
  /\ Len(queue[o]) >= MAX_PKT_BURST
  /\ handed' = [Nothing EXCEPT ![o] = SubSeq(queue[o], 1, MAX_PKT_BURST)]
  /\ queue' = [queue EXCEPT ![o] = SubSeq(@, MAX_PKT_BURST + 1, Len(@))]
  /\ Len(queue'[o]) < MAX_PKT_BURST
  /\ UNCHANGED burst

\* A full burst overtakes nothing: what waits leaves first.
Pass(o) ==
  /\ Len(burst) = MAX_PKT_BURST
  /\ handed' = [Nothing EXCEPT ![o] = queue[o] \o burst]
  /\ queue' = [queue EXCEPT ![o] = <<>>]
  /\ burst' = <<>>

Flush == handed' = queue /\ queue' = Nothing /\ UNCHANGED burst

Quiet == handed' = Nothing /\ UNCHANGED <<burst, queue>>

Next ==
  \/ Receive \/ Drop \/ Flush \/ Quiet
  \/ \E o \in Outs : Put(o) \/ Send(o) \/ Pass(o)

Spec == Init /\ [][Next]_<<burst, queue, handed>>

=============================================================================
