--------------------------- MODULE Paths_proofs ----------------------------
(***************************************************************************)
(* Proofs about what lies between a task and its ports: the buffers its    *)
(* packets wait in, for every burst size, index width that is a multiple   *)
(* of the ring, number of outputs and set of packets; and the functions    *)
(* that messages install in front of its receive and transmit functions,   *)
(* for every set of messages.                                              *)
(***************************************************************************)
EXTENDS TxBuffer, Hooks, NumberLemmas, SequenceTheorems, FiniteSetTheorems, TLAPS

\* A burst fills half a ring, the ring divides the range of an index.
LEMMA Sizes ==
  /\ MAX_PKT_BURST \in Nat \ {0} /\ RingSize \in Nat \ {0} /\ RingSize = 2 * MAX_PKT_BURST
  /\ IndexRange \in Nat \ {0} /\ IndexRange % RingSize = 0
  /\ IndexRange % MAX_PKT_BURST = 0 /\ RingSize <= IndexRange
  <1>1. /\ MAX_PKT_BURST \in Nat \ {0} /\ RingSize \in Nat \ {0}
        /\ RingSize = 2 * MAX_PKT_BURST
        /\ IndexRange \in Nat \ {0} /\ IndexRange % RingSize = 0
    BY TxBufferAssumption DEF RingSize
  <1>2. IndexRange % MAX_PKT_BURST = 0
    <2>1. RingSize \in Nat /\ IndexRange \in Int
      BY <1>1
    <2> QED BY <1>1, <2>1, MultipleOfHalf
  <1>3. RingSize <= IndexRange
    <2>1. SUFFICES ASSUME IndexRange < RingSize PROVE FALSE
      BY <1>1
    <2>2. IndexRange \in 0 .. (RingSize - 1)
      BY <1>1, <2>1
    <2>3. IndexRange % RingSize = IndexRange
      BY <1>1, <2>2, RemainderSmall
    <2> QED BY <1>1, <2>3
  <1> QED BY <1>1, <1>2, <1>3

\* Output 0 is an output.
LEMMA OutsTypes == nb_txports \in Nat \ {0} /\ Outs \subseteq Nat /\ 0 \in Outs
  BY TxBufferAssumption DEF Outs

\* A masked index is a place of the ring, a distance is an index.
LEMMA SlotType ==
  ASSUME NEW x \in Int PROVE Slot(x) \in 0 .. (RingSize - 1)
  BY Sizes, Division DEF Slot

\* The number of waiting packets is in the range of an index.
LEMMA WaitingType ==
  ASSUME TypeOK, NEW o \in Outs
  PROVE  /\ Waiting(o) \in 0 .. (IndexRange - 1)
         /\ prod[o] \in 0 .. (IndexRange - 1) /\ cons[o] \in 0 .. (IndexRange - 1)
  <1>1. prod[o] \in 0 .. (IndexRange - 1) /\ cons[o] \in 0 .. (IndexRange - 1)
    BY DEF TypeOK
  <1>2. prod[o] - cons[o] \in Int
    BY <1>1, Sizes
  <1> QED BY <1>1, <1>2, Sizes, Division DEF Waiting

\* A burst is received from a place of the ring on.
LEMMA RxStartType ==
  ASSUME TypeOK PROVE RxStart \in 0 .. (RingSize - 1)
  <1>1. prod[0] \in Int
    BY OutsTypes, WaitingType, Sizes
  <1> QED BY <1>1, SlotType DEF RxStart

\* Nothing waits where both counters are equal.
LEMMA NothingWaits ==
  ASSUME NEW x \in Int PROVE (x - x) % IndexRange = 0
  <1>1. x - x = 0 /\ 0 \in 0 .. (IndexRange - 1)
    BY Sizes
  <1> QED BY <1>1, Sizes, RemainderSmall

\* A ring that starts at 0 again starts at a whole burst.
LEMMA ZeroIsWhole == 0 % MAX_PKT_BURST = 0
  BY Sizes, RemainderSmall

-----------------------------------------------------------------------------
(***************************************************************************)
(* The contents keep their type, whichever part is removed.                *)
(***************************************************************************)
Contents == [Places -> Packets \cup {Dead}]

\* Removing a part keeps the type of the contents.
LEMMA KillType ==
  ASSUME NEW m \in Contents, NEW from, NEW count
  PROVE  Kill(m, from, count) \in Contents
  BY DEF Kill, Contents

-----------------------------------------------------------------------------
\* Empty rings satisfy the invariant.
LEMMA InitIInv == Init => IInv
  <1> SUFFICES ASSUME Init PROVE IInv
    OBVIOUS
  <1>1. TypeOK
    <2>1. mbuf \in [Outs -> Contents]
      BY DEF Init, Contents
    <2>2. prod \in [Outs -> 0 .. (IndexRange - 1)] /\ cons \in [Outs -> 0 .. (IndexRange - 1)]
      BY Sizes DEF Init
    <2>3. start = 0 /\ n = 0 /\ piece = 0 /\ i = nb_txports /\ tx_flush = FALSE
      BY DEF Init
    <2>4. n \in 0 .. MAX_PKT_BURST /\ piece \in 0 .. n /\ i \in 0 .. nb_txports
      BY <2>3, Sizes, OutsTypes
    <2> QED BY <2>1, <2>2, <2>3, <2>4 DEF TypeOK, Contents
  <1>2. CallProgress
    BY Sizes DEF Init, CallProgress
  <1>3. WholeBursts
    BY ZeroIsWhole DEF Init, WholeBursts
  <1>4. \A o \in Outs : Waiting(o) = 0
    BY NothingWaits DEF Init, Waiting
  <1>5. RoomLeft
    BY <1>4, Sizes DEF Init, RoomLeft
  <1> QED BY <1>1, <1>2, <1>3, <1>5 DEF IInv

\* Reception moves no index.
LEMMA StepReceive ==
  ASSUME IInv, rx_pkt PROVE IInv'
  <1>1. PICK burst \in Bursts :
          /\ n' = Len(burst) /\ start' = RxStart
          /\ mbuf' = [mbuf EXCEPT ![0] =
               [p \in Places |->
                  IF p \in RxStart .. (RxStart + Len(burst) - 1)
                  THEN burst[p - RxStart + 1] ELSE @[p]]]
    BY DEF rx_pkt
  <1>2. PICK m \in 1 .. MAX_PKT_BURST : burst \in [1 .. m -> Packets]
    BY DEF Bursts
  <1>3. Len(burst) = m /\ m \in Nat
    BY <1>2, Sizes
  <1>4. piece = 0 /\ i = nb_txports /\ n = 0
    BY DEF rx_pkt, Idle, Between
  <1>5. UNCHANGED <<prod, cons, piece, i, tx_flush>>
    BY DEF rx_pkt
  <1>6. mbuf' \in [Outs -> Contents]
    <2>1. mbuf \in [Outs -> Contents] /\ mbuf[0] \in Contents
      BY OutsTypes DEF IInv, TypeOK, Contents
    <2>2. ASSUME NEW p \in Places, p \in RxStart .. (RxStart + Len(burst) - 1)
          PROVE  burst[p - RxStart + 1] \in Packets
      <3>1. p - RxStart + 1 \in 1 .. m
        BY <2>2, <1>3, RxStartType, Sizes DEF IInv
      <3> QED BY <1>2, <3>1
    <2>3. [p \in Places |->
             IF p \in RxStart .. (RxStart + Len(burst) - 1)
             THEN burst[p - RxStart + 1] ELSE mbuf[0][p]] \in Contents
      BY <2>1, <2>2 DEF Contents
    <2> QED BY <1>1, <2>1, <2>3
  <1>7. TypeOK'
    BY <1>1, <1>2, <1>3, <1>4, <1>5, <1>6, RxStartType, Sizes, OutsTypes
       DEF IInv, TypeOK, Contents
  <1>8. CallProgress'
    BY <1>1, <1>2, <1>3, <1>4, <1>5, RxStartType, Sizes DEF IInv, CallProgress
  <1>9. WholeBursts' /\ RoomLeft'
    BY <1>5 DEF IInv, WholeBursts, RoomLeft, Waiting
  <1> QED BY <1>7, <1>8, <1>9 DEF IInv

\* A call begins when less than a burst waits, and brings at most a burst.
LEMMA StepCall ==
  ASSUME IInv, NEW k \in 1 .. MAX_PKT_BURST, call(k) PROVE IInv'
  <1>1. /\ piece = 0 /\ i = nb_txports /\ k \in 1 .. n /\ piece' = k /\ i' = 0
        /\ UNCHANGED <<prod, cons, mbuf, start, n, tx_flush>>
    BY DEF call, Between
  <1>2. \A o \in Outs : Waiting(o) < MAX_PKT_BURST /\ Waiting(o) \in Nat
    BY <1>1, WaitingType, OutsTypes, Sizes DEF IInv, RoomLeft, Outs
  <1>3. TypeOK'
    BY <1>1, OutsTypes, Sizes DEF IInv, TypeOK
  <1>4. CallProgress' /\ WholeBursts'
    BY <1>1 DEF IInv, CallProgress, WholeBursts
  <1>5. RoomLeft'
    <2> SUFFICES ASSUME NEW o \in Outs PROVE Waiting(o)' + piece' < RingSize /\ ~ (o < i')
      BY DEF RoomLeft
    <2>1. Waiting(o)' = Waiting(o)
      BY <1>1 DEF Waiting
    <2> QED BY <1>1, <1>2, <2>1, Sizes, OutsTypes
  <1> QED BY <1>3, <1>4, <1>5 DEF IInv

\* The packet taken from the burst is counted where it is put.
LEMMA WaitingGrows ==
  ASSUME IInv, NEW o \in Outs, buf_pkt_single(o), NEW u \in Outs
  PROVE  Waiting(u)' = IF u = o THEN Waiting(u) + 1 ELSE Waiting(u)
  <1>1. /\ piece > 0 /\ prod' = [prod EXCEPT ![o] = (prod[o] + 1) % IndexRange]
        /\ UNCHANGED cons
    BY DEF buf_pkt_single, Taken, Inc
  <1>2. CASE u = o
    <2>1. Waiting(o) = Distance(prod[o], cons[o], IndexRange)
      BY DEF Waiting, Distance
    <2>2. Waiting(o)' = Distance(MovedForward(prod[o], 1, IndexRange), cons[o], IndexRange)
      BY <1>1 DEF Waiting, Distance, MovedForward, IInv, TypeOK
    <2>3. /\ cons[o] \in Int /\ prod[o] \in Int
          /\ Waiting(o) + 1 < IndexRange
      BY <1>1, WaitingType, Sizes DEF IInv, RoomLeft, TypeOK
    <2>4. Distance(MovedForward(prod[o], 1, IndexRange), cons[o], IndexRange)
            = Distance(prod[o], cons[o], IndexRange) + 1
      <3>1. /\ IndexRange \in Nat \ {0} /\ 1 \in Nat
            /\ prod[o] \in Int /\ cons[o] \in Int
            /\ Distance(prod[o], cons[o], IndexRange) + 1 < IndexRange
        BY <2>1, <2>3, Sizes
      <3> QED BY ONLY <3>1, DistanceGrows, ZenonT(30)
    <2> QED BY <1>2, <2>1, <2>2, <2>4
  <1>3. CASE u # o
    BY <1>1, <1>3 DEF Waiting, IInv, TypeOK
  <1> QED BY <1>2, <1>3

\* A burst that is sent from a ring waits no longer.
LEMMA WaitingShrinks ==
  ASSUME IInv, NEW o \in Outs, Waiting(o) >= MAX_PKT_BURST, UNCHANGED prod,
         cons' = [cons EXCEPT ![o] = (cons[o] + MAX_PKT_BURST) % IndexRange],
         NEW u \in Outs
  PROVE  Waiting(u)' = IF u = o THEN Waiting(u) - MAX_PKT_BURST ELSE Waiting(u)
  <1>1. CASE u = o
    <2>1. Waiting(o) = Distance(prod[o], cons[o], IndexRange)
      BY DEF Waiting, Distance
    <2>2. cons'[o] = MovedForward(cons[o], MAX_PKT_BURST, IndexRange) /\ prod'[o] = prod[o]
      BY DEF IInv, TypeOK, MovedForward
    <2>3. Waiting(o)' = Distance(prod'[o], cons'[o], IndexRange)
      BY DEF Waiting, Distance
    <2>4. cons[o] \in Int /\ prod[o] \in Int /\ MAX_PKT_BURST <= Waiting(o)
      BY WaitingType, Sizes DEF IInv
    <2>5. Distance(prod[o], MovedForward(cons[o], MAX_PKT_BURST, IndexRange), IndexRange)
            = Distance(prod[o], cons[o], IndexRange) - MAX_PKT_BURST
      <3>1. /\ IndexRange \in Nat \ {0} /\ MAX_PKT_BURST \in Nat
            /\ prod[o] \in Int /\ cons[o] \in Int
            /\ MAX_PKT_BURST <= Distance(prod[o], cons[o], IndexRange)
        BY <2>1, <2>4, Sizes
      <3> QED BY ONLY <3>1, DistanceShrinks, ZenonT(30)
    <2> QED BY <1>1, <2>1, <2>2, <2>3, <2>5
  <1>2. CASE u # o
    BY <1>2 DEF Waiting, IInv, TypeOK
  <1> QED BY <1>1, <1>2

\* The packet taken from the burst leaves room where it is put.
LEMMA StepBuffer ==
  ASSUME IInv, NEW o \in Outs, buf_pkt_single(o) PROVE IInv'
  <1>1. /\ piece > 0 /\ prod' = [prod EXCEPT ![o] = (prod[o] + 1) % IndexRange]
        /\ start' = start + 1 /\ n' = n - 1 /\ piece' = piece - 1
        /\ UNCHANGED <<cons, i, tx_flush>>
        /\ mbuf' = LET taken == [mbuf EXCEPT ![0][start] = Dead]
                   IN  [taken EXCEPT ![o][Slot(prod[o])] = mbuf[0][start]]
    BY DEF buf_pkt_single, Taken, Inc
  <1>2. i = 0 /\ start \in Places /\ prod[o] \in Int /\ prod[o] + 1 \in Int
    BY <1>1, Sizes, WaitingType DEF IInv, TypeOK, CallProgress, Places
  <1>3. mbuf' \in [Outs -> Contents]
    <2>1. mbuf \in [Outs -> Contents] /\ mbuf[0][start] \in Packets \cup {Dead}
      BY <1>2, OutsTypes DEF IInv, TypeOK, Contents
    <2> DEFINE taken == [mbuf EXCEPT ![0][start] = Dead]
    <2>2. taken \in [Outs -> Contents]
      BY <2>1, OutsTypes DEF Contents
    <2>3. mbuf' = [taken EXCEPT ![o][Slot(prod[o])] = mbuf[0][start]]
      BY <1>1
    <2> HIDE DEF taken
    <2> QED BY <2>1, <2>2, <2>3 DEF Contents
  <1>4. (prod[o] + 1) % IndexRange \in 0 .. (IndexRange - 1)
    BY <1>2, Sizes, Division
  <1>5. TypeOK'
    <2>1. prod' \in [Outs -> 0 .. (IndexRange - 1)]
      BY <1>1, <1>4 DEF IInv, TypeOK
    <2>2. n' \in 0 .. MAX_PKT_BURST /\ piece' \in 0 .. n' /\ start' \in Nat
      BY <1>1, Sizes DEF IInv, TypeOK
    <2> QED BY <1>1, <1>3, <2>1, <2>2 DEF IInv, TypeOK, Contents
  <1>6. CallProgress' /\ WholeBursts'
    BY <1>1, <1>2 DEF IInv, TypeOK, CallProgress, WholeBursts
  <1>7. RoomLeft'
    <2> SUFFICES ASSUME NEW u \in Outs
                 PROVE  Waiting(u)' + piece' < RingSize /\ ~ (u < i')
      BY DEF RoomLeft
    <2>1. ~ (u < i')
      BY <1>1, <1>2, OutsTypes
    <2>2. Waiting(u) + piece < RingSize /\ piece \in Nat /\ Waiting(u) \in Nat
      BY WaitingType DEF IInv, RoomLeft, TypeOK
    <2>3. Waiting(u)' <= Waiting(u) + 1 /\ Waiting(u)' \in Nat
      BY <2>2, WaitingGrows
    <2> QED BY <1>1, <2>1, <2>2, <2>3, Sizes
  <1> QED BY <1>5, <1>6, <1>7 DEF IInv

\* A packet that is freed leaves only the burst.
LEMMA StepDiscard ==
  ASSUME IInv, discard PROVE IInv'
  <1>1. /\ piece > 0 /\ mbuf' = [mbuf EXCEPT ![0][start] = Dead]
        /\ start' = start + 1 /\ n' = n - 1 /\ piece' = piece - 1
        /\ UNCHANGED <<prod, cons, i, tx_flush>>
    BY DEF discard, Taken
  <1>2. mbuf' \in [Outs -> Contents]
    BY <1>1, OutsTypes DEF IInv, TypeOK, Contents
  <1>3. TypeOK'
    <2>1. n' \in 0 .. MAX_PKT_BURST /\ piece' \in 0 .. n' /\ start' \in Nat
      BY <1>1, Sizes DEF IInv, TypeOK
    <2> QED BY <1>1, <1>2, <2>1 DEF IInv, TypeOK, Contents
  <1>4. CallProgress' /\ WholeBursts'
    BY <1>1 DEF IInv, TypeOK, CallProgress, WholeBursts
  <1>5. RoomLeft'
    <2> SUFFICES ASSUME NEW o \in Outs
                 PROVE  /\ Waiting(o)' + piece' < RingSize
                        /\ o < i' => Waiting(o)' < MAX_PKT_BURST
      BY DEF RoomLeft
    <2>1. Waiting(o)' = Waiting(o)
      BY <1>1 DEF Waiting
    <2>2. Waiting(o) + piece < RingSize /\ piece \in Nat /\ Waiting(o) \in Nat
      BY WaitingType DEF IInv, RoomLeft, TypeOK
    <2> QED BY <1>1, <2>1, <2>2, Sizes DEF IInv, RoomLeft
  <1> QED BY <1>3, <1>4, <1>5 DEF IInv

\* A burst is sent from a place where it does not wrap, and what is left is
\* less than one.
LEMMA StepSend ==
  ASSUME IInv, send PROVE IInv'
  <1>1. piece = 0 /\ i < nb_txports /\ i' = i + 1 /\ i \in Outs
    BY OutsTypes DEF send, IInv, TypeOK, Outs
  <1>2. UNCHANGED <<prod, start, n, piece>> /\ tx_flush' \in BOOLEAN
    BY DEF send, StillMarked, IInv, TypeOK
  <1>3. CASE Waiting(i) >= MAX_PKT_BURST
    <2>1. PICK o \in Outs : o = i
      BY <1>1
    <2>2. /\ cons' = [cons EXCEPT ![o] = (cons[o] + MAX_PKT_BURST) % IndexRange]
          /\ mbuf' = [mbuf EXCEPT ![o] = Kill(mbuf[o], Slot(cons[o]), MAX_PKT_BURST)]
      BY <1>3, <2>1 DEF send
    <2>3. /\ cons[o] \in Int /\ cons[o] + MAX_PKT_BURST \in Int /\ prod[o] \in Int
          /\ Waiting(o) \in Int /\ Waiting(o) < RingSize /\ MAX_PKT_BURST <= Waiting(o)
      BY <1>1, <1>3, <2>1, WaitingType, Sizes DEF IInv, RoomLeft
    <2>4. (cons[o] + MAX_PKT_BURST) % IndexRange \in 0 .. (IndexRange - 1)
      BY <2>3, Sizes, Division
    <2>5. mbuf' \in [Outs -> Contents]
      <3>1. mbuf \in [Outs -> Contents] /\ mbuf[o] \in Contents
        BY DEF IInv, TypeOK, Contents
      <3> QED BY <2>2, <3>1, KillType
    <2>6. TypeOK'
      <3>1. cons' \in [Outs -> 0 .. (IndexRange - 1)]
        BY <2>2, <2>4 DEF IInv, TypeOK
      <3> QED BY <1>1, <1>2, <2>5, <3>1, OutsTypes DEF IInv, TypeOK, Contents
    <2>7. CallProgress'
      BY <1>1, <1>2 DEF IInv, CallProgress
    <2>8. ((cons[o] + MAX_PKT_BURST) % IndexRange) % MAX_PKT_BURST = 0
      <3>1. (cons[o] + MAX_PKT_BURST) % MAX_PKT_BURST = 0
        BY <2>3, Sizes, MultiplePlus DEF IInv, WholeBursts
      <3> QED BY <2>3, <3>1, Sizes, MaskOfWrapped
    <2>9. WholeBursts'
      BY <2>2, <2>8 DEF IInv, TypeOK, WholeBursts
    <2>10. Waiting(o)' = Waiting(o) - MAX_PKT_BURST
      BY <1>2, <2>2, <2>3, WaitingShrinks
    <2>11. RoomLeft'
      <3> SUFFICES ASSUME NEW u \in Outs
                   PROVE  /\ Waiting(u)' + piece' < RingSize
                          /\ u < i' => Waiting(u)' < MAX_PKT_BURST
        BY DEF RoomLeft
      <3>1. CASE u = o
        BY <1>1, <1>2, <2>3, <2>10, <3>1, Sizes
      <3>2. CASE u # o
        <4>1. Waiting(u)' = Waiting(u)
          BY <1>2, <2>2, <3>2 DEF Waiting, IInv, TypeOK
        <4>2. u < i' => u < i
          BY <1>1, <2>1, <3>2, OutsTypes
        <4> QED BY <1>1, <1>2, <4>1, <4>2 DEF IInv, RoomLeft
      <3> QED BY <3>1, <3>2
    <2> QED BY <2>6, <2>7, <2>9, <2>11 DEF IInv
  <1>4. CASE ~ (Waiting(i) >= MAX_PKT_BURST)
    <2>1. UNCHANGED <<cons, mbuf>>
      BY <1>4 DEF send
    <2>2. TypeOK'
      BY <1>1, <1>2, <2>1, OutsTypes DEF IInv, TypeOK
    <2>3. CallProgress' /\ WholeBursts'
      BY <1>1, <1>2, <2>1 DEF IInv, CallProgress, WholeBursts
    <2>4. RoomLeft'
      <3> SUFFICES ASSUME NEW o \in Outs
                   PROVE  /\ Waiting(o)' + piece' < RingSize
                          /\ o < i' => Waiting(o)' < MAX_PKT_BURST
        BY DEF RoomLeft
      <3>1. Waiting(o)' = Waiting(o) /\ Waiting(o) \in Nat
        BY <1>2, <2>1, WaitingType DEF Waiting, IInv
      <3>2. o < i' => o < i \/ o = i
        BY <1>1, OutsTypes
      <3> QED BY <1>1, <1>2, <1>4, <3>1, <3>2, Sizes DEF IInv, RoomLeft
    <2> QED BY <2>2, <2>3, <2>4 DEF IInv
  <1> QED BY <1>3, <1>4


\* Where every pair of indices is kept or starts at 0 again, no output has
\* more packets waiting than before.
LEMMA IndicesKeptOrReset ==
  ASSUME IInv, UNCHANGED <<piece, i>>,
         \A o \in Outs : \/ prod'[o] = prod[o] /\ cons'[o] = cons[o]
                         \/ prod'[o] = 0 /\ cons'[o] = 0
  PROVE  WholeBursts' /\ RoomLeft'
  <1>1. WholeBursts'
    BY ZeroIsWhole DEF IInv, WholeBursts
  <1>2. RoomLeft'
    <2> SUFFICES ASSUME NEW o \in Outs
                 PROVE  /\ Waiting(o)' + piece' < RingSize
                        /\ o < i' => Waiting(o)' < MAX_PKT_BURST
      BY DEF RoomLeft
    <2>1. /\ Waiting(o) + piece < RingSize /\ piece \in Nat /\ Waiting(o) \in Nat
          /\ o < i => Waiting(o) < MAX_PKT_BURST
      BY WaitingType DEF IInv, RoomLeft, TypeOK
    <2>2. Waiting(o)' = Waiting(o) \/ Waiting(o)' = 0
      BY NothingWaits DEF Waiting
    <2> QED BY <2>1, <2>2, Sizes
  <1> QED BY <1>1, <1>2

\* A full burst is sent around the ring.
LEMMA StepThrptOpt ==
  ASSUME IInv, thrpt_opt PROVE IInv'
  <1>1. /\ piece = 0 /\ i = nb_txports /\ n = MAX_PKT_BURST /\ n' = 0
        /\ UNCHANGED <<start, piece, i>>
        /\ mbuf' = [mbuf EXCEPT ![0] =
             Kill(Kill(mbuf[0], Slot(cons[0]), Waiting(0)), start, n)]
    BY DEF thrpt_opt, Between
  <1>2. mbuf' \in [Outs -> Contents]
    <2>1. mbuf \in [Outs -> Contents] /\ mbuf[0] \in Contents
      BY OutsTypes DEF IInv, TypeOK, Contents
    <2>2. Kill(Kill(mbuf[0], Slot(cons[0]), Waiting(0)), start, n) \in Contents
      BY <2>1, KillType
    <2> QED BY <1>1, <2>1, <2>2
  <1>3. /\ prod' = prod \/ prod' = [prod EXCEPT ![0] = 0]
        /\ tx_flush' \in BOOLEAN
        /\ \A o \in Outs : \/ prod'[o] = prod[o] /\ cons'[o] = cons[o]
                           \/ prod'[o] = 0 /\ cons'[o] = 0
        /\ prod' \in [Outs -> 0 .. (IndexRange - 1)]
        /\ cons' \in [Outs -> 0 .. (IndexRange - 1)]
    <2>1. 0 \in 0 .. (IndexRange - 1)
      BY Sizes
    <2> QED BY <2>1, OutsTypes DEF thrpt_opt, IInv, TypeOK
  <1>4. TypeOK'
    BY <1>1, <1>2, <1>3, Sizes DEF IInv, TypeOK, Contents
  <1>5. CallProgress'
    BY <1>1, Sizes DEF IInv, TypeOK, CallProgress
  <1>6. WholeBursts' /\ RoomLeft'
    BY <1>1, <1>3, IndicesKeptOrReset
  <1> QED BY <1>4, <1>5, <1>6 DEF IInv

\* A flush starts each ring it empties at 0 again.
LEMMA StepFlush ==
  ASSUME IInv, lconf_flush_all_queues PROVE IInv'
  <1>1. piece = 0 /\ UNCHANGED <<start, n, piece, i>> /\ tx_flush' \in BOOLEAN
    BY DEF lconf_flush_all_queues, Idle, Between, IInv, TypeOK
  <1>2. CASE tx_flush
    <2>1. prod' = Emptied(prod) /\ cons' = Emptied(cons)
          /\ mbuf' = [o \in Outs |->
               IF Flushed(o) THEN Kill(mbuf[o], Slot(cons[o]), Waiting(o)) ELSE mbuf[o]]
      BY <1>2 DEF lconf_flush_all_queues
    <2>2. mbuf' \in [Outs -> Contents]
      <3>1. \A o \in Outs : mbuf[o] \in Contents
        BY DEF IInv, TypeOK, Contents
      <3> QED BY <2>1, <3>1, KillType
    <2>3. /\ \A o \in Outs : \/ prod'[o] = prod[o] /\ cons'[o] = cons[o]
                             \/ prod'[o] = 0 /\ cons'[o] = 0
          /\ prod' \in [Outs -> 0 .. (IndexRange - 1)]
          /\ cons' \in [Outs -> 0 .. (IndexRange - 1)]
      <3>1. 0 \in 0 .. (IndexRange - 1)
        BY Sizes
      <3> QED BY <2>1, <3>1 DEF Emptied, IInv, TypeOK
    <2>4. TypeOK'
      BY <1>1, <2>2, <2>3 DEF IInv, TypeOK, Contents
    <2>5. CallProgress'
      BY <1>1 DEF IInv, CallProgress
    <2>6. WholeBursts' /\ RoomLeft'
      BY <1>1, <2>3, IndicesKeptOrReset
    <2> QED BY <2>4, <2>5, <2>6 DEF IInv
  <1>3. CASE ~ tx_flush
    <2>1. UNCHANGED <<prod, cons, mbuf>>
      BY <1>3 DEF lconf_flush_all_queues
    <2> QED BY <1>1, <2>1
          DEF IInv, TypeOK, CallProgress, WholeBursts, RoomLeft, Waiting
  <1> QED BY <1>2, <1>3

\* Every step keeps the invariant.
LEMMA NextIInv == IInv /\ [Next]_vars => IInv'
  <1> SUFFICES ASSUME IInv, [Next]_vars PROVE IInv'
    OBVIOUS
  <1>1. CASE rx_pkt
    BY <1>1, StepReceive
  <1>2. ASSUME NEW k \in 1 .. MAX_PKT_BURST, call(k) PROVE IInv'
    BY <1>2, StepCall
  <1>3. ASSUME NEW o \in Outs, buf_pkt_single(o) PROVE IInv'
    BY <1>3, StepBuffer
  <1>4. CASE discard
    BY <1>4, StepDiscard
  <1>5. CASE send
    BY <1>5, StepSend
  <1>6. CASE thrpt_opt
    BY <1>6, StepThrptOpt
  <1>7. CASE lconf_flush_all_queues
    BY <1>7, StepFlush
  <1>8. CASE UNCHANGED vars
    BY <1>8
       DEF vars, task, IInv, TypeOK, CallProgress, WholeBursts, RoomLeft, Waiting
  <1> QED BY <1>1, <1>2, <1>3, <1>4, <1>5, <1>6, <1>7, <1>8 DEF Next, tx_steps

\* The invariant holds in every state.
LEMMA Invariance == Spec => []IInv
  BY InitIInv, NextIInv, PTL DEF Spec

-----------------------------------------------------------------------------
(***************************************************************************)
(* Places of the rings.                                                    *)
(***************************************************************************)

\* A ring is consumed from the start of one of its halves on.
LEMMA HalfStart ==
  ASSUME IInv, NEW o \in Outs
  PROVE  /\ Slot(cons[o]) \in {0, MAX_PKT_BURST}
         /\ cons[o] \in Int /\ prod[o] \in Int
         /\ Waiting(o) \in 0 .. (RingSize - 1)
  <1>1. /\ cons[o] \in Int /\ prod[o] \in Int /\ Waiting(o) \in Int
        /\ cons[o] % MAX_PKT_BURST = 0 /\ RingSize \in Nat
        /\ Waiting(o) + piece < RingSize /\ piece \in Nat /\ Waiting(o) >= 0
    BY WaitingType, Sizes DEF IInv, WholeBursts, RoomLeft, TypeOK
  <1>2. cons[o] % RingSize \in {0, MAX_PKT_BURST}
    BY <1>1, Sizes, MultipleInRing
  <1>3. Waiting(o) \in 0 .. (RingSize - 1)
    BY <1>1
  <1> QED BY <1>1, <1>2, <1>3 DEF Slot

\* The place k after an index, around the ring once.
Around(place) == IF place < RingSize THEN place ELSE place - RingSize
LEMMA SlotAfter ==
  ASSUME NEW x \in Int, NEW k \in 0 .. RingSize
  PROVE  Slot(x + k) = Around(Slot(x) + k)
  <1> DEFINE s == Slot(x)
  <1>1. s \in 0 .. (RingSize - 1) /\ k \in Int
    BY SlotType, Sizes
  <1>2. Slot(x + k) = (s + k) % RingSize
    BY <1>1, Sizes, RemainderPlus DEF Slot
  <1> HIDE DEF s
  <1>3. CASE s + k < RingSize
    <2>1. s + k \in 0 .. (RingSize - 1)
      BY <1>1, <1>3, Sizes
    <2>2. (s + k) % RingSize = s + k
      BY <2>1, Sizes, RemainderSmall
    <2> QED BY <1>2, <1>3, <2>2 DEF Around, s
  <1>4. CASE ~ (s + k < RingSize)
    <2> DEFINE r == s + k - RingSize
    <2>1. /\ s + k \in Int /\ r \in 0 .. (RingSize - 1) /\ 1 \in Int
          /\ s + k = RingSize * 1 + r /\ RingSize \in Nat \ {0}
      BY <1>1, <1>4, Sizes
    <2> HIDE DEF r
    <2>2. (s + k) % RingSize = r
      BY ONLY <2>1, RemainderUnique, ZenonT(30)
    <2>3. Slot(x + k) = r
      BY <1>2, <2>2
    <2> QED BY <1>1, <1>4, <2>3, Sizes DEF Around, s, r
  <1> QED BY <1>3, <1>4

\* The next packet is put behind what waits.
LEMMA PutPlace ==
  ASSUME IInv, NEW o \in Outs
  PROVE  Slot(prod[o]) = Slot(cons[o] + Waiting(o))
  <1> DEFINE d == prod[o] - cons[o]
             w == d % IndexRange
  <1>1. cons[o] \in Int /\ prod[o] \in Int /\ d \in Int /\ prod[o] = d + cons[o]
    BY HalfStart
  <1>2. Waiting(o) = w
    BY DEF Waiting
  <1> HIDE DEF d
  <1>3. w \in Int
    BY <1>1, Sizes, Division
  <1>4. w % RingSize = d % RingSize
    BY <1>1, Sizes, MaskOfWrapped
  <1> HIDE DEF w
  <1>5. ((w % RingSize) + cons[o]) % RingSize = (w + cons[o]) % RingSize
    BY <1>1, <1>3, Sizes, RemainderPlus
  <1>6. ((d % RingSize) + cons[o]) % RingSize = (d + cons[o]) % RingSize
    BY <1>1, Sizes, RemainderPlus
  <1>7. w + cons[o] = cons[o] + w
    BY <1>1, <1>3
  <1> QED BY <1>1, <1>2, <1>4, <1>5, <1>6, <1>7 DEF Slot

\* A burst is received where the next packet is put, or from the even place
\* after that, and past the end of the ring at its start.
LEMMA ReceiveStart ==
  ASSUME IInv, Idle
  PROVE  /\ Waiting(0) < MAX_PKT_BURST /\ RxStart \in 0 .. (RingSize - 1)
         /\ \/ RxStart >= WaitEnd
            \/ RxStart = 0 /\ Slot(cons[0]) = MAX_PKT_BURST /\ WaitEnd < RingSize
  <1> DEFINE s == Slot(cons[0])
             w == Waiting(0)
  <1>1. /\ 0 \in Outs /\ s \in {0, MAX_PKT_BURST} /\ w \in Nat
        /\ cons[0] \in Int /\ prod[0] \in Int
    BY OutsTypes, HalfStart, Sizes
  <1>2. w < MAX_PKT_BURST
    BY OutsTypes DEF Idle, Between, IInv, RoomLeft, Outs
  <1>3. w \in 0 .. RingSize /\ 1 \in 0 .. RingSize
    BY <1>1, <1>2, Sizes
  <1>4. Slot(prod[0]) = Around(s + w)
    BY <1>1, <1>3, PutPlace, SlotAfter
  <1>5. Slot(prod[0] + 1) = Around(Slot(prod[0]) + 1)
    BY <1>1, <1>3, SlotAfter
  <1>6. RxStart \in {Slot(prod[0]), Slot(prod[0] + 1)}
    BY DEF RxStart
  <1>7. WaitEnd = s + w
    BY DEF WaitEnd
  <1> HIDE DEF s, w
  <1>8. \/ RxStart >= s + w
        \/ RxStart = 0 /\ s = MAX_PKT_BURST /\ s + w < RingSize
    BY <1>1, <1>2, <1>4, <1>5, <1>6, Sizes DEF Around
  <1> QED BY <1>2, <1>7, <1>8, RxStartType DEF IInv, s, w

\* No packet waits there.
LEMMA ReceiveArea ==
  ASSUME IInv, Idle, NEW k \in 0 .. (Waiting(0) - 1)
  PROVE  Slot(cons[0] + k) \notin RxStart .. (RxStart + MAX_PKT_BURST - 1)
  <1> DEFINE s == Slot(cons[0])
             w == Waiting(0)
  <1>1. /\ 0 \in Outs /\ s \in {0, MAX_PKT_BURST} /\ w \in 0 .. (RingSize - 1)
        /\ cons[0] \in Int
    BY OutsTypes, HalfStart
  <1>2. k \in 0 .. RingSize /\ k < w
    BY <1>1, Sizes
  <1>3. Slot(cons[0] + k) = Around(s + k)
    BY <1>1, <1>2, SlotAfter
  <1>4. /\ w < MAX_PKT_BURST /\ RxStart \in Nat
        /\ \/ RxStart >= s + w
           \/ RxStart = 0 /\ s = MAX_PKT_BURST
    BY ReceiveStart, Sizes DEF WaitEnd
  <1> HIDE DEF s, w
  <1>5. Around(s + k) \notin RxStart .. (RxStart + MAX_PKT_BURST - 1)
    BY <1>1, <1>2, <1>4, Sizes DEF Around
  <1> QED BY <1>3, <1>5

-----------------------------------------------------------------------------
(***************************************************************************)
(* The theorems.                                                           *)
(***************************************************************************)

\* The indices, the contents and the position in the burst have their types.
THEOREM TypeCorrect == Spec => []TypeOK
  BY Invariance, PTL DEF IInv

\* A burst that is handed to the driver never wraps, the ring of an output
\* never overflows, and a burst is received where no packet waits.
THEOREM BuffersSafe == Spec => []RingSafe
  <1>1. IInv => RingSafe
    <2> SUFFICES ASSUME IInv PROVE RingSafe
      OBVIOUS
    <2>1. ASSUME NEW o \in Outs
          PROVE  /\ cons[o] % MAX_PKT_BURST = 0
                 /\ Waiting(o) < RingSize
                 /\ Between => Waiting(o) < MAX_PKT_BURST
      <3>1. Waiting(o) + piece < RingSize /\ piece \in Nat /\ Waiting(o) \in Nat
        BY WaitingType DEF IInv, RoomLeft, TypeOK
      <3>2. Waiting(o) < RingSize
        BY <3>1, Sizes
      <3>3. Between => o < i
        BY OutsTypes DEF Between, Outs
      <3> QED BY <3>2, <3>3 DEF IInv, WholeBursts, RoomLeft
    <2>2. ASSUME Idle
          PROVE  WaitingAt(0) \cap (RxStart .. (RxStart + MAX_PKT_BURST - 1)) = {}
      BY <2>2, ReceiveArea DEF WaitingAt
    <2> QED BY <2>1, <2>2 DEF RingSafe
  <1> QED BY <1>1, Invariance, PTL

-----------------------------------------------------------------------------
(***************************************************************************)
(* The burst and the packets that wait.  The ring of output 0 holds both:  *)
(* BurstAhead keeps them apart.                                            *)
(***************************************************************************)
\* The packets that wait and those of the burst lie at different places of
\* the array of output 0.
LEMMA BurstApart ==
  ASSUME IInv, BurstAhead, NEW j \in 0 .. (n - 1), NEW k \in 0 .. (Waiting(0) - 1)
  PROVE  Slot(cons[0] + k) # start + j
  <1> DEFINE s == Slot(cons[0])
             w == Waiting(0)
  <1>1. 0 \in Outs /\ s \in {0, MAX_PKT_BURST} /\ w \in 0 .. (RingSize - 1) /\ cons[0] \in Int
    BY OutsTypes, HalfStart
  <1>2. k \in 0 .. RingSize /\ k < w
    BY <1>1, Sizes
  <1>3. Slot(cons[0] + k) = Around(s + k)
    BY <1>1, <1>2, SlotAfter
  <1>4. n \in Nat /\ n > 0 /\ start \in Nat /\ j \in Nat /\ j < n
    BY DEF IInv, TypeOK
  <1>5. start >= s + w \/ (start + n <= s /\ start >= s + w - RingSize)
    BY <1>1, <1>4, Sizes DEF BurstAhead, WaitEnd
  <1> HIDE DEF s, w
  <1>6. Around(s + k) # start + j
    BY <1>1, <1>2, <1>4, <1>5, Sizes DEF Around
  <1> QED BY <1>3, <1>6

\* No packet waits where the next one is put.
LEMMA PutApart ==
  ASSUME IInv, NEW o \in Outs, NEW k \in 0 .. (Waiting(o) - 1)
  PROVE  Slot(cons[o] + k) # Slot(prod[o])
  <1> DEFINE s == Slot(cons[o])
             w == Waiting(o)
  <1>1. s \in {0, MAX_PKT_BURST} /\ w \in 0 .. (RingSize - 1) /\ cons[o] \in Int
    BY HalfStart
  <1>2. k \in 0 .. RingSize /\ k < w /\ w \in 0 .. RingSize
    BY <1>1, Sizes
  <1>3. Slot(cons[o] + k) = Around(s + k) /\ Slot(prod[o]) = Around(s + w)
    BY <1>1, <1>2, SlotAfter, PutPlace
  <1> HIDE DEF s, w
  <1>4. Around(s + k) # Around(s + w)
    BY <1>1, <1>2, Sizes DEF Around
  <1> QED BY <1>3, <1>4

\* A packet of the burst is put where no later packet of the burst lies.
LEMMA PutBehindBurst ==
  ASSUME IInv, BurstAhead, NEW j \in 1 .. (n - 1)
  PROVE  Slot(prod[0]) # start + j
  <1> DEFINE s == Slot(cons[0])
             w == Waiting(0)
  <1>1. 0 \in Outs /\ s \in {0, MAX_PKT_BURST} /\ w \in 0 .. (RingSize - 1) /\ cons[0] \in Int
    BY OutsTypes, HalfStart
  <1>2. w \in 0 .. RingSize
    BY <1>1, Sizes
  <1>3. Slot(prod[0]) = Around(s + w)
    BY <1>1, <1>2, SlotAfter, PutPlace
  <1>4. n \in Nat /\ n > 0 /\ start \in Nat /\ j \in Nat /\ j < n /\ j > 0
    BY DEF IInv, TypeOK
  <1>5. start >= s + w \/ (start + n <= s /\ start >= s + w - RingSize)
    BY <1>1, <1>4, Sizes DEF BurstAhead, WaitEnd
  <1> HIDE DEF s, w
  <1>6. Around(s + w) # start + j
    BY <1>1, <1>2, <1>4, <1>5, Sizes DEF Around
  <1> QED BY <1>3, <1>6

\* A burst that is sent from a ring ends at a half.
LEMMA SentHalf ==
  ASSUME IInv, NEW o \in Outs
  PROVE  Slot((cons[o] + MAX_PKT_BURST) % IndexRange) = Around(Slot(cons[o]) + MAX_PKT_BURST)
  <1>1. cons[o] \in Int /\ cons[o] + MAX_PKT_BURST \in Int /\ MAX_PKT_BURST \in 0 .. RingSize
    BY HalfStart, Sizes
  <1>2. ((cons[o] + MAX_PKT_BURST) % IndexRange) % RingSize = (cons[o] + MAX_PKT_BURST) % RingSize
    BY <1>1, Sizes, MaskOfWrapped
  <1>3. Slot(cons[o] + MAX_PKT_BURST) = Around(Slot(cons[o]) + MAX_PKT_BURST)
    BY <1>1, SlotAfter
  <1> QED BY <1>2, <1>3 DEF Slot

\* The burst stays ahead of what waits.
LEMMA InitBurstAhead == Init => BurstAhead
  BY DEF Init, BurstAhead

\* The next state, when its first packet waits at place t and v packets wait.
Moved(t, v) ==
  /\ Slot(cons[0])' = t /\ Waiting(0)' = v
  /\ \/ start' >= t + v
     \/ start' + n' <= t /\ start' >= t + v - RingSize

\* Every step keeps them so.
LEMMA NextBurstAhead ==
  ASSUME IInv, BurstAhead, [Next]_vars PROVE BurstAhead'
  <1> DEFINE s == Slot(cons[0])
             w == Waiting(0)
  <1>1. /\ 0 \in Outs /\ s \in {0, MAX_PKT_BURST} /\ w \in 0 .. (RingSize - 1)
        /\ start \in Nat /\ n \in Nat /\ piece \in Nat
    BY OutsTypes, HalfStart DEF IInv, TypeOK
  <1>2. n > 0 => start >= s + w \/ (start + n <= s /\ start >= s + w - RingSize)
    BY <1>1, Sizes DEF BurstAhead, WaitEnd
  <1>3. SUFFICES ASSUME n' > 0
                 PROVE  \E t, v \in Int : Moved(t, v)
    BY Sizes DEF BurstAhead, WaitEnd, Moved
  <1>4. CASE rx_pkt
    <2>1. Slot(cons[0])' = s /\ Waiting(0)' = w /\ start' = RxStart
      BY <1>4 DEF rx_pkt, Waiting
    <2>2. PICK m \in 1 .. MAX_PKT_BURST : n' = m
      <3>1. PICK burst \in Bursts : n' = Len(burst)
        BY <1>4 DEF rx_pkt
      <3>2. PICK m \in 1 .. MAX_PKT_BURST : burst \in [1 .. m -> Packets]
        BY DEF Bursts
      <3> QED BY <3>1, <3>2, Sizes
    <2>3. /\ w < MAX_PKT_BURST /\ RxStart \in Nat
          /\ \/ RxStart >= s + w
             \/ RxStart = 0 /\ s = MAX_PKT_BURST
      BY <1>4, ReceiveStart, Sizes DEF WaitEnd, rx_pkt
    <2> HIDE DEF s, w
    <2>4. RxStart >= s + w \/ (RxStart + n' <= s /\ RxStart >= s + w - RingSize)
      BY <1>1, <2>2, <2>3, Sizes
    <2>5. Moved(s, w)
      BY <2>1, <2>4 DEF Moved
    <2> QED BY <1>1, <2>5, Sizes
  <1>5. ASSUME NEW k \in 1 .. MAX_PKT_BURST, call(k)
        PROVE  \E t, v \in Int : Moved(t, v)
    <2>1. Moved(s, w)
      BY <1>2, <1>3, <1>5 DEF call, Waiting, Moved
    <2> QED BY <1>1, <2>1, Sizes
  <1>6. ASSUME NEW o \in Outs, buf_pkt_single(o)
        PROVE  \E t, v \in Int : Moved(t, v)
    <2>1. start' = start + 1 /\ n' = n - 1 /\ Slot(cons[0])' = s
      BY <1>6 DEF buf_pkt_single, Taken
    <2>2. Waiting(0)' \in {w, w + 1}
      BY <1>1, <1>6, WaitingGrows
    <2> HIDE DEF s, w
    <2>3. Moved(s, Waiting(0)') /\ Waiting(0)' \in Int
      BY <1>1, <1>2, <1>3, <2>1, <2>2, Sizes DEF Moved
    <2> QED BY <1>1, <2>3, Sizes
  <1>7. CASE discard
    <2>1. start' = start + 1 /\ n' = n - 1 /\ Slot(cons[0])' = s /\ Waiting(0)' = w
      BY <1>7 DEF discard, Taken, Waiting
    <2> HIDE DEF s, w
    <2>2. Moved(s, w)
      BY <1>1, <1>2, <1>3, <2>1, Sizes DEF Moved
    <2> QED BY <1>1, <2>2, Sizes
  <1>8. CASE send
    <2>1. UNCHANGED <<prod, start, n>>
      BY <1>8 DEF send
    <2>2. CASE i = 0 /\ Waiting(0) >= MAX_PKT_BURST
      <3>1. cons' = [cons EXCEPT ![0] = (cons[0] + MAX_PKT_BURST) % IndexRange]
        BY <1>8, <2>2 DEF send
      <3>2. Waiting(0)' = w - MAX_PKT_BURST
        BY <1>1, <2>1, <2>2, <3>1, WaitingShrinks
      <3>3. Slot(cons[0])' = Around(s + MAX_PKT_BURST)
        <4>1. cons'[0] = (cons[0] + MAX_PKT_BURST) % IndexRange
          BY <1>1, <3>1 DEF IInv, TypeOK
        <4> QED BY <1>1, <4>1, SentHalf
      <3> HIDE DEF s, w
      <3>4. Moved(Around(s + MAX_PKT_BURST), w - MAX_PKT_BURST)
        BY <1>1, <1>2, <1>3, <2>1, <3>2, <3>3, Sizes DEF Around, Moved
      <3>5. Around(s + MAX_PKT_BURST) \in Int /\ w - MAX_PKT_BURST \in Int
        BY <1>1, Sizes DEF Around
      <3> QED BY <3>4, <3>5
    <2>3. CASE ~ (i = 0 /\ Waiting(0) >= MAX_PKT_BURST)
      <3>1. cons'[0] = cons[0]
        BY <1>1, <1>8, <2>3 DEF send, IInv, TypeOK
      <3>2. Slot(cons[0])' = s /\ Waiting(0)' = w
        BY <2>1, <3>1 DEF Waiting
      <3> HIDE DEF s, w
      <3>3. Moved(s, w)
        BY <1>1, <1>2, <1>3, <2>1, <3>2, Sizes DEF Moved
      <3> QED BY <1>1, <3>3, Sizes
    <2> QED BY <2>2, <2>3
  <1>9. CASE thrpt_opt
    BY <1>3, <1>9 DEF thrpt_opt
  <1>10. CASE lconf_flush_all_queues
    BY <1>3, <1>10 DEF lconf_flush_all_queues, Idle
  <1>11. CASE UNCHANGED vars
    <2>1. Moved(s, w)
      BY <1>2, <1>3, <1>11 DEF vars, task, Waiting, Moved
    <2> QED BY <1>1, <2>1, Sizes
  <1> QED BY <1>4, <1>5, <1>6, <1>7, <1>8, <1>9, <1>10, <1>11 DEF Next, tx_steps

-----------------------------------------------------------------------------
(***************************************************************************)
(* What Queues reads of the rings.                                         *)
(***************************************************************************)
\* A function on 1 .. m is a sequence.
LEMMA FunctionIsSequence ==
  ASSUME NEW S, NEW m \in Nat, NEW f \in [1 .. m -> S]
  PROVE  f \in Seq(S) /\ Len(f) = m
  OBVIOUS

Pointers == Packets \cup {Dead}

\* The places of a ring and of a burst hold pointers.
LEMMA PartIs ==
  ASSUME IInv, NEW o \in Outs, NEW from \in Nat, NEW count \in Nat,
         from + count <= 3 * MAX_PKT_BURST
  PROVE  /\ Part(o, from, count) \in [1 .. count -> Pointers]
         /\ \A k \in 1 .. count : Part(o, from, count)[k] = mbuf[o][from + k - 1]
         /\ Part(o, from, count) \in Seq(Pointers) /\ Len(Part(o, from, count)) = count
  <1>1. mbuf[o] \in [Places -> Pointers]
    BY DEF IInv, TypeOK, Pointers
  <1>2. ASSUME NEW k \in 1 .. count PROVE from + k - 1 \in Places
    BY Sizes DEF Places
  <1>3. Part(o, from, count) \in [1 .. count -> Pointers]
    BY <1>1, <1>2 DEF Part
  <1>4. Part(o, from, count) \in Seq(Pointers) /\ Len(Part(o, from, count)) = count
    BY <1>3, FunctionIsSequence
  <1>5. \A k \in 1 .. count : Part(o, from, count)[k] = mbuf[o][from + k - 1]
    BY DEF Part
  <1> QED BY <1>3, <1>4, <1>5

\* So do the queues.
LEMMA QueueIs ==
  ASSUME IInv, NEW o \in Outs
  PROVE  /\ Queues[o] \in [1 .. Waiting(o) -> Pointers]
         /\ \A k \in 1 .. Waiting(o) : Queues[o][k] = mbuf[o][Slot(cons[o] + k - 1)]
         /\ Queues[o] \in Seq(Pointers) /\ Len(Queues[o]) = Waiting(o) /\ Waiting(o) \in Nat
  <1>1. mbuf[o] \in [Places -> Pointers]
    BY DEF IInv, TypeOK, Pointers
  <1>2. cons[o] \in Int /\ Waiting(o) \in Nat
    BY HalfStart, Sizes
  <1>3. ASSUME NEW k \in 1 .. Waiting(o) PROVE Slot(cons[o] + k - 1) \in Places
    <2>1. cons[o] + k - 1 \in Int
      BY <1>2
    <2> QED BY <2>1, SlotType, Sizes DEF Places
  <1>4. Queues[o] = [k \in 1 .. Waiting(o) |-> mbuf[o][Slot(cons[o] + k - 1)]]
    BY DEF Queues
  <1>5. Queues[o] \in [1 .. Waiting(o) -> Pointers]
    BY <1>1, <1>3, <1>4
  <1>6. Queues[o] \in Seq(Pointers) /\ Len(Queues[o]) = Waiting(o)
    BY <1>2, <1>5, FunctionIsSequence
  <1>7. \A k \in 1 .. Waiting(o) : Queues[o][k] = mbuf[o][Slot(cons[o] + k - 1)]
    BY <1>4
  <1> QED BY <1>2, <1>5, <1>6, <1>7

\* As long as less than a burst waits it does not wrap.
LEMMA BufferedIsQueue ==
  ASSUME IInv, NEW o \in Outs, NEW count \in 0 .. MAX_PKT_BURST
  PROVE  /\ \A k \in 1 .. count : Slot(cons[o] + k - 1) = Slot(cons[o]) + k - 1
         /\ Slot(cons[o]) \in Nat /\ Slot(cons[o]) + count <= RingSize
  <1> DEFINE s == Slot(cons[o])
  <1>1. s \in {0, MAX_PKT_BURST} /\ cons[o] \in Int
    BY HalfStart
  <1>2. ASSUME NEW k \in 1 .. count
        PROVE  Slot(cons[o] + k - 1) = s + k - 1
    <2>1. /\ k - 1 \in 0 .. RingSize /\ s + (k - 1) < RingSize
          /\ cons[o] + k - 1 = cons[o] + (k - 1) /\ s + k - 1 = s + (k - 1)
      BY <1>1, Sizes
    <2>2. Slot(cons[o] + (k - 1)) = Around(s + (k - 1))
      BY <1>1, <2>1, SlotAfter
    <2> QED BY <2>1, <2>2 DEF Around
  <1> QED BY <1>1, <1>2, Sizes

\* The burst is a sequence of n pointers.
LEMMA BurstIs ==
  ASSUME IInv
  PROVE  /\ Part(0, start, n) \in [1 .. n -> Pointers]
         /\ \A k \in 1 .. n : Part(0, start, n)[k] = mbuf[0][start + k - 1]
         /\ Part(0, start, n) \in Seq(Pointers) /\ Len(Part(0, start, n)) = n
         /\ n \in Nat /\ start \in Nat
  <1>1. /\ 0 \in Outs /\ n \in Nat /\ start \in Nat /\ start + n <= 3 * MAX_PKT_BURST
    BY OutsTypes, Sizes DEF IInv, TypeOK, CallProgress
  <1> QED BY <1>1, PartIs

\* Queues whose places keep their packets are the same.
LEMMA QueueKept ==
  ASSUME IInv, NEW o \in Outs, Waiting(o)' = Waiting(o), cons'[o] = cons[o],
         \A k \in 0 .. (Waiting(o) - 1) :
           mbuf'[o][Slot(cons[o] + k)] = mbuf[o][Slot(cons[o] + k)]
  PROVE  Queues'[o] = Queues[o]
  <1>1. cons[o] \in Int /\ Waiting(o) \in Nat
    BY HalfStart, Sizes
  <1>2. Queues'[o] = [k \in 1 .. Waiting(o) |-> mbuf'[o][Slot(cons[o] + k - 1)]]
    BY DEF Queues
  <1>3. ASSUME NEW k \in 1 .. Waiting(o)
        PROVE  mbuf'[o][Slot(cons[o] + k - 1)] = mbuf[o][Slot(cons[o] + k - 1)]
    <2>1. k - 1 \in 0 .. (Waiting(o) - 1) /\ cons[o] + k - 1 = cons[o] + (k - 1)
      BY <1>1
    <2> QED BY <2>1
  <1>4. Queues[o] = [k \in 1 .. Waiting(o) |-> mbuf[o][Slot(cons[o] + k - 1)]]
    BY DEF Queues
  <1> QED BY <1>2, <1>3, <1>4

\* All of them are the same.
LEMMA QueuesKept ==
  ASSUME \A o \in Outs : Queues'[o] = Queues[o]
  PROVE  Queues' = Queues
  <1>1. /\ Queues = [o \in Outs |-> Queues[o]]
        /\ Queues' = [o \in Outs |-> Queues'[o]]
    BY DEF Queues
  <1> QED BY <1>1

-----------------------------------------------------------------------------
(***************************************************************************)
(* One lemma per kind of step: it is the step of TxQueues of that name.    *)
(***************************************************************************)
\* Reception puts a burst where no packet waits.
LEMMA ReceiveRefines ==
  ASSUME IInv, rx_pkt PROVE Abstract!Receive
  <1>1. PICK packets \in Bursts :
          /\ n' = Len(packets) /\ start' = RxStart
          /\ mbuf' = [mbuf EXCEPT ![0] =
               [p \in Places |->
                  IF p \in RxStart .. (RxStart + Len(packets) - 1)
                  THEN packets[p - RxStart + 1] ELSE @[p]]]
    BY DEF rx_pkt
  <1>2. PICK m \in 1 .. MAX_PKT_BURST : packets \in [1 .. m -> Packets]
    BY DEF Bursts
  <1>3. Len(packets) = m /\ m \in Nat
    BY <1>2, Sizes
  <1>4. /\ Idle /\ n = 0 /\ UNCHANGED <<prod, cons>> /\ handed' = Nothing
    BY DEF rx_pkt, Idle
  <1>5. /\ 0 \in Outs /\ RxStart \in 0 .. (RingSize - 1)
        /\ mbuf \in [Outs -> [Places -> Pointers]]
    BY OutsTypes, RxStartType DEF IInv, TypeOK, Pointers
  <1>6. \A p \in Places : mbuf'[0][p] = IF p \in RxStart .. (RxStart + m - 1)
                                        THEN packets[p - RxStart + 1] ELSE mbuf[0][p]
    BY <1>1, <1>3, <1>5
  <1>7. Part(0, start, n)' = packets
    <2>1. Part(0, start, n)' = [k \in 1 .. m |-> mbuf'[0][RxStart + k - 1]]
      BY <1>1, <1>3 DEF Part
    <2>2. ASSUME NEW k \in 1 .. m PROVE mbuf'[0][RxStart + k - 1] = packets[k]
      <3>1. /\ RxStart + k - 1 \in Places
            /\ RxStart + k - 1 \in RxStart .. (RxStart + m - 1)
            /\ (RxStart + k - 1) - RxStart + 1 = k
        BY <1>2, <1>3, <1>5, Sizes DEF Places
      <3> QED BY <1>6, <3>1
    <2> QED BY <1>2, <2>1, <2>2
  <1>8. packets \in Abstract!BoundedSeq(Packets, MAX_PKT_BURST)
    BY <1>2, Sizes DEF Abstract!BoundedSeq, Abstract!SeqOf
  <1>9. Queues' = Queues
    <2> SUFFICES ASSUME NEW o \in Outs PROVE Queues'[o] = Queues[o]
      BY QueuesKept
    <2>1. Waiting(o)' = Waiting(o) /\ cons'[o] = cons[o]
      BY <1>4 DEF Waiting
    <2>2. ASSUME NEW k \in 0 .. (Waiting(o) - 1)
          PROVE  mbuf'[o][Slot(cons[o] + k)] = mbuf[o][Slot(cons[o] + k)]
      <3>1. CASE o = 0
        <4>1. Slot(cons[0] + k) \notin RxStart .. (RxStart + MAX_PKT_BURST - 1)
          BY <1>4, <3>1, ReceiveArea
        <4>2. cons[o] + k \in Int
          BY HalfStart, WaitingType, Sizes DEF IInv
        <4>3. Slot(cons[0] + k) \in Places
          BY <3>1, <4>2, SlotType, Sizes DEF Places
        <4>4. Slot(cons[0] + k) \notin RxStart .. (RxStart + m - 1)
          BY <1>2, <1>5, <4>1, Sizes
        <4> QED BY <1>6, <3>1, <4>3, <4>4
      <3>2. CASE o # 0
        BY <1>1, <3>2
      <3> QED BY <3>1, <3>2
    <2> QED BY <2>1, <2>2, QueueKept
  <1>10. Part(0, start, n) = <<>>
    BY <1>4, BurstIs
  <1> QED BY <1>4, <1>7, <1>8, <1>9, <1>10 DEF Abstract!Receive, Abstract!Nothing, Nothing

\* A burst without its first packet.
LEMMA BurstTail ==
  ASSUME IInv, n > 0, start' = start + 1, n' = n - 1,
         \A j \in 1 .. (n - 1) : mbuf'[0][start + j] = mbuf[0][start + j]
  PROVE  /\ Part(0, start, n) # <<>>
         /\ Part(0, start, n)' = Tail(Part(0, start, n))
         /\ Head(Part(0, start, n)) = mbuf[0][start]
  <1> DEFINE b == Part(0, start, n)
  <1>1. /\ b \in Seq(Pointers) /\ Len(b) = n /\ n \in Nat /\ start \in Nat
        /\ \A k \in 1 .. n : b[k] = mbuf[0][start + k - 1]
    BY BurstIs
  <1>2. b # <<>>
    BY <1>1
  <1>3. /\ Tail(b) \in Seq(Pointers) /\ Len(Tail(b)) = n - 1
        /\ \A k \in 1 .. (n - 1) : Tail(b)[k] = b[k + 1]
    BY <1>1, <1>2, HeadTailProperties
  <1>4. Part(0, start, n)' = [k \in 1 .. (n - 1) |-> mbuf'[0][start + 1 + k - 1]]
    BY DEF Part
  <1>5. ASSUME NEW k \in 1 .. (n - 1)
        PROVE  mbuf'[0][start + 1 + k - 1] = Tail(b)[k]
    <2>1. k + 1 \in 1 .. n /\ start + 1 + k - 1 = start + k /\ start + (k + 1) - 1 = start + k
      BY <1>1
    <2>2. b[k + 1] = mbuf[0][start + k]
      BY <1>1, <2>1
    <2>3. Tail(b)[k] = b[k + 1]
      BY <1>3
    <2> QED BY <2>1, <2>2, <2>3
  <1>6. Tail(b) = [k \in 1 .. (n - 1) |-> Tail(b)[k]]
    <2>1. Tail(b) \in [1 .. (n - 1) -> Pointers]
      BY <1>3, LenProperties
    <2> QED BY <2>1
  <1>7. Head(b) = mbuf[0][start]
    <2>1. Head(b) = b[1] /\ start + 1 - 1 = start /\ 1 \in 1 .. n
      BY <1>1, <1>2
    <2> QED BY <1>1, <2>1
  <1> QED BY <1>2, <1>4, <1>5, <1>6, <1>7

\* A packet put behind those of its queue.
LEMMA PutRefines ==
  ASSUME IInv, BurstAhead, NEW o \in Outs, buf_pkt_single(o) PROVE Abstract!Put(o)
  <1>1. /\ piece > 0 /\ start' = start + 1 /\ n' = n - 1
        /\ UNCHANGED cons /\ handed' = Nothing
        /\ mbuf' = LET taken == [mbuf EXCEPT ![0][start] = Dead]
                   IN  [taken EXCEPT ![o][Slot(prod[o])] = mbuf[0][start]]
    BY DEF buf_pkt_single, Taken
  <1>2. /\ n > 0 /\ n \in Nat /\ start \in Places /\ 0 \in Outs /\ start \in Nat
        /\ prod[o] \in Int /\ Slot(prod[o]) \in Places
        /\ mbuf \in [Outs -> [Places -> Pointers]]
    <2>1. prod[o] \in Int
      BY HalfStart
    <2>2. Slot(prod[o]) \in Places
      BY <2>1, SlotType, Sizes DEF Places
    <2> QED BY <1>1, <2>1, <2>2, OutsTypes, Sizes
            DEF IInv, TypeOK, CallProgress, Places, Pointers
  <1>3. /\ mbuf'[o][Slot(prod[o])] = mbuf[0][start]
        /\ \A u \in Outs : \A p \in Places :
             ~ (u = 0 /\ p = start) /\ ~ (u = o /\ p = Slot(prod[o])) =>
               mbuf'[u][p] = mbuf[u][p]
    <2> DEFINE taken == [mbuf EXCEPT ![0][start] = Dead]
    <2>1. /\ taken \in [Outs -> [Places -> Pointers]]
          /\ \A u \in Outs : \A p \in Places : ~ (u = 0 /\ p = start) => taken[u][p] = mbuf[u][p]
      BY <1>2 DEF Pointers
    <2>2. mbuf' = [taken EXCEPT ![o][Slot(prod[o])] = mbuf[0][start]]
      BY <1>1
    <2> HIDE DEF taken
    <2> QED BY <1>2, <2>1, <2>2
  <1>4. ASSUME NEW j \in 1 .. (n - 1)
        PROVE  mbuf'[0][start + j] = mbuf[0][start + j]
    <2>1. start + j \in Places /\ start + j # start
      BY <1>2, Sizes DEF IInv, CallProgress, Places
    <2>2. o = 0 => start + j # Slot(prod[o])
      BY PutBehindBurst
    <2> QED BY <1>2, <1>3, <2>1, <2>2
  <1>5. /\ Part(0, start, n) # <<>>
        /\ Part(0, start, n)' = Tail(Part(0, start, n))
        /\ Head(Part(0, start, n)) = mbuf[0][start]
    BY <1>1, <1>2, <1>4, BurstTail
  <1>6. ASSUME NEW u \in Outs, NEW k \in 0 .. (Waiting(u) - 1)
        PROVE  mbuf'[u][Slot(cons[u] + k)] = mbuf[u][Slot(cons[u] + k)]
    <2>1. Slot(cons[u] + k) \in Places
      <3>1. cons[u] + k \in Int
        BY HalfStart, WaitingType, Sizes DEF IInv
      <3> QED BY <3>1, SlotType, Sizes DEF Places
    <2>2. u = 0 => Slot(cons[u] + k) # start
      <3>1. 0 \in 0 .. (n - 1) /\ start + 0 = start
        BY <1>2
      <3> QED BY <3>1, BurstApart
    <2>3. u = o => Slot(cons[u] + k) # Slot(prod[o])
      BY PutApart
    <2> QED BY <1>3, <2>1, <2>2, <2>3
  <1>7. ASSUME NEW u \in Outs, u # o PROVE Queues'[u] = Queues[u]
    <2>1. Waiting(u)' = Waiting(u)
      BY <1>7, WaitingGrows
    <2> QED BY <1>1, <1>6, <2>1, QueueKept
  <1>8. Queues'[o] = Append(Queues[o], mbuf[0][start])
    <2> DEFINE q == Queues[o]
               w == Waiting(o)
               e == mbuf[0][start]
    <2>1. /\ q \in Seq(Pointers) /\ Len(q) = w /\ w \in Nat /\ e \in Pointers
          /\ \A k \in 1 .. w : q[k] = mbuf[o][Slot(cons[o] + k - 1)]
      BY <1>2, QueueIs
    <2>2. /\ Append(q, e) \in Seq(Pointers) /\ Len(Append(q, e)) = w + 1
          /\ \A k \in 1 .. w : Append(q, e)[k] = q[k]
          /\ Append(q, e)[w + 1] = e
      BY <2>1, AppendProperties
    <2>3. Append(q, e) = [k \in 1 .. (w + 1) |-> Append(q, e)[k]]
      BY <2>2
    <2>4. Waiting(o)' = w + 1
      BY WaitingGrows
    <2>5. Queues'[o] = [k \in 1 .. (w + 1) |-> mbuf'[o][Slot(cons[o] + k - 1)]]
      BY <1>1, <2>4 DEF Queues
    <2>6. ASSUME NEW k \in 1 .. (w + 1)
          PROVE  mbuf'[o][Slot(cons[o] + k - 1)] = Append(q, e)[k]
      <3>1. CASE k = w + 1
        <4>1. cons[o] + k - 1 = cons[o] + w
          BY <2>1, <3>1, HalfStart
        <4>2. Slot(cons[o] + k - 1) = Slot(prod[o])
          BY <4>1, PutPlace
        <4> QED BY <1>3, <2>2, <3>1, <4>2
      <3>2. CASE k # w + 1
        <4>1. /\ k \in 1 .. w /\ k - 1 \in 0 .. (w - 1)
              /\ cons[o] + k - 1 = cons[o] + (k - 1)
          BY <2>1, <3>2, HalfStart
        <4>2. mbuf'[o][Slot(cons[o] + (k - 1))] = mbuf[o][Slot(cons[o] + (k - 1))]
          BY <1>6, <4>1
        <4> QED BY <2>1, <2>2, <4>1, <4>2
      <3> QED BY <3>1, <3>2
    <2> HIDE DEF q, e
    <2>7. Queues'[o] = Append(q, e)
      BY <2>3, <2>5, <2>6
    <2> QED BY <2>7 DEF q, e
  <1>9. Queues' = [Queues EXCEPT ![o] = Append(Queues[o], Head(Part(0, start, n)))]
    <2>1. /\ Queues = [u \in Outs |-> Queues[u]]
          /\ Queues' = [u \in Outs |-> Queues'[u]]
      BY DEF Queues
    <2> QED BY <1>5, <1>7, <1>8, <2>1
  <1> QED BY <1>1, <1>5, <1>9 DEF Abstract!Put, Abstract!Nothing, Nothing

\* A packet that is freed.
LEMMA DropRefines ==
  ASSUME IInv, BurstAhead, discard PROVE Abstract!Drop
  <1>1. /\ piece > 0 /\ start' = start + 1 /\ n' = n - 1
        /\ UNCHANGED <<cons, prod>> /\ handed' = Nothing
        /\ mbuf' = [mbuf EXCEPT ![0][start] = Dead]
    BY DEF discard, Taken
  <1>2. /\ n > 0 /\ n \in Nat /\ start \in Places /\ 0 \in Outs /\ start \in Nat
        /\ mbuf \in [Outs -> [Places -> Pointers]]
    BY <1>1, OutsTypes, Sizes DEF IInv, TypeOK, CallProgress, Places, Pointers
  <1>3. \A u \in Outs : \A p \in Places : ~ (u = 0 /\ p = start) => mbuf'[u][p] = mbuf[u][p]
    BY <1>1, <1>2
  <1>4. ASSUME NEW j \in 1 .. (n - 1)
        PROVE  mbuf'[0][start + j] = mbuf[0][start + j]
    <2>1. start + j \in Places /\ start + j # start
      BY <1>2, Sizes DEF IInv, CallProgress, Places
    <2> QED BY <1>2, <1>3, <2>1
  <1>5. /\ Part(0, start, n) # <<>>
        /\ Part(0, start, n)' = Tail(Part(0, start, n))
    BY <1>1, <1>2, <1>4, BurstTail
  <1>6. ASSUME NEW u \in Outs PROVE Queues'[u] = Queues[u]
    <2>1. Waiting(u)' = Waiting(u) /\ cons'[u] = cons[u]
      BY <1>1 DEF Waiting
    <2>2. ASSUME NEW k \in 0 .. (Waiting(u) - 1)
          PROVE  mbuf'[u][Slot(cons[u] + k)] = mbuf[u][Slot(cons[u] + k)]
      <3>1. Slot(cons[u] + k) \in Places
        <4>1. cons[u] + k \in Int
          BY HalfStart, WaitingType, Sizes DEF IInv
        <4> QED BY <4>1, SlotType, Sizes DEF Places
      <3>2. u = 0 => Slot(cons[u] + k) # start
        <4>1. 0 \in 0 .. (n - 1) /\ start + 0 = start
          BY <1>2
        <4> QED BY <4>1, BurstApart
      <3> QED BY <1>3, <3>1, <3>2
    <2> QED BY <2>1, <2>2, QueueKept
  <1>7. Queues' = Queues
    BY <1>6, QueuesKept
  <1> QED BY <1>1, <1>5, <1>7 DEF Abstract!Drop, Abstract!Nothing, Nothing

\* A part of a sequence.
LEMMA SubSeqIs ==
  ASSUME NEW S, NEW m \in Nat, NEW f \in Seq(S), Len(f) = m,
         NEW a \in 1 .. (m + 1), NEW b \in 0 .. m
  PROVE  SubSeq(f, a, b) = [k \in 1 .. (b - a + 1) |-> f[a + k - 1]]
  OBVIOUS

\* A burst that leaves its queue.
LEMMA SendRefines ==
  ASSUME IInv, BurstAhead, send, i \in Outs, Waiting(i) >= MAX_PKT_BURST
  PROVE  Abstract!Send(i)
  <1>1. PICK o \in Outs : o = i
    OBVIOUS
  <1> DEFINE q == Queues[o]
             w == Waiting(o)
             s == Slot(cons[o])
             M == MAX_PKT_BURST
  <1>2. /\ UNCHANGED <<prod, start, n>>
        /\ cons' = [cons EXCEPT ![o] = (cons[o] + MAX_PKT_BURST) % IndexRange]
        /\ handed' = [Nothing EXCEPT ![o] = Part(o, s, M)]
        /\ mbuf' = [mbuf EXCEPT ![o] = Kill(mbuf[o], s, M)]
    BY <1>1 DEF send
  <1>3. /\ q \in Seq(Pointers) /\ Len(q) = w /\ w \in Nat /\ w >= M /\ w < RingSize
        /\ q \in [1 .. w -> Pointers]
        /\ \A k \in 1 .. w : q[k] = mbuf[o][Slot(cons[o] + k - 1)]
        /\ M \in Nat \ {0} /\ s \in {0, M} /\ cons[o] \in Int /\ RingSize = 2 * M
        /\ mbuf \in [Outs -> [Places -> Pointers]]
    <2>1. w >= M
      BY <1>1
    <2>2. w < RingSize /\ s \in {0, M} /\ cons[o] \in Int
      BY HalfStart, Sizes
    <2>3. M \in Nat \ {0} /\ RingSize = 2 * M
      BY Sizes
    <2>4. mbuf \in [Outs -> [Places -> Pointers]]
      BY DEF IInv, TypeOK, Pointers
    <2> QED BY <2>1, <2>2, <2>3, <2>4, QueueIs
  <1>4. Part(o, s, M) = SubSeq(q, 1, M)
    <2>1. Part(o, s, M) = [k \in 1 .. M |-> mbuf[o][s + k - 1]]
      BY DEF Part
    <2>2. \A k \in 1 .. M : Slot(cons[o] + k - 1) = s + k - 1
      BY <1>3, BufferedIsQueue
    <2>3. SubSeq(q, 1, M) = [k \in 1 .. M |-> q[k]]
      <3> HIDE DEF q, w, s
      <3>1. 1 \in 1 .. (w + 1) /\ M \in 0 .. w
        BY <1>3
      <3>2. SubSeq(q, 1, M) = [k \in 1 .. (M - 1 + 1) |-> q[1 + k - 1]]
        BY <1>3, <3>1, SubSeqIs
      <3>3. M - 1 + 1 = M /\ \A k \in 1 .. M : 1 + k - 1 = k
        BY <1>3
      <3> QED BY <3>2, <3>3
    <2>4. ASSUME NEW k \in 1 .. M PROVE q[k] = mbuf[o][s + k - 1]
      <3>1. k \in 1 .. w
        <4> HIDE DEF w, q, s
        <4> QED BY <1>3
      <3> QED BY <1>3, <2>2, <3>1
    <2> QED BY <2>1, <2>3, <2>4
  <1>5. /\ Waiting(o)' = w - M
        /\ \A u \in Outs : u # o => Waiting(u)' = Waiting(u)
    BY <1>1, <1>2, WaitingShrinks
  <1>6. \A u \in Outs : \A p \in Places :
          ~ (u = o /\ p \in s .. (s + M - 1)) => mbuf'[u][p] = mbuf[u][p]
    BY <1>2, <1>3 DEF Kill
  <1>7. cons'[o] = (cons[o] + M) % IndexRange
    BY <1>2 DEF IInv, TypeOK
  <1>8. ASSUME NEW k \in 0 .. (w - M - 1)
        PROVE  mbuf'[o][Slot(cons'[o] + k)] = mbuf[o][Slot(cons[o] + M + k)]
    <2> DEFINE c == (cons[o] + M) % IndexRange
               t == Around(s + M)
    <2>1. cons[o] + M \in Int /\ IndexRange \in Nat \ {0}
      BY <1>3, Sizes
    <2>2. c \in Int
      BY <2>1, Division
    <2>3. Slot(c) = t
      BY SentHalf
    <2>4. /\ k \in 0 .. RingSize /\ M + k \in 0 .. RingSize
          /\ cons[o] + M + k = cons[o] + (M + k)
      <3> HIDE DEF q, w, s, c, t
      <3> QED BY <1>3
    <2>5. /\ c \in Int /\ Slot(c) = t /\ k \in 0 .. RingSize /\ M + k \in 0 .. RingSize
          /\ cons[o] + M + k = cons[o] + (M + k)
      BY <2>2, <2>3, <2>4
    <2>6. Slot(c + k) = Around(t + k)
      BY <2>5, SlotAfter
    <2>7. Slot(cons[o] + (M + k)) = Around(s + (M + k))
      BY <1>3, <2>5, SlotAfter
    <2> HIDE DEF c, s, w, q
    <2>8. /\ Around(t + k) = Around(s + (M + k)) /\ Around(t + k) \in Places
          /\ Around(t + k) \notin s .. (s + M - 1)
      BY <1>3, Sizes DEF Around, Places
    <2>9. Slot(cons'[o] + k) = Around(t + k)
      BY <1>7, <2>6 DEF c
    <2> QED BY <1>6, <2>5, <2>7, <2>8, <2>9
  <1>9. Queues'[o] = SubSeq(q, M + 1, w)
    <2>1. Queues'[o] = [k \in 1 .. (w - M) |-> mbuf'[o][Slot(cons'[o] + k - 1)]]
      BY <1>5 DEF Queues
    <2>2. SubSeq(q, M + 1, w) = [k \in 1 .. (w - M) |-> q[M + k]]
      <3> HIDE DEF q, w, s
      <3>0. M + 1 \in 1 .. (w + 1) /\ w \in 0 .. w
        BY <1>3
      <3> DEFINE a == M + 1
      <3>4. a \in 1 .. (w + 1)
        BY <3>0
      <3> HIDE DEF a
      <3>5. SubSeq(q, a, w) = [k \in 1 .. (w - a + 1) |-> q[a + k - 1]]
        <4>1. q \in Seq(Pointers) /\ Len(q) = w /\ w \in Nat /\ w \in 0 .. w
          BY <1>3, <3>0
        <4> QED BY ONLY <3>4, <4>1
      <3>1. SubSeq(q, M + 1, w) = [k \in 1 .. (w - (M + 1) + 1) |-> q[M + 1 + k - 1]]
        BY ONLY <3>5 DEF a
      <3>2. w - (M + 1) + 1 = w - M /\ \A k \in 1 .. (w - M) : M + 1 + k - 1 = M + k
        BY <1>3
      <3> QED BY <3>1, <3>2
    <2>3. ASSUME NEW k \in 1 .. (w - M)
          PROVE  mbuf'[o][Slot(cons'[o] + k - 1)] = q[M + k]
      <3>1. /\ k - 1 \in 0 .. (w - M - 1) /\ M + k \in 1 .. w
            /\ cons[o] + M + (k - 1) = cons[o] + (M + k) - 1
        BY <1>3
      <3>2. cons'[o] \in Int
        <4>1. cons[o] + M \in Int /\ IndexRange \in Nat \ {0}
          BY <1>3, Sizes
        <4> QED BY <1>7, <4>1, Division
      <3>3. cons'[o] + k - 1 = cons'[o] + (k - 1)
        BY <3>2
      <3>4. mbuf'[o][Slot(cons'[o] + (k - 1))] = mbuf[o][Slot(cons[o] + M + (k - 1))]
        BY <1>8, <3>1
      <3>5. q[M + k] = mbuf[o][Slot(cons[o] + (M + k) - 1)]
        BY <1>3, <3>1
      <3> QED BY <3>1, <3>3, <3>4, <3>5
    <2> QED BY <2>1, <2>2, <2>3
  <1>10. ASSUME NEW u \in Outs, u # o PROVE Queues'[u] = Queues[u]
    <2>1. Waiting(u)' = Waiting(u) /\ cons'[u] = cons[u]
      BY <1>2, <1>5, <1>10 DEF IInv, TypeOK
    <2>2. mbuf'[u] = mbuf[u]
      BY <1>2, <1>10
    <2> QED BY <2>1, <2>2, QueueKept
  <1>11. Queues' = [Queues EXCEPT ![o] = SubSeq(q, M + 1, w)]
    <2>1. /\ Queues = [u \in Outs |-> Queues[u]]
          /\ Queues' = [u \in Outs |-> Queues'[u]]
      BY DEF Queues
    <2> QED BY <1>9, <1>10, <2>1
  <1>12. Len(Queues'[o]) < M
    <2>1. Len(SubSeq(q, M + 1, w)) = w - M
      <3> HIDE DEF q, w, s
      <3> QED BY <1>3
    <2> QED BY <1>3, <1>9, <2>1
  <1>13. UNCHANGED Part(0, start, n)
    <2>1. Part(0, start, n)' = [k \in 1 .. n |-> mbuf'[0][start + k - 1]]
      BY <1>2 DEF Part
    <2>2. ASSUME NEW k \in 1 .. n
          PROVE  mbuf'[0][start + k - 1] = mbuf[0][start + k - 1]
      <3>1. /\ 0 \in Outs /\ k - 1 \in 0 .. (n - 1)
            /\ start + k - 1 \in Places /\ start + k - 1 = start + (k - 1)
        BY OutsTypes, Sizes DEF IInv, TypeOK, CallProgress, Places
      <3>2. o = 0 => start + k - 1 \notin s .. (s + M - 1)
        <4> SUFFICES ASSUME o = 0, NEW p \in s .. (s + M - 1) PROVE start + (k - 1) # p
          BY <3>1
        <4>0. w = Waiting(0) /\ cons[o] = cons[0]
          OBVIOUS
        <4>1. /\ p - s \in 0 .. (w - 1) /\ p - s + 1 \in 1 .. M
              /\ cons[0] + (p - s + 1) - 1 = cons[0] + (p - s) /\ s + (p - s + 1) - 1 = p
          <5> HIDE DEF q, w, s
          <5> QED BY <1>3, <4>0
        <4>2. Slot(cons[0] + (p - s)) = p
          <5>1. \A x \in 1 .. M : Slot(cons[0] + x - 1) = s + x - 1
            BY <1>3, BufferedIsQueue
          <5> QED BY <4>0, <4>1, <5>1
        <4> QED BY <3>1, <4>0, <4>1, <4>2, BurstApart
      <3> QED BY <1>6, <3>1, <3>2
    <2>3. Part(0, start, n) = [k \in 1 .. n |-> mbuf[0][start + k - 1]]
      BY DEF Part
    <2> QED BY <2>1, <2>2, <2>3
  <1> QED BY <1>1, <1>2, <1>3, <1>4, <1>11, <1>12, <1>13
        DEF Abstract!Send, Abstract!Nothing, Nothing

\* Nothing waits where the counters agree.
LEMMA EmptyQueue ==
  ASSUME NEW o \in Outs
  PROVE  /\ prod[o] = cons[o] /\ cons[o] \in Int => Waiting(o) = 0
         /\ Waiting(o) = 0 => Queues[o] = <<>>
  BY NothingWaits DEF Waiting, Queues

\* What waits between two calls is a plain part of the ring.
LEMMA BufferedIs ==
  ASSUME IInv, Between, NEW o \in Outs PROVE Buffered(o) = Queues[o]
  <1> DEFINE w == Waiting(o)
             s == Slot(cons[o])
  <1>1. w \in 0 .. MAX_PKT_BURST
    <2>1. w \in Nat
      BY HalfStart
    <2>2. o < i
      BY OutsTypes DEF Between, Outs
    <2>3. w < MAX_PKT_BURST
      BY <2>2 DEF IInv, RoomLeft
    <2> QED BY <2>1, <2>3, Sizes
  <1>2. \A k \in 1 .. w : Slot(cons[o] + k - 1) = s + k - 1
    BY <1>1, BufferedIsQueue
  <1>3. Buffered(o) = [k \in 1 .. w |-> mbuf[o][s + k - 1]]
    BY DEF Buffered, Part
  <1>4. Queues[o] = [k \in 1 .. w |-> mbuf[o][Slot(cons[o] + k - 1)]]
    BY DEF Queues
  <1> HIDE DEF w, s
  <1> QED BY <1>2, <1>3, <1>4

\* A burst that is sent from where it was received.
LEMMA PassRefines ==
  ASSUME IInv, thrpt_opt PROVE Abstract!Pass(0)
  <1>1. /\ Between /\ n = MAX_PKT_BURST /\ n' = 0
        /\ handed' = [Nothing EXCEPT ![0] = Buffered(0) \o Part(0, start, n)]
        /\ mbuf' = [mbuf EXCEPT ![0] =
             Kill(Kill(mbuf[0], Slot(cons[0]), Waiting(0)), start, n)]
        /\ IF Waiting(0) > 0
           THEN prod' = [prod EXCEPT ![0] = 0] /\ cons' = [cons EXCEPT ![0] = 0]
           ELSE UNCHANGED <<prod, cons>>
    BY DEF thrpt_opt
  <1>2. Buffered(0) = Queues[0] /\ 0 \in Outs
    BY <1>1, OutsTypes, BufferedIs
  <1>3. Len(Part(0, start, n)) = MAX_PKT_BURST
    BY <1>1, BurstIs
  <1>4. Part(0, start, n)' = <<>>
    BY <1>1 DEF Part
  <1>5. Queues'[0] = <<>>
    <2>1. CASE Waiting(0) > 0
      <3>1. prod'[0] = 0 /\ cons'[0] = 0
        BY <1>1, <1>2, <2>1 DEF IInv, TypeOK
      <3>2. Waiting(0)' = 0
        <4>1. (0 - 0) % IndexRange = 0
          BY NothingWaits
        <4> QED BY <3>1, <4>1 DEF Waiting
      <3> QED BY <1>2, <3>2 DEF Queues
    <2>2. CASE ~ (Waiting(0) > 0)
      <3>1. Waiting(0)' = 0
        <4>1. Waiting(0) \in Nat
          BY <1>2, HalfStart
        <4>2. Waiting(0)' = Waiting(0)
          BY <1>1, <2>2 DEF Waiting
        <4> QED BY <2>2, <4>1, <4>2
      <3> QED BY <1>2, <3>1 DEF Queues
    <2> QED BY <2>1, <2>2
  <1>6. ASSUME NEW u \in Outs, u # 0 PROVE Queues'[u] = Queues[u]
    <2>1. prod'[u] = prod[u] /\ cons'[u] = cons[u] /\ mbuf'[u] = mbuf[u]
      BY <1>1, <1>6 DEF IInv, TypeOK
    <2>2. Waiting(u)' = Waiting(u)
      BY <2>1 DEF Waiting
    <2> QED BY <2>1, <2>2, QueueKept
  <1>7. Queues' = [Queues EXCEPT ![0] = <<>>]
    <2>1. /\ Queues = [u \in Outs |-> Queues[u]]
          /\ Queues' = [u \in Outs |-> Queues'[u]]
      BY DEF Queues
    <2> QED BY <1>5, <1>6, <2>1
  <1> QED BY <1>1, <1>2, <1>3, <1>4, <1>7 DEF Abstract!Pass, Abstract!Nothing, Nothing

\* All queues are flushed, or the task is marked.
LEMMA FlushRefines ==
  ASSUME IInv, lconf_flush_all_queues PROVE Abstract!Flush \/ Abstract!Quiet
  <1>1. /\ Between /\ n = 0 /\ n' = 0
    BY DEF lconf_flush_all_queues, Idle
  <1>2. Part(0, start, n) = <<>> /\ Part(0, start, n)' = <<>>
    BY <1>1 DEF Part
  <1>3. CASE tx_flush
    <2>1. /\ prod' = Emptied(prod) /\ cons' = Emptied(cons)
          /\ handed' = [o \in Outs |-> IF Flushed(o) THEN Buffered(o) ELSE <<>>]
      BY <1>3 DEF lconf_flush_all_queues
    <2>2. ASSUME NEW o \in Outs PROVE handed'[o] = Queues[o] /\ Queues'[o] = <<>>
      <3>1. cons[o] \in Int /\ prod[o] \in Int
        BY HalfStart
      <3>2. CASE Flushed(o)
        <4>1. prod'[o] = 0 /\ cons'[o] = 0 /\ (0 - 0) % IndexRange = 0
          BY <2>1, <3>2, NothingWaits DEF Emptied
        <4>2. Waiting(o)' = 0
          BY <4>1 DEF Waiting
        <4>3. Queues'[o] = <<>>
          BY <4>2 DEF Queues
        <4> QED BY <1>1, <2>1, <3>2, <4>3, BufferedIs
      <3>3. CASE ~ Flushed(o)
        <4>1. prod'[o] = cons[o] /\ cons'[o] = cons[o] /\ prod[o] = cons[o]
          BY <2>1, <3>3 DEF Emptied, Flushed
        <4>2. Waiting(o)' = 0 /\ Waiting(o) = 0
          BY <3>1, <4>1, NothingWaits DEF Waiting
        <4>3. Queues'[o] = <<>> /\ Queues[o] = <<>>
          BY <4>2 DEF Queues
        <4> QED BY <2>1, <3>3, <4>3
      <3> QED BY <3>2, <3>3
    <2>3. /\ Queues = [o \in Outs |-> Queues[o]] /\ Queues' = [o \in Outs |-> Queues'[o]]
          /\ handed' = [o \in Outs |-> handed'[o]]
      BY <2>1 DEF Queues
    <2>4. handed' = Queues /\ Queues' = Nothing
      BY <2>2, <2>3 DEF Nothing
    <2> QED BY <1>2, <2>4 DEF Abstract!Flush, Abstract!Nothing, Nothing
  <1>4. CASE ~ tx_flush
    <2>1. handed' = Nothing /\ UNCHANGED <<prod, cons, mbuf>>
      BY <1>4 DEF lconf_flush_all_queues
    <2>2. Queues' = Queues
      BY <2>1 DEF Queues, Waiting
    <2> QED BY <1>2, <2>1, <2>2 DEF Abstract!Quiet, Abstract!Nothing, Nothing
  <1> QED BY <1>3, <1>4

\* A step that moves no packet.
LEMMA QuietRefines ==
  ASSUME UNCHANGED <<prod, cons, mbuf, start, n>>
  PROVE  UNCHANGED <<Part(0, start, n), Queues>>
  BY DEF Part, Queues, Waiting

\* Every step of the buffers is a step of the queues or none.
LEMMA StepRefines ==
  ASSUME IInv, BurstAhead, [Next]_vars
  PROVE  [Abstract!Next]_<<Part(0, start, n), Queues, handed>>
  <1>1. CASE rx_pkt
    BY <1>1, ReceiveRefines DEF Abstract!Next
  <1>2. ASSUME NEW k \in 1 .. MAX_PKT_BURST, call(k)
        PROVE  Abstract!Next
    <2>1. handed' = Nothing /\ UNCHANGED <<prod, cons, mbuf, start, n>>
      BY <1>2 DEF call
    <2> QED BY <2>1, QuietRefines
            DEF Abstract!Next, Abstract!Quiet, Abstract!Nothing, Nothing
  <1>3. ASSUME NEW o \in Outs, buf_pkt_single(o)
        PROVE  Abstract!Next
    BY <1>3, PutRefines DEF Abstract!Next
  <1>4. CASE discard
    BY <1>4, DropRefines DEF Abstract!Next
  <1>5. CASE send
    <2>1. i \in Outs
      BY <1>5, TxBufferAssumption DEF send, IInv, TypeOK, Outs
    <2>2. CASE Waiting(i) >= MAX_PKT_BURST
      BY <1>5, <2>1, <2>2, SendRefines DEF Abstract!Next
    <2>3. CASE ~ (Waiting(i) >= MAX_PKT_BURST)
      <3>1. handed' = Nothing /\ UNCHANGED <<prod, cons, mbuf, start, n>>
        BY <1>5, <2>3 DEF send
      <3> QED BY <3>1, QuietRefines
              DEF Abstract!Next, Abstract!Quiet, Abstract!Nothing, Nothing
    <2> QED BY <2>2, <2>3
  <1>6. CASE thrpt_opt
    BY <1>6, OutsTypes, PassRefines DEF Abstract!Next
  <1>7. CASE lconf_flush_all_queues
    BY <1>7, FlushRefines DEF Abstract!Next
  <1>8. CASE UNCHANGED vars
    BY <1>8, QuietRefines DEF vars, task
  <1> QED BY <1>1, <1>2, <1>3, <1>4, <1>5, <1>6, <1>7, <1>8 DEF Next, tx_steps

\* The rings, whose counters and places wrap, the burst that is received into
\* one of them and the flushing implement first-in first-out queues that lose,
\* repeat and misdirect no packet.
THEOREM TxQueuesImplemented == Spec => ImplementsTxQueues
  <1>1. Init => Abstract!Init
    <2> SUFFICES ASSUME Init PROVE Abstract!Init
      OBVIOUS
    <2>1. n = 0 /\ handed = Nothing /\ \A o \in Outs : prod[o] = 0 /\ cons[o] = 0
      BY DEF Init
    <2>2. ASSUME NEW o \in Outs PROVE Waiting(o) = 0
      <3>1. (0 - 0) % IndexRange = 0
        BY NothingWaits
      <3> QED BY <2>1, <3>1 DEF Waiting
    <2>3. Queues = Nothing
      BY <2>2 DEF Queues, Nothing
    <2>4. Part(0, start, n) = <<>>
      BY <2>1 DEF Part
    <2> QED BY <2>1, <2>3, <2>4 DEF Abstract!Init, Abstract!Nothing, Nothing
  <1>2. IInv /\ BurstAhead /\ [Next]_vars => BurstAhead'
    BY NextBurstAhead
  <1>3. IInv /\ BurstAhead /\ [Next]_vars
          => [Abstract!Next]_<<Part(0, start, n), Queues, handed>>
    BY StepRefines
  <1> QED BY <1>1, <1>2, <1>3, InitBurstAhead, Invariance, PTL
          DEF Spec, ImplementsTxQueues, Abstract!Spec

-----------------------------------------------------------------------------
(***************************************************************************)
(* The transmit functions that are installed and removed.                  *)
(***************************************************************************)

\* Nothing is kept in tx_pkt_orig while the configured function is installed.
Unhooked == tx \in TxOrigs => tx_pkt_orig = NULL

\* The functions that are installed are no configured ones.
LEMMA KindsAreHooks ==
  /\ "dump" \notin TxOrigs /\ "trace" \notin TxOrigs
  /\ "DISTR" \notin TxOrigs /\ "BW" \notin TxOrigs /\ NULL \notin TxOrigs
  BY HooksAssumption DEF NULL

\* A message that dumps or traces keeps what it replaced.
LEMMA InstallKeeps ==
  ASSUME Unhooked, NEW f \in {"dump", "trace"}, InstallTx(f)
  PROVE  Unhooked' /\ (Returns => Returns')
  BY KindsAreHooks DEF Unhooked, InstallTx, Returns

\* A function that has done its work gives the slot back.
LEMMA RestoreKeeps ==
  ASSUME Unhooked, Restore, tx \notin TxOrigs \/ tx_pkt_orig # NULL
  PROVE  Unhooked' /\ (Returns => Returns')
  BY KindsAreHooks DEF Unhooked, Restore, Returns

\* So every step keeps Unhooked, and keeps the way to the configured function,
\* but for a counting function that is installed over another.
LEMMA StepKeepsTransmit ==
  ASSUME Unhooked, [HookNext]_hook_vars
  PROVE  /\ Unhooked'
         /\ Returns /\ ~ Returns' =>
              /\ lconf_do_flags /\ Type \in {Start("TX", "DISTR"), Start("TX", "BW")}
              /\ tx_pkt_orig # NULL
  <1> DEFINE Kept == Unhooked' /\ (Returns => Returns')
  <1>1. ASSUME UNCHANGED <<tx, tx_pkt_orig>> PROVE Kept
    BY <1>1 DEF Unhooked, Returns
  <1>2. ASSUME NEW k \in BurstSizes, call_tx_pkt(k) PROVE Kept
    <2>1. CASE tx_pkt_plain
      BY <1>1, <2>1 DEF tx_pkt_plain
    <2>2. ASSUME Restore, tx \in {"dump", "trace"} PROVE Kept
      BY <2>2, RestoreKeeps, KindsAreHooks
    <2>3. CASE tx_pkt_dump(k)
      BY <1>1, <2>2, <2>3 DEF tx_pkt_dump
    <2>4. CASE tx_pkt_trace_dump(k)
      BY <1>1, <2>2, <2>4 DEF tx_pkt_trace_dump
    <2>5. CASE tx_pkt_trace
      BY <1>1, <2>2, <2>5 DEF tx_pkt_trace
    <2> QED BY <1>2, <2>1, <2>3, <2>4, <2>5 DEF call_tx_pkt
  <1>3. CASE command \/ post \/ (\E k \in BurstSizes \cup {0} : call_rx_pkt(k))
    BY <1>1, <1>3 DEF command, post, call_rx_pkt, taskVars
  <1>4. CASE UNCHANGED hook_vars
    BY <1>1, <1>4 DEF hook_vars
  <1>5. CASE lconf_do_flags
    <2>1. CASE DumpRx
      BY <1>1, <2>1, InstallKeeps DEF DumpRx
    <2>2. CASE DumpTx
      BY <2>2, InstallKeeps DEF DumpTx
    <2>3. CASE Trace
      BY <2>3, InstallKeeps DEF Trace
    <2>4. CASE NoEffect
      BY <1>1, <2>4 DEF NoEffect
    <2>5. ASSUME NEW f \in {"DISTR", "BW"}, CountRx(f) PROVE Kept
      BY <1>1, <2>5 DEF CountRx
    <2>6. ASSUME NEW f \in {"DISTR", "BW"}, Type = Start("TX", f), StackTx(f)
          PROVE  Unhooked' /\ (tx_pkt_orig = NULL => (Returns => Returns'))
      BY <2>6, KindsAreHooks DEF Unhooked, StackTx, Returns
    <2>7. ASSUME NEW flag, RemoveTx(flag) PROVE Kept
      BY <1>1, <2>7, RestoreKeeps DEF RemoveTx
    <2>8. ASSUME NEW f \in {"DISTR", "BW"}, CountTx(f)
          PROVE  \/ Type = Start("TX", f) /\ StackTx(f)
                 \/ RemoveTx(Active("TX", f))
      BY <2>8 DEF CountTx
    <2> QED BY <1>5, <2>1, <2>2, <2>3, <2>4, <2>5, <2>6, <2>7, <2>8 DEF lconf_do_flags
  <1> QED BY <1>2, <1>3, <1>4, <1>5 DEF HookNext

\* Whatever messages install and remove, and however many packets pass, the
\* transmit call reaches the configured function, but for the one case named.
THEOREM TransmitKept == HookSpec => OnlyCountingLosesTransmit
  <1>1. HookInit => Unhooked
    BY DEF HookInit, Unhooked
  <1>2. Unhooked /\ [HookNext]_hook_vars => Unhooked'
    BY StepKeepsTransmit
  <1>3. Unhooked /\ [HookNext]_hook_vars =>
          [Returns /\ ~ Returns' =>
             /\ lconf_do_flags /\ Type \in {Start("TX", "DISTR"), Start("TX", "BW")}
             /\ tx_pkt_orig # NULL]_hook_vars
    BY StepKeepsTransmit
  <1> QED BY <1>1, <1>2, <1>3, PTL DEF HookSpec, OnlyCountingLosesTransmit

-----------------------------------------------------------------------------
(***************************************************************************)
(* The stack of receive functions.                                         *)
(***************************************************************************)

\* What a task is configured with is none of the functions put in front.
LEMMA KindsApart ==
  /\ RxOrigs \cap Kinds = {} /\ {"DISTR", "BW"} \subseteq Kinds
  /\ "dump" \in Kinds /\ "trace" \in Kinds
  BY HooksAssumption DEF Kinds

\* A function added is the first of the stack, if there is room.
LEMMA AddKeeps ==
  ASSUME NEW s, StackOK(s), NEW f \in Kinds
  PROVE  LET t == task_base_add_rx_pkt_function(s, f) IN
         /\ StackOK(t)
         /\ \A g : g # f => (Once(s, g) => Once(t, g)) /\ (Absent(s, g) => Absent(t, g))
         /\ Absent(s, f) => Once(t, f)
         /\ Once(s, f) /\ t = s => Once(t, f)
  <1> DEFINE t == task_base_add_rx_pkt_function(s, f)
             K == RxOrigs \cup Kinds
             h == <<f>>
  <1>1. CASE t = s
    BY <1>1 DEF Once, Absent
  <1>2. CASE t = h \o s
    <2>1. s \in Seq(K) /\ s # <<>>
      BY DEF StackOK
    <2>2. Len(s) \in Nat \ {0}
      BY <2>1, EmptySeq
    <2>3. h \in Seq(K) /\ Len(h) = 1 /\ h[1] = f
      OBVIOUS
    <2> HIDE DEF h, K, t
    <2>4. /\ h \o s \in Seq(K) /\ Len(h \o s) = Len(h) + Len(s)
          /\ \A p \in 1 .. Len(h) + Len(s) :
               (h \o s)[p] = IF p <= Len(h) THEN h[p] ELSE s[p - Len(h)]
      BY <2>1, <2>3, ConcatProperties
    <2>5. t \in Seq(K) /\ Len(t) = Len(s) + 1
      BY <1>2, <2>2, <2>3, <2>4
    <2>6. t[1] = f
      BY <1>2, <2>2, <2>3, <2>4
    <2>7. \A p \in 2 .. Len(s) + 1 : t[p] = s[p - 1]
      BY <1>2, <2>2, <2>3, <2>4
    <2>8. \A p \in 1 .. Len(t) : p = 1 \/ (p \in 2 .. Len(s) + 1 /\ p - 1 \in 1 .. Len(s))
      BY <2>2, <2>5
    <2>9. StackOK(t)
      <3>1. t # <<>>
        BY <2>2, <2>5, EmptySeq
      <3>2. t[Len(t)] \in RxOrigs
        <4>1. Len(t) \in 2 .. Len(s) + 1 /\ Len(t) - 1 = Len(s)
          BY <2>2, <2>5
        <4> QED BY <2>7, <4>1 DEF StackOK
      <3>3. ASSUME NEW k \in 1 .. (Len(t) - 1) PROVE t[k] \in Kinds
        <4>1. k = 1 \/ (k \in 2 .. Len(s) + 1 /\ k - 1 \in 1 .. (Len(s) - 1))
          BY <2>2, <2>5
        <4> QED BY <2>6, <2>7, <4>1 DEF StackOK
      <3> QED BY <2>5, <3>1, <3>2, <3>3 DEF StackOK, K
    <2>10. ASSUME NEW g, g # f, Once(s, g) PROVE Once(t, g)
      <3> SUFFICES ASSUME NEW j \in 1 .. Len(t), NEW k \in 1 .. Len(t), t[j] = g, t[k] = g
                   PROVE  j = k
        BY DEF Once
      <3>1. j # 1 /\ k # 1
        BY <2>6, <2>10
      <3>2. /\ j \in 2 .. Len(s) + 1 /\ j - 1 \in 1 .. Len(s)
            /\ k \in 2 .. Len(s) + 1 /\ k - 1 \in 1 .. Len(s)
        BY <2>8, <3>1
      <3>3. s[j - 1] = g /\ s[k - 1] = g
        BY <2>7, <3>2
      <3>4. j - 1 = k - 1
        BY <2>10, <3>2, <3>3 DEF Once
      <3> QED BY <3>2, <3>4
    <2>11. ASSUME NEW g, g # f, Absent(s, g) PROVE Absent(t, g)
      <3> SUFFICES ASSUME NEW k \in 1 .. Len(t), t[k] = g PROVE FALSE
        BY DEF Absent
      <3>1. k \in 2 .. Len(s) + 1 /\ k - 1 \in 1 .. Len(s)
        BY <2>6, <2>8, <2>11
      <3> QED BY <2>7, <2>11, <3>1 DEF Absent
    <2>12. ASSUME Absent(s, f) PROVE Once(t, f)
      <3>1. ASSUME NEW k \in 1 .. Len(t), t[k] = f PROVE k = 1
        BY <2>7, <2>8, <2>12, <3>1 DEF Absent
      <3> QED BY <3>1 DEF Once
    <2>13. t # s
      BY <2>2, <2>5
    <2> QED BY <2>9, <2>10, <2>11, <2>12, <2>13 DEF t
  <1>3. t = s \/ t = h \o s
    BY DEF task_base_add_rx_pkt_function
  <1> QED BY <1>1, <1>2, <1>3

\* A function removed is removed once; the others stay as they were.
LEMMA DelKeeps ==
  ASSUME NEW s, StackOK(s), NEW f \in Kinds
  PROVE  LET t == task_base_del_rx_pkt_function(s, f) IN
         /\ StackOK(t)
         /\ \A g : (Once(s, g) => Once(t, g)) /\ (Absent(s, g) => Absent(t, g))
         /\ Once(s, f) => Absent(t, f)
  <1> DEFINE t == task_base_del_rx_pkt_function(s, f)
             K == RxOrigs \cup Kinds
             P(p) == s[p] = f /\ \A j \in 1 .. (p - 1) : s[j] # f
             p == CHOOSE p \in 1 .. Len(s) : P(p)
             a == SubSeq(s, 1, p - 1)
             b == SubSeq(s, p + 1, Len(s))
  <1>1. s \in Seq(K) /\ s # <<>> /\ s[Len(s)] \in RxOrigs
        /\ \A k \in 1 .. (Len(s) - 1) : s[k] \in Kinds
    BY DEF StackOK
  <1>2. Len(s) \in Nat \ {0} /\ \A k \in 1 .. Len(s) : s[k] \in K
    BY <1>1, EmptySeq, LenProperties
  <1>3. CASE ~ (Len(s) > 1 /\ Contains(s, f))
    <2>1. t = s
      BY <1>3 DEF task_base_del_rx_pkt_function
    <2>2. Absent(s, f)
      <3>1. CASE ~ Contains(s, f)
        BY <3>1 DEF Contains, Absent
      <3>2. CASE ~ (Len(s) > 1)
        <4>1. Len(s) = 1
          BY <1>2, <3>2
        <4> QED BY <1>1, <4>1, KindsApart DEF Absent
      <3> QED BY <1>3, <3>1, <3>2
    <2> QED BY <2>1, <2>2
  <1>4. CASE Len(s) > 1 /\ Contains(s, f)
    <2>1. \E k \in 1 .. Len(s) : P(k)
      <3> DEFINE T == {k \in 1 .. Len(s) : s[k] = f}
      <3>1. T \in SUBSET Nat /\ T # {}
        BY <1>4 DEF Contains
      <3>2. PICK k \in T : \A j \in T : k <= j
        BY <3>1, LeastNatural
      <3>3. \A j \in 1 .. (k - 1) : j \in 1 .. Len(s) /\ ~ (k <= j)
        BY <1>2
      <3>4. \A j \in 1 .. (k - 1) : s[j] # f
        BY <3>2, <3>3
      <3> QED BY <3>4
    <2>2. p \in 1 .. Len(s) /\ P(p)
      <3> HIDE DEF P
      <3> QED BY <2>1
    <2>3. t = a \o b
      BY <1>4 DEF task_base_del_rx_pkt_function, RemoveAt
    <2>4. p < Len(s) /\ s[p] = f
      BY <1>1, <1>2, <2>2, KindsApart
    <2> HIDE DEF p, P
    <2>5. /\ a \in Seq(K) /\ Len(a) = p - 1 /\ \A k \in 1 .. p - 1 : a[k] = s[k]
      <3>1. \A k \in 1 .. p - 1 : s[k] \in K
        BY <1>2, <2>4, <2>2
      <3>2. 1 \in Int /\ p - 1 \in Int /\ p - 1 - 1 + 1 = p - 1
        BY <2>2
      <3>3. /\ a \in Seq(K) /\ Len(a) = (IF 1 <= p - 1 THEN p - 1 - 1 + 1 ELSE 0)
            /\ \A k \in 1 .. p - 1 - 1 + 1 : a[k] = s[1 + k - 1]
        BY <3>1, <3>2, SubSeqProperties
      <3>4. \A k \in 1 .. p - 1 : 1 + k - 1 = k
        OBVIOUS
      <3>5. Len(a) = p - 1
        BY <2>2, <3>3
      <3>6. ASSUME NEW k \in 1 .. p - 1 PROVE a[k] = s[k]
        BY <3>2, <3>3, <3>4
      <3> QED BY <3>3, <3>5, <3>6
    <2>6. /\ b \in Seq(K) /\ Len(b) = Len(s) - p /\ \A k \in 1 .. Len(s) - p : b[k] = s[p + k]
      <3>1. \A k \in p + 1 .. Len(s) : s[k] \in K
        BY <1>2, <2>2
      <3>2. p + 1 \in Int /\ Len(s) \in Int /\ Len(s) - (p + 1) + 1 = Len(s) - p
        BY <1>2, <2>2
      <3>3. /\ b \in Seq(K) /\ Len(b) = (IF p + 1 <= Len(s) THEN Len(s) - (p + 1) + 1 ELSE 0)
            /\ \A k \in 1 .. Len(s) - (p + 1) + 1 : b[k] = s[p + 1 + k - 1]
        BY <3>1, <3>2, SubSeqProperties
      <3>4. \A k \in 1 .. Len(s) - p : p + 1 + k - 1 = p + k
        BY <2>2
      <3>5. Len(b) = Len(s) - p
        BY <1>2, <2>4, <2>2, <3>3
      <3>6. ASSUME NEW k \in 1 .. Len(s) - p PROVE b[k] = s[p + k]
        BY <3>2, <3>3, <3>4
      <3> QED BY <3>3, <3>5, <3>6
    <2> HIDE DEF a, b, t, K
    <2>7. /\ t \in Seq(K) /\ Len(t) = Len(a) + Len(b)
          /\ \A k \in 1 .. Len(a) + Len(b) : t[k] = IF k <= Len(a) THEN a[k] ELSE b[k - Len(a)]
      BY <2>3, <2>5, <2>6, ConcatProperties
    <2>8. t \in Seq(K) /\ Len(t) = Len(s) - 1 /\ Len(t) >= 1
      BY <1>2, <2>2, <2>4, <2>5, <2>6, <2>7
    <2> DEFINE at(k) == IF k < p THEN k ELSE k + 1
    \* Where the functions that are left were before.
    <2>9. ASSUME NEW k \in 1 .. Len(t) PROVE at(k) \in 1 .. Len(s) /\ at(k) # p /\ t[k] = s[at(k)]
      <3>1. CASE k < p
        <4>1. k \in 1 .. p - 1 /\ k \in 1 .. Len(a) + Len(b) /\ k <= Len(a) /\ at(k) = k
          BY <1>2, <2>2, <2>5, <2>6, <2>7, <2>8, <3>1
        <4>2. t[k] = a[k] /\ a[k] = s[k]
          BY <2>5, <2>7, <4>1
        <4> QED BY <2>2, <3>1, <4>1, <4>2
      <3>2. CASE ~ (k < p)
        <4>1. /\ k - (p - 1) \in 1 .. Len(s) - p /\ p + (k - (p - 1)) = k + 1
              /\ at(k) = k + 1
          BY <1>2, <2>2, <2>8, <3>2
        <4>2. k \in 1 .. Len(a) + Len(b) /\ ~ (k <= Len(a)) /\ k - Len(a) = k - (p - 1)
          BY <1>2, <2>2, <2>5, <2>6, <2>7, <3>2
        <4>3. t[k] = b[k - (p - 1)]
          BY <2>7, <4>2
        <4>4. b[k - (p - 1)] = s[k + 1]
          BY <2>6, <4>1
        <4>5. k + 1 \in 1 .. Len(s) /\ k + 1 # p
          BY <1>2, <2>2, <2>8, <3>2
        <4> QED BY <4>1, <4>3, <4>4, <4>5
      <3> QED BY <3>1, <3>2
    <2>10. \A j, k \in 1 .. Len(t) : at(j) = at(k) => j = k
      BY <2>2, <2>8
    <2>11. StackOK(t)
      <3>1. t # <<>>
        BY <2>8, EmptySeq
      <3>2. t[Len(t)] \in RxOrigs
        <4>1. Len(t) \in 1 .. Len(t) /\ at(Len(t)) = Len(s)
          BY <1>2, <2>2, <2>4, <2>8
        <4> QED BY <1>1, <2>9, <4>1
      <3>3. ASSUME NEW k \in 1 .. (Len(t) - 1) PROVE t[k] \in Kinds
        <4>1. k \in 1 .. Len(t) /\ at(k) \in 1 .. (Len(s) - 1)
          BY <1>2, <2>2, <2>8
        <4> QED BY <1>1, <2>9, <4>1
      <3> QED BY <2>8, <3>1, <3>2, <3>3 DEF StackOK, K
    <2> HIDE DEF at
    <2>12. ASSUME NEW g, Once(s, g) PROVE Once(t, g)
      BY <2>9, <2>10, <2>12 DEF Once
    <2>13. ASSUME NEW g, Absent(s, g) PROVE Absent(t, g)
      BY <2>9, <2>13 DEF Absent
    <2>14. ASSUME Once(s, f) PROVE Absent(t, f)
      BY <2>2, <2>4, <2>9, <2>14 DEF Once, Absent
    <2> QED BY <2>11, <2>12, <2>13, <2>14 DEF t
  <1> QED BY <1>3, <1>4

\* What the p innermost functions leave, from what was there before.
Stages(g, before, sz) ==
  g = [p \in 0 .. Len(rx) |->
         IF p = 0 THEN before ELSE After_rx(g[p - 1], rx[Len(rx) + 1 - p], sz)]

\* The function that calls them one after the other exists.
LEMMA StagesExist ==
  ASSUME StackOK(rx), NEW before, NEW sz
  PROVE  \E g : Stages(g, before, sz)
  <1> DEFINE Upto(g, m) ==
               /\ DOMAIN g = 0 .. m /\ g[0] = before
               /\ \A p \in 1 .. m : g[p] = After_rx(g[p - 1], rx[Len(rx) + 1 - p], sz)
             T == {m \in Nat : ~ \E g : Upto(g, m)}
  <1>1. T = {}
    <2> SUFFICES ASSUME T # {} PROVE FALSE
      OBVIOUS
    <2> PICK m \in T : \A l \in T : m <= l
      BY LeastNatural
    <2>1. CASE m = 0
      <3>1. Upto([p \in 0 .. 0 |-> before], 0)
        OBVIOUS
      <3> QED BY <2>1, <3>1
    <2>2. CASE m # 0
      <3>1. m - 1 \in Nat /\ m - 1 \notin T
        BY <2>2
      <3>2. PICK f : Upto(f, m - 1)
        BY <3>1
      <3> DEFINE last == After_rx(f[m - 1], rx[Len(rx) + 1 - m], sz)
                 g == [p \in 0 .. m |-> IF p = m THEN last ELSE f[p]]
      <3>3. DOMAIN g = 0 .. m /\ g[0] = before
        BY <2>2, <3>2
      <3>4. ASSUME NEW p \in 1 .. m
            PROVE  g[p] = After_rx(g[p - 1], rx[Len(rx) + 1 - p], sz)
        <4> HIDE DEF last
        <4>1. p - 1 \in 0 .. m /\ p - 1 # m /\ p \in 0 .. m
          OBVIOUS
        <4>2. g[p - 1] = f[p - 1]
          BY <4>1
        <4>3. CASE p = m
          BY <4>1, <4>2, <4>3 DEF last
        <4>4. CASE p # m
          <5>1. p \in 1 .. m - 1
            BY <4>4
          <5>2. g[p] = f[p]
            BY <4>1, <4>4
          <5> HIDE DEF g
          <5> QED BY <3>2, <4>2, <5>1, <5>2
        <4> QED BY <4>3, <4>4
      <3> HIDE DEF g
      <3>5. Upto(g, m)
        BY <3>3, <3>4
      <3> QED BY <3>5
    <2> QED BY <2>1, <2>2
  <1>2. Len(rx) \in Nat
    BY LenProperties DEF StackOK
  <1>3. PICK f : Upto(f, Len(rx))
    BY <1>1, <1>2
  <1> DEFINE g == [p \in 0 .. Len(rx) |-> f[p]]
  <1>4. ASSUME NEW p \in 0 .. Len(rx)
        PROVE  g[p] = IF p = 0 THEN before ELSE After_rx(g[p - 1], rx[Len(rx) + 1 - p], sz)
    <2>1. CASE p = 0
      BY <1>2, <1>3, <2>1
    <2>2. CASE p # 0
      <3>1. p \in 1 .. Len(rx) /\ p - 1 \in 0 .. Len(rx)
        BY <2>2
      <3>2. g[p - 1] = f[p - 1] /\ g[p] = f[p]
        BY <3>1
      <3> HIDE DEF g
      <3> QED BY <1>3, <2>2, <3>1, <3>2
    <2> QED BY <2>1, <2>2
  <1>5. Stages(g, before, sz)
    <2>1. g = [p \in 0 .. Len(rx) |-> g[p]]
      OBVIOUS
    <2> HIDE DEF g
    <2> QED BY <1>4, <2>1 DEF Stages
  <1> QED BY <1>5

\* The functions on the stack remove nothing but rx_pkt_dump.
LEMMA ReceiveKeeps ==
  ASSUME NEW F, Follows(rx, F), NEW sz
  PROVE  Follows(HookReceive(sz).rx, F)
  <1> DEFINE before == [rx |-> rx, n_print_rx |-> n_print_rx, n_trace |-> n_trace,
                        cur_trace |-> IF Contains(rx, "trace") THEN 0 ELSE cur_trace]
             Names == {"rx", "n_print_rx", "n_trace", "cur_trace"}
             OK(t) == DOMAIN t = Names /\ Follows(t.rx, F)
  <1>1. OK(before)
    OBVIOUS
  <1>2. ASSUME NEW t, OK(t), NEW f PROVE OK(After_rx(t, f, sz))
    <2> DEFINE d == task_base_del_rx_pkt_function(t.rx, "dump")
    <2>1. Follows(d, F)
      BY <1>2, KindsApart, DelKeeps DEF Follows
    <2> HIDE DEF d
    <2>2. CASE f = "dump"
      <3> DEFINE left == t.n_print_rx - AtMost(sz, t.n_print_rx)
                 r == IF left = 0 THEN d ELSE t.rx
      <3>1. After_rx(t, f, sz) = [t EXCEPT !.n_print_rx = left, !.rx = r]
        BY <1>2, <2>2 DEF After_rx, d
      <3> HIDE DEF left
      <3>2. Follows(r, F)
        BY <1>2, <2>1
      <3> HIDE DEF r
      <3> QED BY <1>2, <3>1, <3>2
    <2>3. CASE f = "trace"
      <3> DEFINE seen == AtMost(sz, t.n_trace)
                 x == t.n_trace - seen
                 y == t.cur_trace + seen
      <3>1. After_rx(t, f, sz) = [t EXCEPT !.n_trace = x, !.cur_trace = y]
        BY <1>2, <2>3 DEF After_rx
      <3> HIDE DEF x, y
      <3> QED BY <1>2, <3>1
    <2>4. CASE f # "dump" /\ f # "trace"
      BY <1>2, <2>4 DEF After_rx
    <2> QED BY <2>2, <2>3, <2>4
  <1>3. PICK g : Stages(g, before, sz) /\ HookReceive(sz) = IF sz = 0 THEN before ELSE g[Len(rx)]
    <2>1. StackOK(rx)
      BY DEF Follows
    <2>2. \E g : Stages(g, before, sz)
      BY <2>1, StagesExist
    <2> DEFINE g == CHOOSE g : Stages(g, before, sz)
    <2>3. Stages(g, before, sz)
      BY <2>2
    <2>4. HookReceive(sz) = IF sz = 0 THEN before ELSE g[Len(rx)]
      BY DEF HookReceive, Stages
    <2> QED BY <2>3, <2>4
  <1> HIDE DEF before, OK
  <1>4. Len(rx) \in Nat
    BY LenProperties DEF Follows, StackOK
  <1>5. \A p \in 0 .. Len(rx) : OK(g[p])
    <2> DEFINE T == {p \in 0 .. Len(rx) : ~ OK(g[p])}
    <2> SUFFICES ASSUME T # {} PROVE FALSE
      OBVIOUS
    <2> PICK m \in T : \A l \in T : m <= l
      <3> T \in SUBSET Nat
        OBVIOUS
      <3> QED BY LeastNatural
    <2>1. m # 0
      BY <1>1, <1>3, <1>4 DEF Stages
    <2>2. m - 1 \in 0 .. Len(rx) /\ m - 1 \notin T
      BY <2>1
    <2>3. g[m] = After_rx(g[m - 1], rx[Len(rx) + 1 - m], sz)
      BY <1>3, <2>1 DEF Stages
    <2>4. OK(g[m])
      BY <1>2, <2>2, <2>3
    <2> QED BY <2>4
  <1>6. OK(HookReceive(sz))
    BY <1>1, <1>3, <1>4, <1>5
  <1> QED BY <1>6 DEF OK

-----------------------------------------------------------------------------
(***************************************************************************)
(* Counting functions and their flags.                                     *)
(***************************************************************************)

\* A message for the worker.
LEMMA FlagsKept ==
  ASSUME HookInv, lconf_do_flags
  PROVE  Follows(rx, flags)'
  <1>1. Follows(rx, flags) /\ Allowed(msg.type)
    BY DEF HookInv, lconf_do_flags
  <1>2. ASSUME NEW s, NEW F, Follows(s, F), NEW f \in {"dump", "trace"}
        PROVE  Follows(task_base_add_rx_pkt_function(s, f), F)
    BY <1>2, KindsApart, AddKeeps DEF Follows
  <1>3. CASE DumpRx \/ Trace
    BY <1>1, <1>2, <1>3 DEF DumpRx, Trace
  <1>4. CASE DumpTx \/ NoEffect
    BY <1>1, <1>4 DEF DumpTx, NoEffect
  <1>5. ASSUME NEW f \in {"DISTR", "BW"}, CountRx(f) PROVE Follows(rx, flags)'
    <2>1. f \in Kinds /\ StackOK(rx) /\ Once(rx, f)
      BY <1>1, KindsApart DEF Follows
    <2>2. CASE /\ Type = Start("RX", f)
               /\ rx' = task_base_add_rx_pkt_function(rx, f)
               /\ flags' = flags \cup {Active("RX", f)}
      <3>1. msg.type = Start("RX", f)
        BY <2>2 DEF Type, Start, Starts
      <3>2. Active("RX", f) \notin flags
        BY <1>1, <3>1 DEF Allowed
      <3>3. Absent(rx, f)
        BY <1>1, <3>2 DEF Follows
      <3>4. /\ StackOK(rx') /\ Once(rx', f)
            /\ \A g : g # f => (Once(rx, g) => Once(rx', g)) /\ (Absent(rx, g) => Absent(rx', g))
        BY <2>1, <2>2, <3>3, AddKeeps
      <3>5. ASSUME NEW g \in {"DISTR", "BW"}
            PROVE  Once(rx', g) /\ (Active("RX", g) \notin flags' => Absent(rx', g))
        <4>1. CASE g = f
          BY <2>2, <3>4, <4>1
        <4>2. CASE g # f
          BY <1>1, <2>2, <3>4, <4>2 DEF Follows
        <4> QED BY <4>1, <4>2
      <3> QED BY <3>4, <3>5 DEF Follows
    <2>3. CASE /\ Type = Stop("RX", f)
               /\ rx' = task_base_del_rx_pkt_function(rx, f)
               /\ flags' = flags \ {Active("RX", f)}
      <3>1. /\ StackOK(rx') /\ Absent(rx', f)
            /\ \A g : (Once(rx, g) => Once(rx', g)) /\ (Absent(rx, g) => Absent(rx', g))
        BY <2>1, <2>3, DelKeeps
      <3>2. ASSUME NEW g \in {"DISTR", "BW"}
            PROVE  Once(rx', g) /\ (Active("RX", g) \notin flags' => Absent(rx', g))
        <4>1. CASE g = f
          BY <2>1, <3>1, <4>1
        <4>2. CASE g # f
          <5>1. Active("RX", g) # Active("RX", f)
            BY <4>2 DEF Active
          <5> QED BY <1>1, <2>3, <3>1, <5>1 DEF Follows
        <4> QED BY <4>1, <4>2
      <3> QED BY <3>1, <3>2 DEF Follows
    <2> QED BY <1>5, <2>2, <2>3 DEF CountRx
  <1>6. ASSUME NEW f \in {"DISTR", "BW"}, CountTx(f) PROVE Follows(rx, flags)'
    <2>1. rx' = rx /\ flags' \in {flags, flags \cup {Active("TX", f)}, flags \ {Active("TX", f)}}
      BY <1>6 DEF CountTx, RemoveTx
    <2>2. \A g : Active("RX", g) # Active("TX", f)
      BY DEF Active
    <2>3. \A g : Active("RX", g) \in flags' <=> Active("RX", g) \in flags
      BY <2>1, <2>2
    <2> QED BY <1>1, <2>1, <2>3 DEF Follows
  <1> QED BY <1>3, <1>4, <1>5, <1>6 DEF lconf_do_flags

\* Every step keeps the invariant.
LEMMA HookKept ==
  ASSUME Patient, HookInv, [HookNext]_hook_vars
  PROVE  HookInv'
  <1>1. CASE command
    <2>1. ~ msg.req /\ UNCHANGED <<msg, rx, flags>> /\ Allowed(cmd'.type)
      BY <1>1 DEF command, taskVars
    <2>2. Allowed(cmd.type)'
      BY <2>1 DEF Allowed
    <2> QED BY <2>1, <2>2 DEF HookInv, Follows
  <1>2. CASE post
    <2>1. /\ Allowed(cmd.type) /\ msg'.type = cmd.type /\ cmd' = NoCommand
          /\ UNCHANGED <<rx, flags>>
      BY <1>2 DEF post, HookInv, taskVars
    <2>2. Allowed(msg.type)'
      BY <2>1 DEF Allowed
    <2>3. Follows(rx, flags)'
      BY <2>1 DEF HookInv
    <2>4. (cmd # NoCommand => ~ msg.req /\ Allowed(cmd.type))'
      BY <2>1 DEF NoCommand
    <2> QED BY <2>2, <2>3, <2>4 DEF HookInv
  <1>3. CASE lconf_do_flags
    <2>1. msg.req /\ cmd' = cmd /\ msg' = MsgTaken
      BY <1>3 DEF lconf_do_flags
    <2>2. cmd' = NoCommand /\ ~ msg'.req
      BY <2>1 DEF HookInv, MsgTaken
    <2>3. Follows(rx, flags)'
      BY <1>3, FlagsKept
    <2>4. (cmd # NoCommand => ~ msg.req /\ Allowed(cmd.type))'
      BY <2>2 DEF NoCommand
    <2> QED BY <2>2, <2>3, <2>4 DEF HookInv
  <1>4. ASSUME NEW sz \in BurstSizes \cup {0}, call_rx_pkt(sz) PROVE HookInv'
    <2>1. UNCHANGED <<msg, cmd, flags>> /\ rx' = HookReceive(sz).rx
      BY <1>4 DEF call_rx_pkt
    <2>2. Follows(rx', flags)
      BY <2>1, ReceiveKeeps DEF HookInv
    <2> QED BY <2>1, <2>2 DEF HookInv, Allowed
  <1>5. ASSUME NEW sz \in BurstSizes, call_tx_pkt(sz) PROVE HookInv'
    <2>1. /\ UNCHANGED <<msg, cmd, flags>>
          /\ rx' = rx \/ rx' = task_base_del_rx_pkt_function(rx, "trace")
      BY <1>5 DEF call_tx_pkt, tx_pkt_plain, tx_pkt_dump, tx_pkt_trace_dump, tx_pkt_trace
    <2>2. Follows(rx', flags)
      BY <2>1, KindsApart, DelKeeps DEF HookInv, Follows
    <2> QED BY <2>1, <2>2 DEF HookInv, Allowed
  <1>6. CASE UNCHANGED hook_vars
    BY <1>6 DEF hook_vars, HookInv, Allowed
  <1> QED BY <1>1, <1>2, <1>3, <1>4, <1>5, <1>6 DEF HookNext

\* Nothing is in front of the configured function at the start.
LEMMA HookStarts == HookInit => HookInv
  <1> SUFFICES ASSUME HookInit PROVE HookInv
    OBVIOUS
  <1>1. PICK f \in RxOrigs : rx = <<f>>
    BY DEF HookInit
  <1>2. StackOK(rx)
    BY <1>1 DEF StackOK
  <1>3. \A g \in {"DISTR", "BW"} : Absent(rx, g)
    BY <1>1, KindsApart DEF Absent
  <1>4. \A g : Absent(rx, g) => Once(rx, g)
    BY DEF Absent, Once
  <1>5. Follows(rx, flags)
    BY <1>2, <1>3, <1>4 DEF Follows
  <1>6. cmd = NoCommand /\ ~ msg.req
    BY DEF HookInit, MsgTaken
  <1> QED BY <1>5, <1>6 DEF HookInv

\* How many of a function are there is a number that Once and Absent bound.
LEMMA CountOfIs ==
  ASSUME NEW f
  PROVE  /\ Absent(rx, f) => CountOf(f) = 0
         /\ Once(rx, f) => CountOf(f) <= 1
  <1> DEFINE S == {k \in 1 .. Len(rx) : rx[k] = f}
  <1>1. CountOf(f) = Cardinality(S)
    BY DEF CountOf
  <1>2. ASSUME Absent(rx, f) PROVE CountOf(f) = 0
    <2>1. S = {}
      BY <1>2 DEF Absent
    <2> QED BY <1>1, <2>1, FS_EmptySet
  <1>3. ASSUME Once(rx, f) PROVE CountOf(f) <= 1
    <2>1. CASE S = {}
      <3>1. CountOf(f) = 0
        BY <1>1, <2>1, FS_EmptySet
      <3> QED BY <3>1
    <2>2. CASE S # {}
      <3>1. PICK k \in S : TRUE
        BY <2>2
      <3>2. S = {k}
        BY <1>3, <3>1 DEF Once
      <3>3. CountOf(f) = 1
        BY <1>1, <3>2, FS_Singleton
      <3> QED BY <3>3
    <2> QED BY <2>1, <2>2
  <1> QED BY <1>2, <1>3

\* When every command waits for the last, a counter of received packets is on
\* the stack at most once, and only while its flag is set
\* (task_base_add_rx_pkt_function, task_base_del_rx_pkt_function, cmd_rx_distr_start).
THEOREM CountersFollowFlags ==
  ASSUME Patient
  PROVE  HookSpec => []RxCountersMatchFlags
  <1>1. HookInv => RxCountersMatchFlags
    <2> SUFFICES ASSUME HookInv PROVE RxCountersMatchFlags
      OBVIOUS
    <2>1. ASSUME NEW f \in {"DISTR", "BW"}
          PROVE  CountOf(f) <= IF Active("RX", f) \in flags THEN 1 ELSE 0
      <3>1. Once(rx, f) /\ (Active("RX", f) \notin flags => Absent(rx, f))
        BY DEF HookInv, Follows
      <3>2. CASE Active("RX", f) \in flags
        BY <3>1, <3>2, CountOfIs
      <3>3. CASE Active("RX", f) \notin flags
        <4>1. CountOf(f) = 0
          BY <3>1, <3>3, CountOfIs
        <4> QED BY <3>3, <4>1
      <3> QED BY <3>2, <3>3
    <2> QED BY <2>1 DEF RxCountersMatchFlags
  <1>2. HookInv /\ [HookNext]_hook_vars => HookInv'
    BY HookKept
  <1> QED BY <1>1, <1>2, HookStarts, PTL DEF HookSpec
=============================================================================
