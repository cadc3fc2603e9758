-------------------------- MODULE Generator_proofs --------------------------
(***************************************************************************)
(* Proofs about the generators.  The bundles of an L4 client stay sound    *)
(* for every pool, imix and size of the hash table; the packet generator   *)
(* keeps its count and its stamps for every bulk and every set of sizes;   *)
(* the L4 server serves in order and loses nothing for every burst, queue  *)
(* and cut by its token bucket; the latency task counts the packets lost   *)
(* and duplicated for every size of its table.                             *)
(***************************************************************************)
EXTENDS L4Bundles, L4Handlers, Gen, GenLat, NumberLemmas, FiniteSetTheorems, SequenceTheorems, TLAPS

-----------------------------------------------------------------------------
(***************************************************************************)
(* The connections of an L4 client.                                        *)
(***************************************************************************)

\* How many bundles in use have a configuration is a number.
LEMMA UseCounted ==
  ASSUME NEW S \in SUBSET Bundles
  PROVE  IsFiniteSet(S) /\ Cardinality(S) \in Nat
  BY L4BundlesAssumption, FS_Subset, FS_CardinalityType

\* There is a position 0.
LEMMA FirstPosition == 0 \in HashPositions
  BY L4BundlesAssumption DEF HashPositions

\* Counting in two parts.
LEMMA TwoParts ==
  ASSUME NEW S \in SUBSET Bundles, NEW T \in SUBSET Bundles, S \cap T = {}
  PROVE  Cardinality(S \cup T) = Cardinality(S) + Cardinality(T)
  <1>1. /\ IsFiniteSet(S) /\ IsFiniteSet(T)
        /\ Cardinality(S) \in Nat /\ Cardinality(T) \in Nat
    BY UseCounted
  <1>2. Cardinality(S \cap T) = 0
    BY FS_EmptySet
  <1>3. Cardinality(S \cup T) = Cardinality(S) + Cardinality(T) - Cardinality(S \cap T)
    BY <1>1, FS_Union
  <1> QED BY <1>1, <1>2, <1>3

\* The pool at the start.
LEMMA BundlesInit == L4BInit => L4BInv
  <1> SUFFICES ASSUME L4BInit PROVE L4BInv
    OBVIOUS
  <1>1. /\ CfgsInUse = {} /\ timers = {} /\ occur = Occurrences
        /\ \A p \in HashPositions : keys[p] = NoBundle
    BY DEF L4BInit, CfgsInUse
  <1>2. L4BTypeOK
    BY L4BundlesAssumption DEF L4BInit, L4BTypeOK, NoneYet
  <1>3. MixKept
    <2> SUFFICES ASSUME NEW c \in BundleCfgs
                 PROVE  occur[c] + Cardinality({b \in CfgsInUse : bundle[b].cfg = c}) = Occurrences[c]
      BY DEF MixKept
    <2>1. {b \in CfgsInUse : bundle[b].cfg = c} = {}
      BY <1>1
    <2>2. Cardinality({b \in CfgsInUse : bundle[b].cfg = c}) = 0
      BY <2>1, FS_EmptySet
    <2> QED BY <1>1, <2>2, L4BundlesAssumption
  <1> QED BY <1>1, <1>2, <1>3
          DEF L4BInv, KeysNameEntries, OneKey, StreamOfCfg, WaitsForTimer

\* Connections that end.
LEMMA StepFinish ==
  ASSUME L4BInv, NEW bs \in SUBSET CfgsInUse, Finish(bs) PROVE L4BInv'
  <1>1. /\ keys' = [p \in HashPositions |-> IF keys[p] \in bs THEN NoBundle ELSE keys[p]]
        /\ timers' = timers \ bs /\ hash_entries' = hash_entries
        /\ free_bundles' = free_bundles \cup bs
        /\ bundle' = [b \in Bundles |-> IF b \in bs THEN NoneYet ELSE bundle[b]]
        /\ occur' = [c \in BundleCfgs |-> occur[c] + Cardinality({b \in bs : bundle[b].cfg = c})]
    BY DEF Finish, bundle_ctx_pool_put
  <1>2. /\ CfgsInUse' = CfgsInUse \ bs /\ bs \subseteq Bundles /\ CfgsInUse \subseteq Bundles
        /\ \A b \in CfgsInUse' : bundle'[b] = bundle[b]
    BY <1>1 DEF CfgsInUse
  <1>3. NoBundle \notin bs
    BY <1>2, L4BundlesAssumption
  <1>4. L4BTypeOK'
    <2>1. occur' \in [BundleCfgs -> Nat]
      <3> SUFFICES ASSUME NEW c \in BundleCfgs
                   PROVE  occur[c] + Cardinality({b \in bs : bundle[b].cfg = c}) \in Nat
        BY <1>1
      <3>1. Cardinality({b \in bs : bundle[b].cfg = c}) \in Nat
        BY <1>2, UseCounted
      <3> QED BY <3>1 DEF L4BInv, L4BTypeOK
    <2>2. bundle' \in [Bundles -> [cfg : BundleCfgs \cup {<<>>}, stream_idx : Nat]]
      BY <1>1 DEF L4BInv, L4BTypeOK, NoneYet
    <2>3. keys' \in [HashPositions -> Bundles \cup {NoBundle}]
      BY <1>1 DEF L4BInv, L4BTypeOK
    <2> QED BY <1>1, <1>2, <2>1, <2>2, <2>3 DEF L4BInv, L4BTypeOK
  <1>5. KeysNameEntries'
    BY <1>1, <1>2 DEF L4BInv, KeysNameEntries
  <1>6. OneKey'
    BY <1>1, <1>2, <1>3, L4BundlesAssumption DEF L4BInv, OneKey
  <1>7. StreamOfCfg'
    BY <1>2 DEF L4BInv, StreamOfCfg
  <1>8. MixKept'
    <2> SUFFICES ASSUME NEW c \in BundleCfgs
                 PROVE  (occur[c] + Cardinality({b \in CfgsInUse : bundle[b].cfg = c}) = Occurrences[c])'
      BY DEF MixKept
    <2> DEFINE S == {b \in CfgsInUse \ bs : bundle[b].cfg = c}
               T == {b \in bs : bundle[b].cfg = c}
    <2>1. {b \in CfgsInUse : bundle[b].cfg = c} = S \cup T /\ S \cap T = {}
          /\ S \subseteq Bundles /\ T \subseteq Bundles
      BY <1>2
    <2>2. {b \in CfgsInUse : bundle[b].cfg = c}' = S
      BY <1>2
    <2>3. occur'[c] = occur[c] + Cardinality(T)
      BY <1>1
    <2>4. occur[c] + Cardinality(S \cup T) = Occurrences[c]
      BY <2>1 DEF L4BInv, MixKept
    <2>5. Cardinality(S) \in Nat /\ Cardinality(T) \in Nat /\ occur[c] \in Nat
      BY <2>1, UseCounted DEF L4BInv, L4BTypeOK
    <2>6. Cardinality(S \cup T) = Cardinality(S) + Cardinality(T)
      BY <2>1, TwoParts
    <2> HIDE DEF S, T
    <2>7. occur'[c] + Cardinality(S) = Occurrences[c]
      BY <2>3, <2>4, <2>5, <2>6
    <2> QED BY <2>2, <2>7
  <1>9. WaitsForTimer'
    <2>1. timers' \subseteq CfgsInUse'
      BY <1>1, <1>2 DEF L4BInv, WaitsForTimer
    <2>2. ASSUME NEW b \in CfgsInUse' \ timers'
          PROVE  Proto(b)' = "udp" \/ keys'[0] = b
      <3>1. b \in CfgsInUse \ timers /\ b \notin bs
        BY <1>1, <1>2
      <3>2. Proto(b)' = Proto(b)
        BY <1>2 DEF Proto
      <3>3. keys[0] = b => keys'[0] = b
        BY <1>1, <3>1, FirstPosition
      <3> QED BY <3>1, <3>2, <3>3 DEF L4BInv, WaitsForTimer
    <2> QED BY <2>1, <2>2 DEF WaitsForTimer
  <1> QED BY <1>4, <1>5, <1>6, <1>7, <1>8, <1>9 DEF L4BInv

\* A connection has one key.
LEMMA PositionIs ==
  ASSUME L4BInv, NEW b \in CfgsInUse
  PROVE  /\ PositionOf(b) \in HashPositions /\ keys[PositionOf(b)] = b
         /\ \A q \in HashPositions : keys[q] = b => q = PositionOf(b)
  BY DEF L4BInv, OneKey, PositionOf

\* The next stream of a connection, under a new tuple.
LEMMA StepNextStream ==
  ASSUME L4BInv, NEW b \in CfgsInUse, bundle[b].stream_idx < Len(bundle[b].cfg), NextStream(b)
  PROVE  L4BInv'
  <1>0. b \in Bundles /\ b # NoBundle /\ CfgsInUse \subseteq Bundles
    BY L4BundlesAssumption DEF CfgsInUse
  <1> DEFINE old == PositionOf(b)
  <1>1. PICK new \in HashPositions :
          /\ keys[new] = NoBundle \/ new = old
          /\ keys' = [keys EXCEPT ![old] = NoBundle, ![new] = b]
          /\ hash_entries' = [hash_entries EXCEPT ![new] = hash_entries[old]]
          /\ timers' = IF new > 0 THEN timers \cup {b} ELSE timers \ {b}
    BY DEF NextStream, EntryMoved
  <1>2. /\ old \in HashPositions /\ keys[old] = b
        /\ \A q \in HashPositions : keys[q] = b => q = old
    BY PositionIs
  <1>3. /\ bundle' = [bundle EXCEPT ![b].stream_idx = bundle[b].stream_idx + 1]
        /\ UNCHANGED <<free_bundles, occur>> /\ CfgsInUse' = CfgsInUse
    BY DEF NextStream, CfgsInUse
  <1>4. /\ bundle \in [Bundles -> [cfg : BundleCfgs \cup {<<>>}, stream_idx : Nat]]
        /\ keys \in [HashPositions -> Bundles \cup {NoBundle}]
        /\ hash_entries \in [HashPositions -> Bundles \cup {NoBundle}]
    BY DEF L4BInv, L4BTypeOK
  <1>5. /\ keys'[new] = b
        /\ \A p \in HashPositions : p # new => keys'[p] = IF p = old THEN NoBundle ELSE keys[p]
        /\ hash_entries'[new] = hash_entries[old]
        /\ \A p \in HashPositions : p # new => hash_entries'[p] = hash_entries[p]
    BY <1>1, <1>2, <1>4
  <1>6. /\ bundle'[b].cfg = bundle[b].cfg /\ bundle'[b].stream_idx = bundle[b].stream_idx + 1
        /\ \A d \in Bundles : d # b => bundle'[d] = bundle[d]
    BY <1>0, <1>3, <1>4
  <1> HIDE DEF old
  <1>7. L4BTypeOK'
    <2>1. bundle' \in [Bundles -> [cfg : BundleCfgs \cup {<<>>}, stream_idx : Nat]]
      BY <1>0, <1>3, <1>4
    <2>2. keys' \in [HashPositions -> Bundles \cup {NoBundle}]
      BY <1>0, <1>1, <1>2, <1>4
    <2>3. hash_entries' \in [HashPositions -> Bundles \cup {NoBundle}]
      BY <1>1, <1>2, <1>4
    <2> QED BY <1>3, <2>1, <2>2, <2>3 DEF L4BInv, L4BTypeOK
  <1>8. KeysNameEntries'
    BY <1>0, <1>2, <1>3, <1>5 DEF L4BInv, KeysNameEntries
  <1>9. OneKey'
    <2> SUFFICES ASSUME NEW d \in CfgsInUse
                 PROVE  \E p \in HashPositions :
                          keys'[p] = d /\ \A q \in HashPositions : keys'[q] = d => q = p
      BY <1>3 DEF OneKey
    <2>1. CASE d = b
      BY <1>0, <1>2, <1>5, <2>1
    <2>2. CASE d # b
      <3>1. PICK p \in HashPositions : keys[p] = d /\ \A q \in HashPositions : keys[q] = d => q = p
        BY DEF L4BInv, OneKey
      <3>2. p # old /\ p # new /\ d # NoBundle
        BY <1>0, <1>1, <1>2, <2>2, <3>1, L4BundlesAssumption
      <3> QED BY <1>5, <2>2, <3>1, <3>2
    <2> QED BY <2>1, <2>2
  <1>10. StreamOfCfg'
    BY <1>0, <1>3, <1>6, L4BundlesAssumption DEF L4BInv, StreamOfCfg
  <1>11. MixKept'
    <2>1. \A d \in CfgsInUse : bundle'[d].cfg = bundle[d].cfg
      BY <1>0, <1>6
    <2>2. \A c : {d \in CfgsInUse : bundle[d].cfg = c}' = {d \in CfgsInUse : bundle[d].cfg = c}
      BY <1>3, <2>1
    <2> QED BY <1>3, <2>2 DEF L4BInv, MixKept
  <1>12. WaitsForTimer'
    <2>1. timers' \subseteq CfgsInUse'
      BY <1>1, <1>3 DEF L4BInv, WaitsForTimer
    <2>2. ASSUME NEW d \in CfgsInUse' \ timers'
          PROVE  Proto(d)' = "udp" \/ keys'[0] = d
      <3>1. CASE d = b
        <4>1. new = 0
          BY <1>1, <2>2, <3>1, L4BundlesAssumption DEF HashPositions
        <4> QED BY <1>5, <3>1, <4>1
      <3>2. CASE d # b
        <4>1. d \in CfgsInUse \ timers /\ bundle'[d] = bundle[d]
          BY <1>0, <1>1, <1>3, <1>6, <2>2, <3>2
        <4>2. keys[0] = d => keys'[0] = d
          BY <1>0, <1>1, <1>2, <1>5, <3>2, <4>1, FirstPosition, L4BundlesAssumption
        <4> QED BY <4>1, <4>2 DEF L4BInv, WaitsForTimer, Proto
      <3> QED BY <3>1, <3>2
    <2> QED BY <2>1, <2>2 DEF WaitsForTimer
  <1> QED BY <1>7, <1>8, <1>9, <1>10, <1>11, <1>12 DEF L4BInv

\* A call for a connection.
LEMMA StepProcess ==
  ASSUME L4BInv, NEW b \in CfgsInUse, bundle_proc_data(b) PROVE L4BInv'
  <1>1. CASE Finish({b})
    BY <1>1, StepFinish
  <1>2. ASSUME timers' = timers \cup {b} \/ (Proto(b) = "udp" /\ timers' = timers \ {b}),
               UNCHANGED <<free_bundles, occur, bundle, keys, hash_entries>>
        PROVE  L4BInv'
    <2>1. L4BTypeOK' /\ KeysNameEntries' /\ OneKey' /\ StreamOfCfg' /\ MixKept'
      BY <1>2 DEF L4BInv, L4BTypeOK, KeysNameEntries, OneKey, StreamOfCfg, MixKept, CfgsInUse
    <2>2. WaitsForTimer'
      BY <1>2 DEF L4BInv, WaitsForTimer, Proto, CfgsInUse
    <2> QED BY <2>1, <2>2 DEF L4BInv
  <1>3. CASE bundle[b].stream_idx < Len(bundle[b].cfg) /\ NextStream(b)
    BY <1>3, StepNextStream
  <1> QED BY <1>1, <1>2, <1>3 DEF bundle_proc_data

\* A connection is created.
LEMMA StepConnection ==
  ASSUME L4BInv, NEW b \in Bundles, NEW c \in BundleCfgs, NEW p \in HashPositions,
         NewConnection(b, c, p)
  PROVE  L4BInv'
  <1>1. /\ b \in free_bundles /\ occur[c] > 0 /\ keys[p] = NoBundle
        /\ free_bundles' = free_bundles \ {b} /\ occur' = [occur EXCEPT ![c] = occur[c] - 1]
        /\ bundle' = [bundle EXCEPT ![b] = [cfg |-> c, stream_idx |-> 1]]
        /\ keys' = [keys EXCEPT ![p] = b] /\ hash_entries' = [hash_entries EXCEPT ![p] = b]
        /\ timers' = timers \cup {b}
    BY DEF NewConnection
  <1>2. /\ CfgsInUse' = CfgsInUse \cup {b} /\ b \notin CfgsInUse /\ b # NoBundle
        /\ CfgsInUse \subseteq Bundles
    BY <1>1, L4BundlesAssumption DEF CfgsInUse
  <1>3. /\ bundle \in [Bundles -> [cfg : BundleCfgs \cup {<<>>}, stream_idx : Nat]]
        /\ keys \in [HashPositions -> Bundles \cup {NoBundle}]
        /\ hash_entries \in [HashPositions -> Bundles \cup {NoBundle}]
        /\ occur \in [BundleCfgs -> Nat]
    BY DEF L4BInv, L4BTypeOK
  <1>4. /\ bundle'[b] = [cfg |-> c, stream_idx |-> 1]
        /\ \A d \in CfgsInUse : bundle'[d] = bundle[d]
        /\ keys'[p] = b /\ hash_entries'[p] = b
        /\ \A q \in HashPositions : q # p => keys'[q] = keys[q] /\ hash_entries'[q] = hash_entries[q]
    BY <1>1, <1>2, <1>3
  <1>5. \A q \in HashPositions : keys[q] # b
    BY <1>2 DEF L4BInv, KeysNameEntries
  <1>6. L4BTypeOK'
    <2>1. occur' \in [BundleCfgs -> Nat]
      BY <1>1, <1>3
    <2>2. bundle' \in [Bundles -> [cfg : BundleCfgs \cup {<<>>}, stream_idx : Nat]]
      BY <1>1, <1>3
    <2>3. /\ keys' \in [HashPositions -> Bundles \cup {NoBundle}]
          /\ hash_entries' \in [HashPositions -> Bundles \cup {NoBundle}]
      BY <1>1, <1>3
    <2> QED BY <1>1, <2>1, <2>2, <2>3 DEF L4BInv, L4BTypeOK
  <1>7. KeysNameEntries'
    BY <1>2, <1>4 DEF L4BInv, KeysNameEntries
  <1>8. OneKey'
    <2> SUFFICES ASSUME NEW d \in CfgsInUse \cup {b}
                 PROVE  \E q \in HashPositions :
                          keys'[q] = d /\ \A r \in HashPositions : keys'[r] = d => r = q
      BY <1>2 DEF OneKey
    <2>1. CASE d = b
      BY <1>4, <1>5, <2>1
    <2>2. CASE d # b
      <3>1. PICK q \in HashPositions : keys[q] = d /\ \A r \in HashPositions : keys[r] = d => r = q
        BY <2>2 DEF L4BInv, OneKey
      <3>2. q # p
        BY <1>1, <1>2, <2>2, <3>1, L4BundlesAssumption
      <3> QED BY <1>4, <2>2, <3>1, <3>2
    <2> QED BY <2>1, <2>2
  <1>9. StreamOfCfg'
    <2>1. c \in Seq({"tcp", "udp"}) /\ c # <<>>
      BY L4BundlesAssumption
    <2>2. 1 \in 1 .. Len(c)
      BY <2>1
    <2> QED BY <1>2, <1>4, <2>2 DEF L4BInv, StreamOfCfg
  <1>10. MixKept'
    <2> SUFFICES ASSUME NEW k \in BundleCfgs
                 PROVE  (occur[k] + Cardinality({d \in CfgsInUse : bundle[d].cfg = k}) = Occurrences[k])'
      BY DEF MixKept
    <2> DEFINE S == {d \in CfgsInUse : bundle[d].cfg = k}
    <2>1. S \subseteq Bundles /\ b \notin S
      BY <1>2
    <2>2. IsFiniteSet(S) /\ Cardinality(S) \in Nat /\ occur[k] \in Nat
          /\ occur[k] + Cardinality(S) = Occurrences[k]
      BY <1>3, <2>1, UseCounted DEF L4BInv, MixKept
    <2>3. CASE k = c
      <3>1. {d \in CfgsInUse : bundle[d].cfg = k}' = S \cup {b}
        BY <1>2, <1>4, <2>3
      <3>2. Cardinality(S \cup {b}) = Cardinality(S) + 1
        BY <2>1, <2>2, FS_AddElement
      <3>3. occur'[k] = occur[k] - 1
        BY <1>1, <1>3, <2>3
      <3> HIDE DEF S
      <3>4. occur'[k] + Cardinality(S \cup {b}) = Occurrences[k]
        BY <2>2, <3>2, <3>3
      <3> QED BY <3>1, <3>4
    <2>4. CASE k # c
      <3>1. {d \in CfgsInUse : bundle[d].cfg = k}' = S
        BY <1>2, <1>4, <2>4
      <3>2. occur'[k] = occur[k]
        BY <1>1, <1>3, <2>4
      <3> HIDE DEF S
      <3> QED BY <2>2, <3>1, <3>2
    <2> QED BY <2>3, <2>4
  <1>11. WaitsForTimer'
    <2>1. timers' \subseteq CfgsInUse'
      BY <1>1, <1>2 DEF L4BInv, WaitsForTimer
    <2>2. ASSUME NEW d \in CfgsInUse' \ timers'
          PROVE  Proto(d)' = "udp" \/ keys'[0] = d
      <3>1. d \in CfgsInUse \ timers /\ bundle'[d] = bundle[d]
        BY <1>1, <1>2, <1>4, <2>2
      <3>2. keys[0] = d => keys'[0] = d
        BY <1>1, <1>2, <1>4, <3>1, FirstPosition, L4BundlesAssumption
      <3> QED BY <3>1, <3>2 DEF L4BInv, WaitsForTimer, Proto
    <2> QED BY <2>1, <2>2 DEF WaitsForTimer
  <1> QED BY <1>6, <1>7, <1>8, <1>9, <1>10, <1>11 DEF L4BInv

\* Every step of the client keeps the invariant.
LEMMA BundlesNext == L4BInv /\ [L4BNext]_l4b_vars => L4BInv'
  <1> SUFFICES ASSUME L4BInv, [L4BNext]_l4b_vars PROVE L4BInv'
    OBVIOUS
  <1>1. ASSUME NEW p \in HashPositions, ReceiveAt(p) PROVE L4BInv'
    <2>1. hash_entries[p] \in CfgsInUse
      BY <1>1 DEF ReceiveAt, L4BInv, KeysNameEntries
    <2> QED BY <1>1, <2>1, StepProcess DEF ReceiveAt
  <1>2. ASSUME NEW b \in Bundles, TimerExpires(b) PROVE L4BInv'
    <2>1. b \in CfgsInUse
      BY <1>2 DEF TimerExpires, L4BInv, WaitsForTimer
    <2> QED BY <1>2, <2>1, StepProcess DEF TimerExpires
  <1>3. ASSUME NEW b \in Bundles, NEW c \in BundleCfgs, NEW p \in HashPositions,
               NewConnection(b, c, p)
        PROVE  L4BInv'
    BY <1>3, StepConnection
  <1>4. CASE stop_task_gen_client
    BY <1>4, StepFinish DEF stop_task_gen_client, L4BInv, WaitsForTimer
  <1>5. CASE UNCHANGED l4b_vars
    BY <1>5 DEF l4b_vars, L4BInv, L4BTypeOK, KeysNameEntries, OneKey, StreamOfCfg, MixKept,
                WaitsForTimer, Proto, CfgsInUse
  <1> QED BY <1>1, <1>2, <1>3, <1>4, <1>5 DEF L4BNext

\* The invariant holds in every state.
LEMMA BundlesInvariance == L4BSpec => []L4BInv
  BY BundlesInit, BundlesNext, PTL DEF L4BSpec

\* However connections end, are renamed or are cut short, the mix of what is
\* generated does not drift, a packet is given to the connection with its
\* tuple, and a connection without a timer is one of those described.
THEOREM ConnectionsKept == L4BSpec => []BundlesSound
  <1>1. L4BInv => BundlesSound
    <2> SUFFICES ASSUME L4BInv PROVE BundlesSound
      OBVIOUS
    <2>1. ASSUME NEW b \in CfgsInUse PROVE Cardinality({p \in HashPositions : keys[p] = b}) = 1
      <3>1. {p \in HashPositions : keys[p] = b} = {PositionOf(b)}
        BY PositionIs
      <3> QED BY <3>1, FS_Singleton
    <2> QED BY <2>1 DEF L4BInv, BundlesSound, FoundByTuple
  <1> QED BY <1>1, BundlesInvariance, PTL

-----------------------------------------------------------------------------
(***************************************************************************)
(* The packet generator: sums of sizes.                                    *)
(***************************************************************************)

\* f is the function by which SumOf adds the first n of the sizes s.
Adds(f, s, n) == f = [k \in 0 .. n |-> IF k = 0 THEN 0 ELSE f[k - 1] + s[k]]

\* The function that adds exists, for every number of sizes.
LEMMA AddsExists ==
  ASSUME NEW s, NEW n \in Nat
  PROVE  \E f : Adds(f, s, n)
  <1> DEFINE T == {m \in Nat : ~ \E f : Adds(f, s, m)}
  <1> SUFFICES ASSUME T # {} PROVE FALSE
    OBVIOUS
  <1> PICK m \in T : \A l \in T : m <= l
    BY LeastNatural
  <1>1. CASE m = 0
    <2>1. Adds([k \in 0 .. 0 |-> 0], s, 0)
      BY DEF Adds
    <2> QED BY <1>1, <2>1
  <1>2. CASE m # 0
    <2>1. m - 1 \in Nat /\ m - 1 \notin T
      BY <1>2
    <2>2. PICK f : Adds(f, s, m - 1)
      BY <2>1
    <2> DEFINE g == [k \in 0 .. m |-> IF k = m THEN f[m - 1] + s[m] ELSE f[k]]
    <2>3. ASSUME NEW k \in 0 .. m PROVE g[k] = IF k = 0 THEN 0 ELSE g[k - 1] + s[k]
      <3>1. CASE k = m
        BY <1>2, <3>1
      <3>2. CASE k = 0
        BY <1>2, <2>1, <2>2, <3>2 DEF Adds
      <3>3. CASE k # m /\ k # 0
        <4>1. k \in 0 .. m - 1 /\ k - 1 \in 0 .. m /\ k - 1 # m
          BY <3>3
        <4>2. f[k] = f[k - 1] + s[k]
          BY <2>2, <3>3, <4>1 DEF Adds
        <4> QED BY <3>3, <4>1, <4>2
      <3> QED BY <3>1, <3>2, <3>3
    <2>4. Adds(g, s, m)
      <3> HIDE DEF g
      <3>1. g = [k \in 0 .. m |-> g[k]]
        BY DEF g
      <3> QED BY <2>3, <3>1 DEF Adds
    <2> QED BY <2>4
  <1> QED BY <1>1, <1>2

\* It is the one SumOf chooses.
LEMMA SumAdds ==
  ASSUME NEW s, NEW n \in Nat
  PROVE  \E f : Adds(f, s, n) /\ SumOf(s, n) = f[n]
  BY AddsExists DEF SumOf, Adds

\* Sums are what their name says.
LEMMA SumSteps ==
  ASSUME NEW s
  PROVE  /\ SumOf(s, 0) = 0
         /\ \A n \in Nat : SumOf(s, n + 1) = SumOf(s, n) + s[n + 1]
  <1>1. SumOf(s, 0) = 0
    <2>1. PICK f : Adds(f, s, 0) /\ SumOf(s, 0) = f[0]
      BY SumAdds
    <2> QED BY <2>1 DEF Adds
  <1>2. ASSUME NEW n \in Nat PROVE SumOf(s, n + 1) = SumOf(s, n) + s[n + 1]
    <2>1. PICK f : Adds(f, s, n + 1) /\ SumOf(s, n + 1) = f[n + 1]
      <3> n + 1 \in Nat
        OBVIOUS
      <3> QED BY SumAdds
    <2>2. PICK g : Adds(g, s, n) /\ SumOf(s, n) = g[n]
      BY SumAdds
    <2>3. \A k \in 0 .. n : f[k] = g[k]
      <3> DEFINE T == {k \in 0 .. n : f[k] # g[k]}
      <3> SUFFICES ASSUME T # {} PROVE FALSE
        OBVIOUS
      <3> PICK m \in T : \A l \in T : m <= l
        <4> T \in SUBSET Nat
          OBVIOUS
        <4> QED BY LeastNatural
      <3>1. f[m] = (IF m = 0 THEN 0 ELSE f[m - 1] + s[m]) /\ g[m] = IF m = 0 THEN 0 ELSE g[m - 1] + s[m]
        BY <2>1, <2>2 DEF Adds
      <3>2. m # 0 => m - 1 \in 0 .. n /\ m - 1 \notin T
        OBVIOUS
      <3> QED BY <3>1, <3>2
    <2>4. f[n + 1] = f[n] + s[n + 1]
      BY <2>1 DEF Adds
    <2> QED BY <2>1, <2>2, <2>3, <2>4
  <1> QED BY <1>1, <1>2

\* Sums are numbers and grow with what they add.
LEMMA SumBounds ==
  ASSUME NEW n \in Nat, NEW s \in [1 .. n -> Nat]
  PROVE  /\ \A k \in 0 .. n : SumOf(s, k) \in Nat
         /\ \A j, k \in 0 .. n : j <= k => SumOf(s, j) <= SumOf(s, k)
  <1>1. \A k \in 0 .. n : SumOf(s, k) \in Nat
    <2> DEFINE T == {k \in 0 .. n : SumOf(s, k) \notin Nat}
    <2> SUFFICES ASSUME T # {} PROVE FALSE
      OBVIOUS
    <2> PICK m \in T : \A l \in T : m <= l
      <3> T \in SUBSET Nat
        OBVIOUS
      <3> QED BY LeastNatural
    <2>1. m # 0
      BY SMTT(60), SumSteps
    <2>2. m - 1 \in 0 .. n /\ m - 1 \notin T /\ m - 1 \in Nat /\ m = (m - 1) + 1 /\ s[m] \in Nat
      BY <2>1
    <2>3. SumOf(s, m) = SumOf(s, m - 1) + s[m]
      BY <2>2, SumSteps
    <2> QED BY <2>2, <2>3
  <1>2. ASSUME NEW j \in 0 .. n PROVE \A k \in 0 .. n : j <= k => SumOf(s, j) <= SumOf(s, k)
    <2> DEFINE T == {k \in 0 .. n : j <= k /\ ~ (SumOf(s, j) <= SumOf(s, k))}
    <2> SUFFICES ASSUME T # {} PROVE FALSE
      OBVIOUS
    <2> PICK m \in T : \A l \in T : m <= l
      <3> T \in SUBSET Nat
        OBVIOUS
      <3> QED BY LeastNatural
    <2>1. SumOf(s, j) \in Nat /\ SumOf(s, m) \in Nat
      BY <1>1
    <2>2. m # j
      BY <2>1
    <2>3. /\ m - 1 \in 0 .. n /\ j <= m - 1 /\ m - 1 \notin T /\ m - 1 \in Nat /\ m = (m - 1) + 1
          /\ s[m] \in Nat
      BY <2>2
    <2>4. SumOf(s, m) = SumOf(s, m - 1) + s[m]
      BY <2>3, SumSteps
    <2>5. SumOf(s, m - 1) \in Nat
      BY <1>1, <2>3
    <2> QED BY <2>1, <2>3, <2>4, <2>5
  <1> QED BY <1>1, <1>2

\* Sums of equal sizes depend on their number only.
LEMMA SumEqual ==
  ASSUME NEW n \in Nat, NEW s \in [1 .. n -> Nat], \A i \in 1 .. n : s[i] = s[1],
         NEW j \in 0 .. n
  PROVE  \A k \in 0 .. n - j : SumOf(s, j + k) = SumOf(s, j) + SumOf(s, k)
  <1> DEFINE T == {k \in 0 .. n - j : SumOf(s, j + k) # SumOf(s, j) + SumOf(s, k)}
  <1> SUFFICES ASSUME T # {} PROVE FALSE
    OBVIOUS
  <1> PICK m \in T : \A l \in T : m <= l
    <2> T \in SUBSET Nat
      OBVIOUS
    <2> QED BY LeastNatural
  <1>1. SumOf(s, j) \in Nat /\ SumOf(s, m) \in Nat
    BY SumBounds
  <1>2. m # 0
    BY <1>1, SumSteps
  <1>3. /\ m - 1 \in 0 .. n - j /\ m - 1 \notin T /\ m - 1 \in Nat /\ j + m - 1 \in Nat
        /\ m = (m - 1) + 1 /\ j + m = (j + m - 1) + 1 /\ j + m - 1 = j + (m - 1)
        /\ s[m] = s[1] /\ s[j + m] = s[1] /\ s[1] \in Nat
    BY <1>2
  <1>4. SumOf(s, m) = SumOf(s, m - 1) + s[m] /\ SumOf(s, j + m) = SumOf(s, j + m - 1) + s[j + m]
    BY <1>3, SumSteps
  <1>5. SumOf(s, m - 1) \in Nat /\ SumOf(s, j + m - 1) = SumOf(s, j) + SumOf(s, m - 1)
    BY <1>3, SumBounds
  <1> QED BY <1>1, <1>3, <1>4, <1>5

-----------------------------------------------------------------------------
(***************************************************************************)
(* The packet generator: counts, sizes and stamps.                         *)
(***************************************************************************)

\* The packets of a bulk have sizes of the templates.
LEMMA SizesTypes ==
  ASSUME GenInv, NEW n \in Nat
  PROVE  Sizes(n) \in [1 .. n -> Nat]
  <1>1. GenSizes \subseteq Nat
    BY GenAssumption
  <1>2. /\ template_len \in Seq(GenSizes) /\ template_len # <<>> /\ pkt_idx \in Nat \ {0}
    BY DEF GenInv, GenTypeOK
  <1>3. Len(template_len) \in Nat \ {0}
    BY <1>2, EmptySeq, LenProperties
  <1> SUFFICES ASSUME NEW k \in 1 .. n
               PROVE  template_len[((pkt_idx + k - 2) % Len(template_len)) + 1] \in Nat
    BY DEF Sizes
  <1> DEFINE r == (pkt_idx + k - 2) % Len(template_len)
  <1>4. r \in 0 .. Len(template_len) - 1
    <2>1. pkt_idx + k - 2 \in Int
      BY <1>2
    <2> HIDE DEF r
    <2> QED BY <1>3, <2>1, Division DEF r
  <1> HIDE DEF r
  <1>5. r + 1 \in 1 .. Len(template_len)
    BY <1>3, <1>4
  <1>6. template_len[r + 1] \in GenSizes
    BY <1>2, <1>5, ElementOfSeq
  <1> QED BY <1>1, <1>6 DEF r

\* What the types say of the numbers.
LEMMA GenNumbers ==
  /\ MinBulk \in Nat \ {0} /\ MaxBulk \in Nat /\ MinBulk <= MaxBulk
  /\ Endless \in Nat /\ GenCounts \subseteq 0 .. Endless - 1
  BY GenAssumption DEF Endless

\* As many packets are found as the bytes and the count allow.
LEMMA BulkFound ==
  ASSUME GenInv, NEW bytes_now \in Nat
  PROVE  /\ calc_send_bulk(bytes_now) \in 0 .. Limit
         /\ Limit \in 0 .. MaxBulk /\ (pkt_count # Endless => Limit <= pkt_count)
  <1>1. Limit \in 0 .. MaxBulk /\ (pkt_count # Endless => Limit <= pkt_count)
    BY GenNumbers DEF Limit, GenInv, GenTypeOK
  <1> DEFINE T == {k \in 0 .. Limit : k < Limit => SumOf(Sizes(k + 1), k + 1) > bytes_now}
             found(k) == /\ SumOf(Sizes(k), k) <= bytes_now
                         /\ k < Limit => SumOf(Sizes(k + 1), k + 1) > bytes_now
  <1>2. \E k \in 0 .. Limit : found(k)
    <2>1. T \in SUBSET Nat /\ Limit \in T
      BY <1>1
    <2>2. PICK m \in T : \A l \in T : m <= l
      BY <2>1, LeastNatural
    <2>3. CASE m = 0
      BY <1>1, <2>2, <2>3, SumSteps
    <2>4. CASE m # 0
      <3>1. m - 1 \in 0 .. Limit /\ m - 1 < Limit /\ m - 1 \notin T /\ (m - 1) + 1 = m /\ m \in Nat
        BY <1>1, <2>2, <2>4
      <3>2. ~ (SumOf(Sizes(m), m) > bytes_now)
        BY <3>1
      <3>3. SumOf(Sizes(m), m) \in Nat
        <4>1. m \in Nat /\ m \in 0 .. m
          BY <3>1
        <4> HIDE DEF T
        <4>2. Sizes(m) \in [1 .. m -> Nat]
          BY <4>1, SizesTypes
        <4> QED BY <4>1, <4>2, SumBounds
      <3> QED BY <2>2, <3>2, <3>3
    <2> QED BY <2>3, <2>4
  <1>3. (CHOOSE k \in 0 .. Limit : found(k)) \in 0 .. Limit
    BY <1>2
  <1>4. 0 \in 0 .. Limit
    BY <1>1
  <1> QED BY <1>1, <1>3, <1>4 DEF calc_send_bulk

\* Nothing is on its way at the start.
LEMMA InitGenInv == GenInit => GenInv
  <1> SUFFICES ASSUME GenInit PROVE GenInv
    OBVIOUS
  <1> PICK size \in GenSizes : Fits(size) /\ template_len = <<size>> /\ imix_pkt_sizes = <<size, size>>
    BY DEF GenInit
  <1>1. size \in Nat /\ size \in GenSizes
    BY GenAssumption
  <1>2. GenTypeOK
    <2>1. /\ template_len \in Seq(GenSizes) /\ template_len # <<>>
          /\ imix_pkt_sizes \in Seq(GenSizes) /\ Len(imix_pkt_sizes) = 2
      BY <1>1
    <2>2. /\ pkt_count \in 0 .. Endless /\ budget \in Int /\ bulk \in 0 .. MaxBulk
      BY GenNumbers DEF GenInit
    <2>3. /\ pkt_idx \in Nat \ {0} /\ new_imix_nb_pkts \in 0 .. 2 /\ checking \in 0 .. 2
          /\ gen_at \in {"start", "applied", "take", "send"}
          /\ earliest \in Nat /\ stamp \in Nat \cup {-1}
      BY DEF GenInit
    <2>4. overlap \in BOOLEAN /\ uneven \in BOOLEAN
      BY DEF GenInit
    <2> QED BY <2>1, <2>2, <2>3, <2>4 DEF GenTypeOK
  <1>3. WaitingChecked
    BY DEF WaitingChecked, SizesFit, GenInit
  <1>4. BulkCounted
    BY DEF BulkCounted, GenInit
  <1>5. GenSound
    BY GenNumbers DEF GenSound, CountRespected, SizesChecked, StampsIncrease, GenInit
  <1> QED BY <1>2, <1>3, <1>4, <1>5 DEF GenInv

\* A command that finds the one before taken, between two calls, sets the budget.
LEMMA Overlapping ==
  ASSUME GenInv, NEW count, Overlaps(count)
  PROVE  /\ overlap' \in BOOLEAN
         /\ ~ overlap' => ~ overlap /\ gen_at = "start" /\ new_imix_nb_pkts = 0 /\ budget' = count
         /\ overlap' => budget' = Endless
  BY DEF Overlaps, GenInv, GenTypeOK

\* A command: what it says of the count holds once no other is on its way.
LEMMA CountCommand ==
  ASSUME GenInv, NEW count \in GenCounts, task_gen_set_pkt_count(count)
  PROVE  GenInv'
  <1>1. count \in 0 .. Endless - 1 /\ Endless \in Nat
    BY GenNumbers
  <1>2. GenTypeOK'
    BY <1>1 DEF GenInv, GenTypeOK, task_gen_set_pkt_count, Overlaps, templates, timing
  <1>3. WaitingChecked'
    BY DEF GenInv, WaitingChecked, SizesFit, task_gen_set_pkt_count, Overlaps, templates, timing
  <1>4. BulkCounted'
    <2>1. /\ pkt_count' = count /\ gen_at' = gen_at /\ bulk' = bulk
          /\ Overlaps(count)
      BY DEF task_gen_set_pkt_count
    <2>2. ~ overlap' => gen_at = "start" /\ budget' = count
      BY <2>1, Overlapping
    <2> QED BY <1>1, <2>1, <2>2 DEF GenInv, BulkCounted
  <1>5. GenSound'
    BY <1>1 DEF GenInv, GenSound, CountRespected, SizesChecked, StampsIncrease,
              task_gen_set_pkt_count, Overlaps, templates, timing
  <1> QED BY <1>2, <1>3, <1>4, <1>5 DEF GenInv

\* A command copies the sizes it was given.
LEMMA CopyCommand ==
  ASSUME GenInv, NEW sizes \in Seq(GenSizes), Len(sizes) \in {1, 2}, CopySizes(sizes)
  PROVE  GenInv'
  <1>1. Endless \in Nat
    BY GenNumbers
  <1>2. imix_pkt_sizes' \in Seq(GenSizes) /\ Len(imix_pkt_sizes') = 2
    <2>1. imix_pkt_sizes \in Seq(GenSizes) /\ Len(imix_pkt_sizes) = 2
      BY DEF GenInv, GenTypeOK
    <2>2. ASSUME NEW i \in 1 .. 2
          PROVE  imix_pkt_sizes[i] \in GenSizes /\ (i <= Len(sizes) => sizes[i] \in GenSizes)
      <3>1. i \in 1 .. Len(imix_pkt_sizes) /\ (i <= Len(sizes) => i \in 1 .. Len(sizes))
        BY <2>1
      <3> QED BY <2>1, <3>1, ElementOfSeq
    <2>3. imix_pkt_sizes' \in [1 .. 2 -> GenSizes]
      BY <2>2 DEF CopySizes
    <2>4. imix_pkt_sizes' \in Seq(GenSizes) /\ DOMAIN imix_pkt_sizes' = 1 .. 2
      BY <2>3, SeqDef
    <2>5. Len(imix_pkt_sizes') \in Nat /\ 1 .. 2 = 1 .. Len(imix_pkt_sizes')
      BY <2>4, LenProperties
    <2> QED BY <2>4, <2>5
  <1>3. GenTypeOK'
    BY <1>1, <1>2 DEF GenInv, GenTypeOK, CopySizes, Overlaps, templates, timing
  <1>4. WaitingChecked'
    <2>1. ~ overlap' => new_imix_nb_pkts = 0
      BY Overlapping DEF CopySizes
    <2> QED BY <2>1 DEF WaitingChecked, SizesFit, CopySizes
  <1>5. BulkCounted'
    BY <1>1 DEF GenInv, GenTypeOK, BulkCounted, CopySizes, Overlaps, templates, timing
  <1>6. GenSound'
    BY <1>1 DEF GenInv, GenSound, CountRespected, SizesChecked, StampsIncrease,
              CopySizes, Overlaps, templates, timing
  <1> QED BY <1>3, <1>4, <1>5, <1>6 DEF GenInv

\* A command checks sizes before they wait for the worker.
LEMMA CheckCommand ==
  ASSUME GenInv, CheckSizes
  PROVE  GenInv'
  <1>1. Endless \in Nat
    BY GenNumbers
  <1>2. GenTypeOK'
    BY <1>1 DEF GenInv, GenTypeOK, CheckSizes, Overlaps, templates, timing
  <1>3. WaitingChecked'
    BY DEF GenInv, GenTypeOK, WaitingChecked, SizesFit, CheckSizes, Overlaps, templates, timing
  <1>4. BulkCounted'
    BY <1>1 DEF GenInv, GenTypeOK, BulkCounted, CheckSizes, Overlaps, templates, timing
  <1>5. GenSound'
    BY <1>1 DEF GenInv, GenSound, CountRespected, SizesChecked, StampsIncrease,
              CheckSizes, Overlaps, templates, timing
  <1> QED BY <1>2, <1>3, <1>4, <1>5 DEF GenInv

\* A command sets the size of a template.
LEMMA SizeCommand ==
  ASSUME GenInv, NEW size \in GenSizes, task_gen_set_pkt_size(size)
  PROVE  GenInv'
  <1>1. Endless \in Nat
    BY GenNumbers
  <1>2. /\ template_len \in Seq(GenSizes) /\ template_len # <<>>
        /\ template_len' = [i \in DOMAIN template_len |-> IF Fits(size) THEN size ELSE template_len[i]]
        /\ UNCHANGED <<pkt_idx, imix_pkt_sizes, new_imix_nb_pkts, checking, pkt_count, gen_at, bulk>>
        /\ UNCHANGED <<earliest, stamp, uneven>>
        /\ Overlaps(budget)
    BY DEF GenInv, GenTypeOK, task_gen_set_pkt_size, timing
  <1>3. /\ overlap' \in BOOLEAN
        /\ ~ overlap' => ~ overlap /\ gen_at = "start" /\ new_imix_nb_pkts = 0 /\ budget' = budget
        /\ overlap' => budget' = Endless
    BY <1>2, Overlapping
  <1>4. template_len' \in Seq(GenSizes) /\ template_len' # <<>>
    <2>1. /\ DOMAIN template_len = 1 .. Len(template_len) /\ Len(template_len) \in Nat \ {0}
          /\ \A i \in 1 .. Len(template_len) : template_len[i] \in GenSizes
      BY <1>2, EmptySeq, LenProperties, ElementOfSeq
    <2>2. template_len' \in [1 .. Len(template_len) -> GenSizes]
      BY <1>2, <2>1
    <2>3. template_len' \in Seq(GenSizes)
      BY <2>1, <2>2, SeqDef
    <2>4. 1 \in DOMAIN template_len'
      BY <2>1, <2>2
    <2> QED BY <2>3, <2>4
  <1>5. GenTypeOK'
    <2>1. budget' \in Int
      BY <1>1, <1>3 DEF GenInv, GenTypeOK
    <2> QED BY <1>2, <1>3, <1>4, <2>1 DEF GenInv, GenTypeOK
  <1>6. WaitingChecked'
    BY <1>2, <1>3 DEF WaitingChecked, SizesFit
  <1>7. BulkCounted'
    BY <1>2, <1>3 DEF GenInv, BulkCounted
  <1>8. GenSound'
    <2>1. CountRespected' /\ StampsIncrease'
      BY <1>2, <1>3 DEF GenInv, GenSound, CountRespected, StampsIncrease
    <2>2. SizesChecked'
      BY <1>2, <1>3 DEF GenInv, GenSound, SizesChecked
    <2> QED BY <2>1, <2>2 DEF GenSound
  <1> QED BY <1>5, <1>6, <1>7, <1>8 DEF GenInv

\* The worker takes sizes that were checked.
LEMMA ImixApplied ==
  ASSUME GenInv, ApplyImix
  PROVE  GenInv'
  <1>1. /\ gen_at = "start" /\ gen_at' = "applied"
        /\ UNCHANGED <<imix_pkt_sizes, checking, budget, overlap, new_imix_nb_pkts, pkt_count, bulk>>
        /\ UNCHANGED <<earliest, stamp, uneven>>
    BY DEF ApplyImix, commands, timing
  <1>2. CASE new_imix_nb_pkts = 0
    <2>1. UNCHANGED <<template_len, pkt_idx>>
      BY <1>2 DEF ApplyImix, templates
    <2>2. GenTypeOK'
      BY <1>1, <2>1 DEF GenInv, GenTypeOK
    <2>3. WaitingChecked' /\ BulkCounted'
      BY <1>1 DEF GenInv, WaitingChecked, SizesFit, BulkCounted
    <2>4. GenSound'
      BY <1>1, <2>1 DEF GenInv, GenSound, CountRespected, SizesChecked, StampsIncrease
    <2> QED BY <2>2, <2>3, <2>4 DEF GenInv
  <1>3. CASE new_imix_nb_pkts # 0
    <2> DEFINE k == new_imix_nb_pkts
    <2>1. /\ k \in 1 .. 2 /\ imix_pkt_sizes \in Seq(GenSizes) /\ Len(imix_pkt_sizes) = 2
          /\ template_len' = SubSeq(imix_pkt_sizes, 1, k)
          /\ pkt_idx' = IF pkt_idx > k THEN 1 ELSE pkt_idx
          /\ pkt_idx \in Nat \ {0}
      BY <1>3 DEF ApplyImix, GenInv, GenTypeOK
    <2> HIDE DEF k
    <2>2. /\ Len(template_len') = k /\ template_len' \in Seq(GenSizes)
          /\ \A i \in 1 .. k : template_len'[i] = imix_pkt_sizes[i]
      BY <2>1, SubSeqProperties
    <2>3. DOMAIN template_len' = 1 .. k
      BY <2>2, LenProperties
    <2>4. GenTypeOK'
      <3>1. template_len' # <<>> /\ pkt_idx' \in Nat \ {0}
        BY <2>1, <2>2
      <3> QED BY <1>1, <2>2, <3>1 DEF GenInv, GenTypeOK
    <2>5. WaitingChecked' /\ BulkCounted'
      BY <1>1 DEF GenInv, WaitingChecked, SizesFit, BulkCounted
    <2>6. SizesChecked'
      BY <1>1, <2>2, <2>3 DEF GenInv, WaitingChecked, SizesFit, SizesChecked, Fits, k
    <2>7. GenSound'
      BY <1>1, <2>6 DEF GenInv, GenSound, CountRespected, StampsIncrease
    <2> QED BY <2>4, <2>5, <2>7 DEF GenInv
  <1> QED BY <1>2, <1>3

\* A bulk is no more than the count allows.
LEMMA BulkCalculated ==
  ASSUME GenInv, CalcBulk
  PROVE  GenInv'
  <1>1. /\ gen_at = "applied" /\ new_imix_nb_pkts' = 0
        /\ UNCHANGED <<imix_pkt_sizes, checking, budget, overlap, template_len, pkt_idx, pkt_count>>
        /\ UNCHANGED <<earliest, stamp, uneven>>
    BY DEF CalcBulk, commands, templates, timing
  <1>2. /\ bulk' \in 0 .. MaxBulk
        /\ gen_at' = IF bulk' = 0 THEN "start" ELSE "take"
        /\ pkt_count # Endless => bulk' <= pkt_count
    <2>1. CASE pkt_count = 0
      BY <2>1, GenNumbers DEF CalcBulk
    <2>2. CASE pkt_count # 0
      <3>1. PICK bytes_now \in 0 .. (MaxBulk * MaxFrame) :
              bulk' = calc_send_bulk(bytes_now) /\ gen_at' = IF bulk' = 0 THEN "start" ELSE "take"
        BY <2>2 DEF CalcBulk
      <3>2. bytes_now \in Nat
        OBVIOUS
      <3>3. /\ bulk' \in 0 .. Limit /\ Limit \in 0 .. MaxBulk
            /\ pkt_count # Endless => Limit <= pkt_count
        BY <3>1, <3>2, BulkFound
      <3>4. MaxBulk \in Nat /\ pkt_count \in Int
        BY GenNumbers DEF GenInv, GenTypeOK
      <3> QED BY <3>1, <3>3, <3>4
    <2> QED BY <2>1, <2>2
  <1>3. GenTypeOK'
    BY <1>1, <1>2 DEF GenInv, GenTypeOK
  <1>4. WaitingChecked'
    BY <1>1 DEF WaitingChecked, SizesFit
  <1>5. BulkCounted'
    BY <1>1, <1>2 DEF GenInv, BulkCounted
  <1>6. GenSound'
    BY <1>1 DEF GenInv, GenSound, CountRespected, SizesChecked, StampsIncrease
  <1> QED BY <1>3, <1>4, <1>5, <1>6 DEF GenInv

\* The count is reduced by the bulk before it is sent.
LEMMA CountTaken ==
  ASSUME GenInv, TakeCount
  PROVE  GenInv'
  <1>1. /\ gen_at = "take" /\ gen_at' = "send"
        /\ UNCHANGED <<template_len, pkt_idx, imix_pkt_sizes, new_imix_nb_pkts, checking, bulk>>
        /\ UNCHANGED <<earliest, stamp, uneven>>
    BY DEF TakeCount, templates, timing
  <1>2. CASE pkt_count' = Reduced(bulk) /\ UNCHANGED <<budget, overlap>>
    <2>1. /\ pkt_count \in 0 .. Endless /\ bulk \in 0 .. MaxBulk /\ bulk # 0
          /\ Endless \in Nat /\ MaxBulk \in Nat
      BY <1>1, GenNumbers DEF GenInv, GenTypeOK, BulkCounted
    <2>2. /\ pkt_count' \in 0 .. Endless
          /\ pkt_count = Endless => pkt_count' = Endless
          /\ pkt_count # Endless => pkt_count' # Endless
          /\ pkt_count # Endless /\ bulk <= pkt_count => pkt_count' = pkt_count - bulk
      BY <1>2, <2>1 DEF Reduced
    <2>3. GenTypeOK'
      BY <1>1, <1>2, <2>2 DEF GenInv, GenTypeOK
    <2>4. WaitingChecked'
      BY <1>1, <1>2 DEF GenInv, WaitingChecked, SizesFit
    <2>5. BulkCounted'
      <3>1. ~ overlap /\ budget # Endless =>
              pkt_count # Endless /\ bulk <= pkt_count /\ budget >= pkt_count
        <4>1. /\ ~ overlap => pkt_count = Endless \/ bulk <= pkt_count
              /\ ~ overlap /\ budget # Endless => pkt_count # Endless /\ budget >= pkt_count + 0
          BY <1>1 DEF GenInv, BulkCounted
        <4> QED BY <2>1, <4>1 DEF GenInv, GenTypeOK
      <3>2. ~ overlap /\ budget # Endless => pkt_count' # Endless /\ budget >= pkt_count' + bulk
        BY <2>1, <2>2, <3>1
      <3> QED BY <1>1, <1>2, <2>1, <3>2 DEF BulkCounted
    <2>6. GenSound'
      BY <1>1, <1>2 DEF GenInv, GenSound, CountRespected, SizesChecked, StampsIncrease
    <2> QED BY <2>3, <2>4, <2>5, <2>6 DEF GenInv
  <1>3. ASSUME NEW count \in GenCounts, ~ overlap, pkt_count # Endless, pkt_count >= bulk,
               budget' = Endless, overlap' = TRUE,
               pkt_count' \in {pkt_count - bulk, (count - bulk) % GenModulus}
        PROVE  GenInv'
    <2>1. /\ pkt_count \in 0 .. Endless /\ bulk \in 0 .. MaxBulk /\ bulk # 0
          /\ Endless \in Nat /\ MaxBulk \in Nat /\ count \in Nat
      BY <1>1, GenNumbers DEF GenInv, GenTypeOK, BulkCounted
    <2>2. (count - bulk) % GenModulus \in 0 .. Endless
      <3>1. count - bulk \in Int /\ GenModulus \in Nat \ {0}
        BY <2>1, GenAssumption
      <3>2. (count - bulk) % GenModulus \in 0 .. GenModulus - 1
        BY <3>1, Division
      <3> QED BY <3>2 DEF Endless
    <2>3. pkt_count' \in 0 .. Endless
      BY <1>3, <2>1, <2>2
    <2>4. GenTypeOK'
      BY <1>1, <1>3, <2>1, <2>3 DEF GenInv, GenTypeOK
    <2>5. WaitingChecked' /\ BulkCounted'
      BY <1>1, <1>3, <2>1 DEF WaitingChecked, BulkCounted
    <2>6. GenSound'
      BY <1>1, <1>3 DEF GenInv, GenSound, CountRespected, SizesChecked, StampsIncrease
    <2> QED BY <2>4, <2>5, <2>6 DEF GenInv
  <1> QED BY <1>2, <1>3 DEF TakeCount

\* Time stamps: the packets of a bulk, and the correction for those refused.
LEMMA StampsOfBulk ==
  ASSUME NEW n \in Nat \ {0}, NEW s \in [1 .. n -> Nat], NEW ret \in 0 .. n, earliest \in Nat
  PROVE  /\ Earliest(s, ret) \in Nat
         /\ ret = n => Earliest(s, ret) = earliest
         /\ ret < n /\ (ret = 0 \/ \A i \in 1 .. n : s[i] = s[1]) =>
              /\ earliest + SumOf(s, n - ret - 1) \in Nat
              /\ earliest + SumOf(s, n - ret - 1) <= Earliest(s, ret)
  <1>1. Len(s) = n
    <2>1. s \in Seq(Nat)
      BY SeqDef
    <2>2. DOMAIN s = 1 .. n /\ DOMAIN s = 1 .. Len(s) /\ Len(s) \in Nat
      BY <2>1, LenProperties
    <2> QED BY <2>2
  <1>2. /\ n \in 0 .. n /\ n - 1 \in 0 .. n
        /\ SumOf(s, n) \in Nat /\ SumOf(s, n - 1) \in Nat /\ SumOf(s, n - 1) <= SumOf(s, n)
    BY SumBounds
  <1>3. CASE ret = 0
    BY <1>1, <1>2, <1>3 DEF Earliest
  <1>4. CASE ret # 0
    <2>1. /\ ret - 1 \in 0 .. n /\ ret - 1 <= n - 1
          /\ SumOf(s, ret - 1) \in Nat /\ SumOf(s, ret - 1) <= SumOf(s, n - 1)
      <3>1. ret - 1 \in 0 .. n /\ ret - 1 <= n - 1
        BY <1>4
      <3> QED BY <1>2, <3>1, SumBounds
    <2>2. Earliest(s, ret) = earliest + SumOf(s, n - 1) - SumOf(s, ret - 1)
      BY <1>1, <1>4 DEF Earliest
    <2>3. ASSUME ret < n, \A i \in 1 .. n : s[i] = s[1]
          PROVE  /\ SumOf(s, n - ret - 1) \in Nat
                 /\ SumOf(s, n - ret - 1) <= SumOf(s, n - 1) - SumOf(s, ret - 1)
      <3>1. /\ n - ret \in 0 .. n - (ret - 1) /\ (ret - 1) + (n - ret) = n - 1
            /\ n - ret \in 0 .. n /\ n - ret - 1 \in 0 .. n /\ n - ret - 1 <= n - ret
        BY <1>4, <2>3
      <3>2. SumOf(s, (ret - 1) + (n - ret)) = SumOf(s, ret - 1) + SumOf(s, n - ret)
        BY <2>1, <2>3, <3>1, SumEqual
      <3>3. /\ SumOf(s, n - ret - 1) \in Nat /\ SumOf(s, n - ret) \in Nat
            /\ SumOf(s, n - ret - 1) <= SumOf(s, n - ret)
        BY <3>1, SumBounds
      <3> QED BY <2>1, <3>1, <3>2, <3>3
    <2>4. ret = n => Earliest(s, ret) = earliest
      BY <1>2, <2>2
    <2> QED BY SMTT(60), <1>2, <1>4, <2>1, <2>2, <2>3, <2>4
  <1> QED BY <1>3, <1>4

\* What is sent was allowed, and is stamped before what comes next.
LEMMA BulkSent ==
  ASSUME GenInv, SendBulk
  PROVE  GenInv'
  <1>1. /\ gen_at = "send" /\ gen_at' = "start" /\ bulk' = 0
        /\ UNCHANGED <<template_len, imix_pkt_sizes, checking, overlap, new_imix_nb_pkts, pkt_count>>
    BY DEF SendBulk
  <1>2. /\ bulk \in Nat \ {0} /\ MaxBulk \in Nat /\ Endless \in Nat
        /\ pkt_count \in 0 .. Endless /\ budget \in Int
    BY <1>1, GenNumbers DEF GenInv, GenTypeOK, BulkCounted
  <1>3. WaitingChecked'
    BY <1>1 DEF GenInv, WaitingChecked, SizesFit
  <1>4. SizesChecked'
    BY <1>1 DEF GenInv, GenSound, SizesChecked
  <1>5. CASE UNCHANGED <<pkt_idx, timing, budget>>
    <2>1. UNCHANGED <<earliest, stamp, uneven>>
      BY <1>5 DEF timing
    <2>2. GenTypeOK'
      BY <1>1, <1>2, <1>5, <2>1 DEF GenInv, GenTypeOK
    <2>3. BulkCounted'
      BY <1>1, <1>2, <1>5 DEF GenInv, BulkCounted
    <2>4. CountRespected' /\ StampsIncrease'
      BY <1>1, <1>5, <2>1 DEF GenInv, GenSound, CountRespected, StampsIncrease
    <2> QED BY <1>3, <1>4, <2>2, <2>3, <2>4 DEF GenInv, GenSound
  <1>6. ASSUME NEW ret \in 0 .. bulk, NEW s, s = Sizes(bulk),
               pkt_idx' = ((pkt_idx + bulk - 1) % Len(template_len)) + 1,
               earliest' = Earliest(s, ret),
               uneven' = (uneven \/ (ret # 0 /\ \E i \in 1 .. bulk : s[i] # s[1])),
               stamp' = IF uneven' THEN -1 ELSE IF ret = bulk THEN stamp
                        ELSE earliest + SumOf(s, bulk - ret - 1),
               budget' = IF budget = Endless THEN budget ELSE budget - (bulk - ret)
        PROVE  GenInv'
    <2>1. s \in [1 .. bulk -> Nat] /\ earliest \in Nat /\ stamp \in Nat \cup {-1}
      BY <1>2, <1>6, SizesTypes DEF GenInv, GenTypeOK
    <2>2. /\ earliest' \in Nat
          /\ ret = bulk => earliest' = earliest
          /\ ret < bulk /\ (ret = 0 \/ \A i \in 1 .. bulk : s[i] = s[1]) =>
               /\ earliest + SumOf(s, bulk - ret - 1) \in Nat
               /\ earliest + SumOf(s, bulk - ret - 1) <= earliest'
      BY <1>2, <1>6, <2>1, StampsOfBulk
    <2>3. uneven' \in BOOLEAN /\ (~ uneven' => ~ uneven /\ (ret = 0 \/ \A i \in 1 .. bulk : s[i] = s[1]))
      BY <1>6
    <2>4. stamp' \in Nat \cup {-1} /\ StampsIncrease'
      <3>1. CASE uneven'
        BY <1>6, <3>1 DEF StampsIncrease
      <3>2. CASE ~ uneven' /\ ret = bulk
        BY <1>6, <2>1, <2>2, <2>3, <3>2 DEF GenInv, GenSound, StampsIncrease
      <3>3. CASE ~ uneven' /\ ret < bulk
        <4>1. stamp' = earliest + SumOf(s, bulk - ret - 1)
          BY <1>2, <1>6, <3>3
        <4> QED BY <2>2, <2>3, <3>3, <4>1 DEF StampsIncrease
      <3> QED BY <1>2, <3>1, <3>2, <3>3
    <2>5. pkt_idx' \in Nat \ {0}
      <3>1. pkt_idx + bulk - 1 \in Int /\ Len(template_len) \in Nat \ {0}
        BY <1>2, EmptySeq, LenProperties DEF GenInv, GenTypeOK
      <3>2. \A w \in Nat \ {0}, x \in Int : x % w \in Nat
        OBVIOUS
      <3>3. (pkt_idx + bulk - 1) % Len(template_len) \in Nat
        BY <3>1, <3>2, Zenon
      <3> QED BY <1>6, <3>3
    <2>6. budget' \in Int
      BY <1>2, <1>6
    <2>7. GenTypeOK'
      BY <1>1, <1>2, <2>2, <2>3, <2>4, <2>5, <2>6 DEF GenInv, GenTypeOK
    <2>8. ~ overlap /\ budget' # Endless => pkt_count # Endless /\ budget' >= pkt_count
      <3>1. ~ overlap /\ budget # Endless => pkt_count # Endless /\ budget >= pkt_count + bulk
        BY <1>1 DEF GenInv, BulkCounted
      <3> QED BY <1>2, <1>6, <3>1
    <2>9. BulkCounted'
      BY <1>1, <1>2, <2>8 DEF BulkCounted
    <2>10. CountRespected'
      <3>1. ~ overlap => budget' >= 0
        BY <1>2, <2>6, <2>8
      <3> QED BY <1>1, <3>1 DEF CountRespected
    <2> QED BY <1>3, <1>4, <2>4, <2>7, <2>9, <2>10 DEF GenInv, GenSound
  <1> QED BY <1>5, <1>6 DEF SendBulk

\* Time that passes brings the next packet and the last stamp closer alike.
LEMMA TimeFlown ==
  ASSUME GenInv, TimeFlies
  PROVE  GenInv'
  <1>1. /\ UNCHANGED <<template_len, pkt_idx, imix_pkt_sizes, checking, budget, overlap>>
        /\ UNCHANGED <<new_imix_nb_pkts, pkt_count, gen_at, bulk, uneven>>
    BY DEF TimeFlies, templates, commands
  <1>2. /\ earliest' \in Nat /\ stamp' \in Nat \cup {-1}
        /\ stamp <= earliest => stamp' <= earliest'
    BY DEF TimeFlies, GenInv, GenTypeOK
  <1>3. GenTypeOK'
    BY <1>1, <1>2 DEF GenInv, GenTypeOK
  <1>4. WaitingChecked' /\ BulkCounted'
    BY <1>1 DEF GenInv, WaitingChecked, SizesFit, BulkCounted
  <1>5. GenSound'
    BY <1>1, <1>2 DEF GenInv, GenSound, CountRespected, SizesChecked, StampsIncrease
  <1> QED BY <1>3, <1>4, <1>5 DEF GenInv

\* Every step keeps the invariant.
LEMMA NextGenInv == GenInv /\ [GenNext]_gen_vars => GenInv'
  <1> SUFFICES ASSUME GenInv, [GenNext]_gen_vars PROVE GenInv'
    OBVIOUS
  <1>1. ASSUME NEW s1 \in GenSizes, CopySizes(<<s1>>) PROVE GenInv'
    <2>1. <<s1>> \in Seq(GenSizes) /\ Len(<<s1>>) = 1
      OBVIOUS
    <2> QED BY <1>1, <2>1, CopyCommand
  <1>2. ASSUME NEW s1 \in GenSizes, NEW s2 \in GenSizes, CopySizes(<<s1, s2>>) PROVE GenInv'
    <2>1. <<s1, s2>> \in Seq(GenSizes) /\ Len(<<s1, s2>>) = 2
      OBVIOUS
    <2> QED BY <1>2, <2>1, CopyCommand
  <1>3. CASE UNCHANGED gen_vars
    BY <1>3 DEF gen_vars, GenInv, GenTypeOK, WaitingChecked, SizesFit, BulkCounted, GenSound,
              CountRespected, SizesChecked, StampsIncrease
  <1> QED BY <1>1, <1>2, <1>3, CountCommand, SizeCommand, CheckCommand, ImixApplied,
             BulkCalculated, CountTaken, BulkSent, TimeFlown DEF GenNext

\* The generator sends no more packets than the last count allows and none whose
\* size was not checked, unless commands overlap; stamps increase, unless packets
\* of different sizes were refused in part.
THEOREM GeneratorKept == GenSpec => []GenSound
  <1>1. GenInv => GenSound
    BY DEF GenInv
  <1> QED BY <1>1, InitGenInv, NextGenInv, PTL DEF GenSpec
-----------------------------------------------------------------------------
(***************************************************************************)
(* The handlers of the L4 server: sequences of packets.                    *)
(***************************************************************************)

\* The packets of a sequence are its elements.
LEMMA RangeIs ==
  ASSUME NEW p \in Seq(Nat)
  PROVE  Range(p) = {p[i] : i \in 1 .. Len(p)}
  BY RangeEquality

\* The minimum of two numbers.
LEMMA SmallerOfTwo ==
  ASSUME NEW a \in Int, NEW b \in Int
  PROVE  Min({a, b}) = IF a <= b THEN a ELSE b
  <1> DEFINE m == IF a <= b THEN a ELSE b
  <1>1. m \in {a, b} /\ \A y \in {a, b} : m <= y
    OBVIOUS
  <1>2. \A x \in {a, b} : (\A y \in {a, b} : x <= y) => x = m
    OBVIOUS
  <1> HIDE DEF m
  <1>3. Min({a, b}) = m
    BY <1>1, <1>2 DEF Min
  <1> QED BY <1>3 DEF m

\* A sequence that is cut is its two parts.
LEMMA Cut ==
  ASSUME NEW q \in Seq(Nat), NEW n \in 0 .. Len(q)
  PROVE  /\ SubSeq(q, 1, n) \in Seq(Nat) /\ Len(SubSeq(q, 1, n)) = n
         /\ SubSeq(q, n + 1, Len(q)) \in Seq(Nat) /\ Len(SubSeq(q, n + 1, Len(q))) = Len(q) - n
         /\ SubSeq(q, 1, n) \o SubSeq(q, n + 1, Len(q)) = q
  <1>1. Len(q) \in Nat /\ \A i \in 1 .. Len(q) : q[i] \in Nat
    BY LenProperties
  <1>2. /\ SubSeq(q, 1, n) \in Seq(Nat) /\ Len(SubSeq(q, 1, n)) = n
        /\ SubSeq(q, n + 1, Len(q)) \in Seq(Nat) /\ Len(SubSeq(q, n + 1, Len(q))) = Len(q) - n
    BY <1>1, SubSeqProperties
  <1>3. SubSeq(q, 1, n) \o SubSeq(q, n + 1, Len(q)) = SubSeq(q, 1, Len(q))
    <2>1. 1 \in 1 .. Len(q) + 1 /\ n \in 1 - 1 .. Len(q) /\ Len(q) \in n .. Len(q)
      BY <1>1
    <2> QED BY <2>1, ConcatAdjacentSubSeq
  <1> QED BY <1>2, <1>3, SubSeqFull

\* What comes earlier in an increasing line is smaller.
LEMMA IncreasingParts ==
  ASSUME NEW p \in Seq(Nat), NEW q \in Seq(Nat), Increasing(p \o q)
  PROVE  \A x \in Range(p), y \in Range(q) : x < y
  <1>0. Range(p) = {p[i] : i \in 1 .. Len(p)} /\ Range(q) = {q[i] : i \in 1 .. Len(q)}
    BY RangeIs
  <1> SUFFICES ASSUME NEW i \in 1 .. Len(p), NEW j \in 1 .. Len(q) PROVE p[i] < q[j]
    BY <1>0
  <1> DEFINE k == Len(p) + j
  <1>1. Len(p) \in Nat /\ Len(q) \in Nat
    BY LenProperties
  <1>2. /\ Len(p \o q) = Len(p) + Len(q)
        /\ (p \o q)[i] = p[i] /\ (p \o q)[k] = q[j]
    BY <1>1, ConcatProperties
  <1>3. i \in 1 .. Len(p \o q) /\ k \in 1 .. Len(p \o q) /\ i < k
    BY <1>1, <1>2
  <1> QED BY <1>2, <1>3 DEF Increasing

\* Two increasing lines form one if the first is smaller.
LEMMA IncreasingJoined ==
  ASSUME NEW p \in Seq(Nat), NEW q \in Seq(Nat), Increasing(p), Increasing(q),
         \A x \in Range(p), y \in Range(q) : x < y
  PROVE  Increasing(p \o q)
  <1> SUFFICES ASSUME NEW i \in 1 .. Len(p \o q), NEW j \in 1 .. Len(p \o q), i < j
               PROVE  (p \o q)[i] < (p \o q)[j]
    BY DEF Increasing
  <1>1. Len(p) \in Nat /\ Len(q) \in Nat
    BY LenProperties
  <1>2. /\ Len(p \o q) = Len(p) + Len(q)
        /\ \A k \in 1 .. Len(p) + Len(q) :
             (p \o q)[k] = IF k <= Len(p) THEN p[k] ELSE q[k - Len(p)]
    BY ConcatProperties
  <1>3. CASE j <= Len(p)
    <2>1. i \in 1 .. Len(p) /\ j \in 1 .. Len(p)
      BY <1>1, <1>2, <1>3
    <2>2. p[i] < p[j]
      BY <2>1 DEF Increasing
    <2>3. (p \o q)[i] = p[i] /\ (p \o q)[j] = p[j]
      BY <1>1, <1>2, <1>3
    <2> QED BY <2>2, <2>3
  <1>4. CASE i > Len(p)
    <2>1. i - Len(p) \in 1 .. Len(q) /\ j - Len(p) \in 1 .. Len(q) /\ i - Len(p) < j - Len(p)
      BY <1>1, <1>2, <1>4
    <2>2. q[i - Len(p)] < q[j - Len(p)]
      BY <2>1 DEF Increasing
    <2>3. (p \o q)[i] = q[i - Len(p)] /\ (p \o q)[j] = q[j - Len(p)]
      BY <1>1, <1>2, <1>4
    <2> QED BY <2>2, <2>3
  <1>5. CASE i <= Len(p) /\ j > Len(p)
    <2>1. i \in 1 .. Len(p) /\ j - Len(p) \in 1 .. Len(q)
      BY <1>1, <1>2, <1>5
    <2>2. p[i] < q[j - Len(p)]
      BY <2>1, RangeIs
    <2> QED BY <1>1, <1>2, <1>5, <2>2
  <1> QED BY <1>1, <1>2, <1>3, <1>4, <1>5

-----------------------------------------------------------------------------
(***************************************************************************)
(* The handlers of the L4 server: one call.                                *)
(***************************************************************************)

\* A state in which nothing went wrong.
Sound(s) ==
  /\ s \in ServerState /\ Len(s.fqueue) < QueueSize
  /\ ~ s.wrong /\ OwnedLast(s) /\ (s.mbuf_saved => s.cancelled)
  /\ \E done \in Seq(Nat) : InLine(s, done)

Owner(s) == s.cancelled => s.handle_state = (IF s.mbuf_saved THEN "scheduled" ELSE "queued")

\* The part of the packets that were processed that is sent is determined.
LEMMA DoneIs ==
  ASSUME NEW s \in ServerState, NEW done \in Seq(Nat), InLine(s, done)
  PROVE  Done(s) = done
  <1>1. CASE ~ KeptByQueue(s)
    BY <1>1, ConcatEmptySeq DEF InLine, Done
  <1>2. CASE KeptByQueue(s)
    <2> DEFINE w == s.window[1]  t == <<w>>
    <2>1. s.window \in Seq(Nat) /\ s.window # <<>>
      BY <1>2 DEF InLine, ServerState
    <2>2. w \in Nat
      BY <2>1, EmptySeq, LenProperties
    <2>3. t \in Seq(Nat) /\ Len(t) = 1
      BY <2>2
    <2>4. s.processed = done \o t
      BY <1>2 DEF InLine
    <2>5. Len(done) \in Nat /\ Len(s.processed) = Len(done) + 1
      BY <2>3, <2>4, ConcatProperties, LenProperties
    <2> HIDE DEF t
    <2>6. SubSeq(done \o t, 1, Len(done)) = done
      <3>1. CASE Len(done) = 0
        <4>1. done = <<>>
          BY <3>1, EmptySeq
        <4> QED BY <3>1, <4>1, SubSeqEmpty
      <3>2. CASE Len(done) # 0
        BY <2>3, <2>5, <3>2, SubSeqOfConcat1, SubSeqFull
      <3> QED BY <3>1, <3>2
    <2> QED BY <1>2, <2>4, <2>5, <2>6 DEF Done
  <1> QED BY <1>1, <1>2

\* What was sent is a sequence of packets.
LEMMA DoneTypes ==
  ASSUME NEW s \in ServerState
  PROVE  Done(s) \in Seq(Nat)
  <1> DEFINE n == Len(s.processed) - 1
  <1>1. s.processed \in Seq(Nat)
    BY DEF ServerState
  <1>2. Len(s.processed) \in Nat /\ \A i \in 1 .. Len(s.processed) : s.processed[i] \in Nat
    BY <1>1, LenProperties
  <1>3. SubSeq(s.processed, 1, n) \in Seq(Nat)
    BY <1>2, SubSeqProperties
  <1> QED BY <1>1, <1>3 DEF Done

\* Packets that arrive join the end of the line, or are dropped.
LEMMA StoredSound ==
  ASSUME NEW s, Sound(s), NEW n \in Nat
  PROVE  /\ Sound(Stored(s, n)) /\ Stored(s, n).cancelled = s.cancelled
         /\ Stored(s, n).mbuf_saved = s.mbuf_saved
         /\ Stored(s, n).handle_state = s.handle_state /\ Stored(s, n).stopped = s.stopped
  <1> DEFINE new == [i \in 1 .. n |-> s.received + i]
             fit == Min({n, QueueSize - 1 - Len(s.fqueue)})
             a == SubSeq(new, 1, fit)
             b == SubSeq(new, fit + 1, n)
             t == Stored(s, n)
  <1>1. /\ s \in ServerState /\ s.fqueue \in Seq(Nat) /\ s.window \in Seq(Nat)
        /\ s.processed \in Seq(Nat) /\ s.received \in Nat /\ Len(s.fqueue) \in Nat
        /\ Len(s.fqueue) < QueueSize
    BY LenProperties DEF Sound, ServerState
  <1>2. PICK done \in Seq(Nat) : InLine(s, done)
    BY DEF Sound
  <1>3. new \in Seq(Nat) /\ Len(new) = n /\ \A i \in 1 .. n : new[i] = s.received + i
    BY <1>1
  <1>4. fit \in 0 .. n /\ fit + Len(s.fqueue) < QueueSize
    <2> DEFINE c == QueueSize - 1 - Len(s.fqueue)
    <2>1. c \in Nat /\ QueueSize = c + 1 + Len(s.fqueue)
      BY <1>1, L4HandlersAssumption
    <2>2. fit = IF n <= c THEN n ELSE c
      BY <2>1, SmallerOfTwo
    <2>3. Len(s.fqueue) \in Nat
      BY <1>1
    <2> DEFINE l == Len(s.fqueue)
    <2> HIDE DEF c, fit, l
    <2>4. l \in Nat /\ QueueSize = c + 1 + l
      BY <2>1, <2>3 DEF l
    <2>5. fit \in 0 .. n /\ fit <= c
      BY <2>1, <2>2
    <2>7. c \in Nat /\ fit \in Nat
      BY <2>1, <2>5
    <2>6. fit + l < QueueSize
      BY <2>4, <2>5, <2>7
    <2> QED BY <2>5, <2>6 DEF l
  <1> HIDE DEF new, fit
  <1>5. /\ a \in Seq(Nat) /\ Len(a) = fit /\ \A i \in 1 .. fit : a[i] = s.received + i
        /\ b \in Seq(Nat) /\ Len(b) = n - fit /\ \A i \in 1 .. n - fit : b[i] = s.received + fit + i
    <2>1. /\ a \in Seq(Nat) /\ Len(a) = fit /\ b \in Seq(Nat) /\ Len(b) = n - fit
      BY <1>3, <1>4, Cut
    <2>2. \A i \in 1 .. n : new[i] \in Nat
      BY <1>1, <1>3
    <2>3. /\ \A i \in 1 .. fit : a[i] = new[i]
          /\ \A i \in 1 .. n - fit : b[i] = new[fit + i]
      BY <1>4, <2>2, SubSeqProperties
    <2>4. \A i \in 1 .. n - fit : fit + i \in 1 .. n
      BY <1>4
    <2>5. \A i \in 1 .. fit : i \in 1 .. n
      BY <1>4
    <2>6. \A i \in 1 .. n - fit : b[i] = s.received + fit + i
      BY <1>1, <1>3, <1>4, <2>3, <2>4
    <2> QED BY <1>3, <2>1, <2>3, <2>5, <2>6
  <1>6. /\ Range(a) = (s.received + 1) .. (s.received + fit)
        /\ Range(b) = (s.received + fit + 1) .. (s.received + n)
    <2>1. /\ Range(a) = {a[i] : i \in 1 .. fit} /\ Range(b) = {b[i] : i \in 1 .. n - fit}
      BY <1>5, RangeIs
    <2>2. Range(a) = {s.received + i : i \in 1 .. fit}
      BY <1>5, <2>1
    <2>3. Range(b) = {s.received + fit + i : i \in 1 .. n - fit}
      BY ZenonT(60), <1>5, <2>1
    <2>4. ASSUME NEW x \in Nat, NEW m \in Nat, NEW S, S = {x + i : i \in 1 .. m}
          PROVE  S = (x + 1) .. (x + m)
      <3>1. ASSUME NEW y \in (x + 1) .. (x + m) PROVE y \in S
        <4>1. y - x \in 1 .. m /\ y = x + (y - x)
          OBVIOUS
        <4> QED BY <2>4, <4>1
      <3>2. ASSUME NEW y \in S PROVE y \in (x + 1) .. (x + m)
        BY <2>4
      <3> QED BY <3>1, <3>2
    <2>5. Range(a) = (s.received + 1) .. (s.received + fit)
      <3>1. fit \in Nat
        BY <1>4
      <3> QED BY <1>1, <2>2, <2>4, <3>1
    <2>6. s.received + fit \in Nat /\ n - fit \in Nat /\ s.received + fit + (n - fit) = s.received + n
      BY <1>1, <1>4
    <2>7. Range(b) = (s.received + fit + 1) .. (s.received + fit + (n - fit))
      BY <2>3, <2>4, <2>6
    <2> QED BY <2>5, <2>6, <2>7
  <1> HIDE DEF a, b
  <1>7. t = [s EXCEPT !.received = @ + n, !.fqueue = @ \o a, !.overflowed = @ \cup Range(b)]
    BY DEF Stored, new, fit, a, b
  <1>8. /\ t.received = s.received + n /\ t.fqueue = s.fqueue \o a
        /\ t.overflowed = s.overflowed \cup Range(b) /\ t.window = s.window
        /\ t.processed = s.processed /\ t.cancelled = s.cancelled
        /\ t.mbuf_saved = s.mbuf_saved /\ t.handle_state = s.handle_state
        /\ t.stopped = s.stopped /\ t.wrong = s.wrong /\ t.owned = s.owned
        /\ t.n_new_mbufs = s.n_new_mbufs /\ t.sent = s.sent
    BY <1>1, <1>7 DEF ServerState
  <1>9. t.fqueue \in Seq(Nat) /\ Len(t.fqueue) < QueueSize
    <2>1. s.fqueue \o a \in Seq(Nat) /\ Len(s.fqueue \o a) = Len(s.fqueue) + Len(a)
      BY <1>1, <1>5, ConcatProperties
    <2>2. Len(s.fqueue \o a) < QueueSize
      BY <1>1, <1>4, <1>5, <2>1
    <2> QED BY <1>8, <2>1, <2>2
  <1>10. t \in ServerState
    <2>1. Range(b) \in SUBSET Nat /\ s.overflowed \in SUBSET Nat
      BY <1>1, <1>5, RangeOfSeq DEF ServerState
    <2>2. t.overflowed \in SUBSET Nat /\ t.received \in Nat
      BY <1>1, <1>8, <2>1
    <2> QED BY <1>1, <1>7, <1>8, <1>9, <2>2 DEF ServerState
  <1> HIDE DEF t
  <1>11. InLine(t, done)
    <2> DEFINE line == done \o (s.window \o s.fqueue)
    <2>1. KeptByQueue(t) = KeptByQueue(s)
      BY <1>8 DEF KeptByQueue
    <2>2. done \o (t.window \o t.fqueue) = line \o a
      <3>1. s.window \o (s.fqueue \o a) = (s.window \o s.fqueue) \o a
        <4> DEFINE w == s.window  q == s.fqueue
        <4>1. w \in Seq(Nat) /\ q \in Seq(Nat) /\ a \in Seq(Nat)
          BY <1>1, <1>5
        <4> HIDE DEF w, q
        <4>2. w \o (q \o a) = (w \o q) \o a
          BY SMTT(60), <4>1, ConcatAssociative
        <4> QED BY <4>2 DEF w, q
      <3>2. s.window \o s.fqueue \in Seq(Nat)
        BY <1>1, ConcatProperties
      <3> DEFINE rest == s.window \o s.fqueue
      <3> HIDE DEF rest
      <3>4. rest \in Seq(Nat) /\ a \in Seq(Nat)
        BY <1>5, <3>2 DEF rest
      <3>5. done \in Seq(Nat)
        BY <1>2
      <3>3. done \o (rest \o a) = (done \o rest) \o a
        BY SMTT(60), <3>4, <3>5, ConcatAssociative
      <3> QED BY <1>8, <3>1, <3>3 DEF rest
    <2>3. line \in Seq(Nat)
      BY <1>1, ConcatProperties
    <2>4. /\ Increasing(line) /\ Range(line) \cup s.overflowed = 1 .. s.received
          /\ Range(line) \cap s.overflowed = {}
      BY <1>2 DEF InLine
    <2> HIDE DEF line
    <2>5. Increasing(line \o a)
      <3>1. Increasing(a)
        BY SMTT(60), <1>1, <1>5 DEF Increasing
      <3>2. \A x \in Range(line), y \in Range(a) : x < y
        BY <1>1, <1>4, <1>6, <2>4
      <3> QED BY <1>5, <2>3, <2>4, <3>1, <3>2, IncreasingJoined
    <2>6. Range(line \o a) = Range(line) \cup Range(a)
      BY <1>5, <2>3, RangeConcatenation
    <2>7. Range(line \o a) \cup t.overflowed = 1 .. t.received
      BY SMTT(60), <1>1, <1>4, <1>6, <1>8, <2>4, <2>6
    <2>8. Range(line \o a) \cap t.overflowed = {}
      BY SMTT(60), <1>1, <1>4, <1>6, <1>8, <2>4, <2>6
    <2> QED BY <1>2, <1>8, <2>1, <2>2, <2>5, <2>7, <2>8 DEF InLine
  <1> QED BY <1>8, <1>9, <1>10, <1>11 DEF Sound, OwnedLast, t

\* Three parts of a line, in either grouping.
LEMMA Reassociated ==
  ASSUME NEW p \in Seq(Nat), NEW q \in Seq(Nat), NEW r \in Seq(Nat)
  PROVE  (p \o q) \o r = p \o (q \o r)
  BY SMTT(60), ConcatAssociative

\* A new window is the beginning of the queue.
LEMMA FetchedSound ==
  ASSUME NEW s, Sound(s)
  PROVE  /\ Sound(Fetched(s)) /\ Fetched(s).cancelled = s.cancelled
         /\ Fetched(s).mbuf_saved = s.mbuf_saved
         /\ Fetched(s).handle_state = s.handle_state /\ Fetched(s).stopped = s.stopped
  <1>1. /\ s \in ServerState /\ s.fqueue \in Seq(Nat) /\ Len(s.fqueue) \in Nat
        /\ Len(s.fqueue) < QueueSize
    BY LenProperties DEF Sound, ServerState
  <1>2. PICK done \in Seq(Nat) : InLine(s, done)
    BY DEF Sound
  <1>3. CASE s.window # <<>>
    BY <1>3 DEF Fetched
  <1>4. CASE s.window = <<>>
    <2> DEFINE n == Min({L4Burst, Len(s.fqueue)})
               a == SubSeq(s.fqueue, 1, n)
               b == SubSeq(s.fqueue, n + 1, Len(s.fqueue))
               t == Fetched(s)
    <2>1. n \in 0 .. Len(s.fqueue)
      <3> DEFINE l == Len(s.fqueue)
      <3>1. l \in Nat /\ L4Burst \in Nat
        BY <1>1, L4HandlersAssumption
      <3> HIDE DEF l
      <3>2. Min({L4Burst, l}) \in 0 .. l
        BY <3>1, SmallerOfTwo
      <3> QED BY <3>2 DEF l
    <2>2. t = [s EXCEPT !.window = a, !.fqueue = b]
      BY <1>1, <1>4 DEF Fetched, ServerState
    <2> HIDE DEF n, t
    <2>3. /\ a \in Seq(Nat) /\ b \in Seq(Nat) /\ a \o b = s.fqueue
          /\ Len(b) = Len(s.fqueue) - n
      BY <1>1, <2>1, Cut
    <2> HIDE DEF a, b
    <2>4. /\ t.window = a /\ t.fqueue = b /\ t.cancelled = s.cancelled
          /\ t.mbuf_saved = s.mbuf_saved /\ t.handle_state = s.handle_state
          /\ t.stopped = s.stopped /\ t.wrong = s.wrong /\ t.owned = s.owned
          /\ t.n_new_mbufs = s.n_new_mbufs /\ t.sent = s.sent /\ t.received = s.received
          /\ t.overflowed = s.overflowed /\ t.processed = s.processed
      BY <1>1, <2>2 DEF ServerState
    <2>5. t \in ServerState
      BY <1>1, <2>2, <2>3 DEF ServerState
    <2>6. Len(t.fqueue) < QueueSize
      BY <1>1, <2>1, <2>3, <2>4, L4HandlersAssumption
    <2>7. InLine(t, done)
      <3>1. ~ KeptByQueue(s) /\ ~ KeptByQueue(t)
        BY <1>2, <1>4, <2>4 DEF InLine, KeptByQueue
      <3>2. s.window \o s.fqueue = t.window \o t.fqueue
        BY <1>1, <1>4, <2>3, <2>4, ConcatEmptySeq
      <3> QED BY <1>2, <2>4, <3>1, <3>2 DEF InLine
    <2>8. Sound(t)
      <3>1. ~ t.wrong /\ (t.mbuf_saved => t.cancelled)
        BY <2>4 DEF Sound
      <3>2. OwnedLast(t)
        BY <2>4 DEF Sound, OwnedLast
      <3> QED BY <1>2, <2>5, <2>6, <2>7, <3>1, <3>2 DEF Sound
    <2> QED BY <2>4, <2>8 DEF t
  <1> QED BY <1>3, <1>4

\* The packets that are processed are the next in line, and none that was sent
\* is sent again.
LEMMA ProcessedSound ==
  ASSUME NEW s, Sound(s), ~ s.mbuf_saved, NEW n \in 0 .. Len(s.window),
         NEW last \in {n, n + 1}, last <= Len(s.window), FirstToProcess(s) <= n + 1,
         s.cancelled => s.window # <<>>
  PROVE  LET t == Processed(s, last, n) IN
         /\ Sound(t) /\ (t.cancelled <=> last > n) /\ ~ t.mbuf_saved
         /\ t.handle_state = s.handle_state /\ t.stopped = s.stopped
  <1> DEFINE w == s.window
             from == FirstToProcess(s)
             a == SubSeq(w, 1, n)
             b == SubSeq(w, n + 1, Len(w))
             p == SubSeq(w, from, last)
             t == Processed(s, last, n)
             new == IF last > n THEN <<b[1]>> ELSE <<>>
  <1>1. /\ s \in ServerState /\ w \in Seq(Nat) /\ Len(w) \in Nat /\ s.fqueue \in Seq(Nat)
        /\ s.processed \in Seq(Nat) /\ Len(s.fqueue) < QueueSize
    BY LenProperties DEF Sound, ServerState
  <1>2. PICK done \in Seq(Nat) : InLine(s, done)
    BY DEF Sound
  <1>3. KeptByQueue(s) <=> s.cancelled
    BY DEF KeptByQueue
  <1>4. /\ a \in Seq(Nat) /\ Len(a) = n /\ b \in Seq(Nat) /\ Len(b) = Len(w) - n /\ a \o b = w
    BY <1>1, Cut
  <1>5. \A i \in 1 .. Len(w) : w[i] \in Nat
    BY <1>1, LenProperties
  <1>6. from \in {1, 2} /\ from - 1 <= n /\ (s.cancelled <=> from = 2)
    BY DEF FirstToProcess
  \* What was processed, then what is processed now: all up to the last.
  <1>7. s.processed \o p = (done \o a) \o new /\ new \in Seq(Nat) /\ p \in Seq(Nat)
    <2> DEFINE q == SubSeq(w, 1, last)
               k == SubSeq(w, 1, from - 1)
    <2>1. q = a \o new /\ new \in Seq(Nat)
      <3>1. CASE last = n
        BY <1>4, <3>1, ConcatEmptySeq, EmptySeq
      <3>2. CASE last = n + 1
        <4>1. last \in 1 .. Len(w) /\ last - 1 = n /\ 1 \in 1 .. Len(w) /\ last \in 1 .. Len(w)
          BY <1>1, <3>2
        <4>2. q = SubSeq(w, 1, last - 1) \o <<w[last]>>
          BY <1>1, <4>1, SubSeqRecursiveSecond
        <4>3. b[1] = w[n + 1]
          <5>1. \A i \in n + 1 .. Len(w) : w[i] \in Nat
            BY <1>1, <1>5
          <5>2. 1 \in 1 .. Len(w) - (n + 1) + 1 /\ n + 1 + 1 - 1 = n + 1
            BY <1>1, <3>2
          <5>3. n + 1 \in Int /\ Len(w) \in Int
            BY <1>1
          <5>4. \A i \in 1 .. Len(w) - (n + 1) + 1 : b[i] = w[n + 1 + i - 1]
            BY <5>1, <5>3, SubSeqProperties
          <5> QED BY <5>2, <5>4
        <4>4. w[last] \in Nat
          BY <1>5, <4>1
        <4>5. new = <<w[last]>>
          BY <3>2, <4>3
        <4> QED BY <4>1, <4>2, <4>4, <4>5
      <3> QED BY <3>1, <3>2
    <2>2. k \o p = q /\ k \in Seq(Nat) /\ p \in Seq(Nat)
      <3>1. /\ 1 \in 1 .. Len(w) + 1 /\ from - 1 \in 1 - 1 .. Len(w) /\ last \in from - 1 .. Len(w)
            /\ from - 1 + 1 = from
        BY <1>1, <1>6
      <3>2. SubSeq(w, 1, from - 1) \o SubSeq(w, from - 1 + 1, last) = SubSeq(w, 1, last)
        BY <1>1, <3>1, ConcatAdjacentSubSeq
      <3>3. /\ \A i \in 1 .. from - 1 : w[i] \in Nat
            /\ \A i \in from .. last : w[i] \in Nat
        BY <1>1, <1>5, <1>6, <3>1
      <3>4. k \in Seq(Nat) /\ p \in Seq(Nat)
        BY <1>6, <3>3, SubSeqProperties
      <3> QED BY <3>1, <3>2, <3>4
    <2>3. s.processed = done \o k
      <3>1. CASE s.cancelled
        <4>1. k = <<w[1]>>
          <5>1. w # <<>> /\ Len(w) >= 1
            BY <1>1, <3>1, EmptySeq
          <5>2. 1 \in 1 .. Len(w)
            BY <1>1, <5>1
          <5>3. SubSeq(w, 1, 1) = SubSeq(w, 1, 0) \o <<w[1]>>
            BY <1>1, <5>2, SubSeqRecursiveSecond
          <5>4. SubSeq(w, 1, 0) = <<>>
            BY SubSeqEmpty
          <5>5. <<w[1]>> \in Seq(Nat)
            BY <1>5, <5>2
          <5>6. SubSeq(w, 1, 1) = <<w[1]>>
            BY <5>3, <5>4, <5>5, ConcatEmptySeq
          <5>7. from - 1 = 1
            BY <1>6, <3>1
          <5> QED BY <5>6, <5>7
        <4> QED BY <1>2, <1>3, <3>1, <4>1 DEF InLine
      <3>2. CASE ~ s.cancelled
        <4>1. from - 1 = 0
          BY <1>6, <3>2
        <4>2. k = <<>>
          BY <4>1, SubSeqEmpty
        <4> QED BY <1>2, <1>3, <3>2, <4>2 DEF InLine
      <3> QED BY <3>1, <3>2
    <2> HIDE DEF q, k, p, a, new, w
    <2>4. (done \o k) \o p = done \o (k \o p)
      BY <1>2, <2>2, Reassociated
    <2>5. (done \o a) \o new = done \o (a \o new)
      BY <1>2, <1>4, <2>1, Reassociated
    <2> QED BY <2>1, <2>2, <2>3, <2>4, <2>5
  \* The line is the same.
  <1>8. done \o (w \o s.fqueue) = (done \o a) \o (b \o s.fqueue) /\ done \o a \in Seq(Nat)
    <2> DEFINE q == s.fqueue
    <2>1. q \in Seq(Nat)
      BY <1>1
    <2> HIDE DEF q, a, b, w
    <2>2. (a \o b) \o q = a \o (b \o q)
      BY ZenonT(60), <1>4, <2>1, Reassociated
    <2>3. b \o q \in Seq(Nat)
      BY <1>4, <2>1, ConcatProperties
    <2>4. (done \o a) \o (b \o q) = done \o (a \o (b \o q))
      BY <1>2, <1>4, <2>3, Reassociated
    <2>5. done \o a \in Seq(Nat)
      BY <1>2, <1>4, ConcatProperties
    <2> QED BY <1>4, <2>2, <2>4, <2>5 DEF q
  \* The packets sent now were not sent before.
  <1>9. Range(a) \cap s.sent = {}
    <2> DEFINE r == b \o s.fqueue
    <2>1. r \in Seq(Nat)
      BY <1>1, <1>4, ConcatProperties
    <2> HIDE DEF a, b, w, r
    <2>2. done \o (a \o r) = (done \o a) \o r /\ a \o r \in Seq(Nat)
      BY ZenonT(60), <1>2, <1>4, <2>1, Reassociated, ConcatProperties
    <2>3. Increasing(done \o (a \o r))
      BY <1>2, <1>8, <2>2 DEF InLine, r, w
    <2>4. \A x \in Range(done), y \in Range(a \o r) : x < y
      BY <1>2, <2>2, <2>3, IncreasingParts
    <2>5. Range(a \o r) = Range(a) \cup Range(r)
      BY <1>4, <2>1, RangeConcatenation
    <2>6. s.sent = Range(done) /\ Range(done) \in SUBSET Nat
      BY <1>2, RangeOfSeq DEF InLine
    <2> QED BY <2>4, <2>5, <2>6
  <1>10. from <= Len(w) + 1
    BY <1>1, <1>6
  <1>11. t = [s EXCEPT !.processed = @ \o p, !.sent = @ \cup Range(a),
                       !.wrong = @ \/ Range(a) \cap s.sent # {} \/ from > Len(w) + 1,
                       !.window = b, !.cancelled = last > n]
    BY DEF Processed
  <1> HIDE DEF w, from, a, b, p, t, new
  <1>12. /\ t.processed = s.processed \o p /\ t.sent = s.sent \cup Range(a)
         /\ t.window = b /\ t.fqueue = s.fqueue
         /\ t.mbuf_saved = s.mbuf_saved /\ t.handle_state = s.handle_state
         /\ t.stopped = s.stopped /\ t.owned = s.owned
         /\ t.n_new_mbufs = s.n_new_mbufs /\ t.received = s.received
         /\ t.overflowed = s.overflowed
    BY <1>1, <1>11 DEF ServerState
  <1>13. t.cancelled = (last > n)
    BY <1>1, <1>11 DEF ServerState
  <1>14. t.wrong = (s.wrong \/ Range(a) \cap s.sent # {} \/ from > Len(w) + 1)
    BY <1>1, <1>11 DEF ServerState
  <1>15. ~ t.wrong
    <2>1. ~ (from > Len(w) + 1)
      BY <1>1, <1>6, <1>10
    <2>2. ~ s.wrong
      BY DEF Sound
    <2> QED BY <1>9, <1>14, <2>1, <2>2
  <1>16. t \in ServerState
    <2>1. s.processed \o p \in Seq(Nat)
      BY <1>1, <1>7, ConcatProperties
    <2>2. s.sent \cup Range(a) \in SUBSET Nat
      BY <1>1, <1>4, RangeOfSeq DEF ServerState
    <2>3. (last > n) \in BOOLEAN
      OBVIOUS
    <2>4. (s.wrong \/ Range(a) \cap s.sent # {} \/ from > Len(w) + 1) \in BOOLEAN
      OBVIOUS
    <2> QED BY ZenonT(60), <1>1, <1>4, <1>11, <2>1, <2>2, <2>3, <2>4 DEF ServerState
  <1>17. KeptByQueue(t) <=> last > n
    BY <1>12, <1>13 DEF KeptByQueue
  <1>18. InLine(t, done \o a)
    <2>1. KeptByQueue(t) => t.window # <<>>
      <3>1. CASE last > n
        <4>1. Len(b) >= 1
          BY <1>1, <1>4, <3>1 DEF w
        <4> QED BY <1>4, <1>12, <4>1, EmptySeq
      <3> QED BY <1>17, <3>1
    <2>2. t.processed = (done \o a) \o (IF KeptByQueue(t) THEN <<t.window[1]>> ELSE <<>>)
      BY <1>7, <1>12, <1>17 DEF new
    <2>3. t.sent = Range(done \o a)
      BY <1>2, <1>4, <1>12, RangeConcatenation DEF InLine
    <2>4. (done \o a) \o (t.window \o t.fqueue) = done \o (s.window \o s.fqueue)
      BY <1>8, <1>12 DEF w
    <2> QED BY <1>2, <1>12, <2>1, <2>2, <2>3, <2>4 DEF InLine
  <1>19. Len(t.fqueue) < QueueSize /\ OwnedLast(t) /\ ~ t.mbuf_saved
    BY <1>1, <1>12 DEF Sound, OwnedLast
  <1>20. Sound(t)
    BY <1>8, <1>15, <1>16, <1>18, <1>19 DEF Sound
  <1> QED BY <1>12, <1>13, <1>19, <1>20 DEF t

\* The queue's part leaves the next packets in line, and is cut off exactly if
\* it says so.
LEMMA QueuedSound ==
  ASSUME NEW s, Sound(s), ~ s.mbuf_saved, NEW r \in handle_gen_queued(s)
  PROVE  /\ Sound(r.state) /\ ~ r.state.mbuf_saved /\ (r.ret = 0 => ~ r.state.cancelled)
         /\ r.state.handle_state = s.handle_state /\ r.state.stopped = s.stopped
  <1> DEFINE f == Fetched(s)
             from == FirstToProcess(f)
             len == Len(f.window)
  <1>1. /\ Sound(f) /\ f.cancelled = s.cancelled /\ ~ f.mbuf_saved
        /\ f.handle_state = s.handle_state /\ f.stopped = s.stopped
    BY FetchedSound
  <1>2. /\ f.window \in Seq(Nat) /\ len \in Nat
        /\ (f.window # <<>> => len >= 1)
    BY <1>1, LenProperties, EmptySeq DEF Sound, ServerState
  <1>3. f.cancelled => f.window # <<>>
    BY <1>1 DEF Sound, InLine, KeptByQueue
  <1>4. from \in {1, 2} /\ (from = 2 => f.cancelled)
    BY DEF FirstToProcess
  <1>5. \/ r = Ret(Processed(f, len, len), 0)
        \/ \E k \in from .. len : r = Ret(Processed(f, k, k - 1), -1)
        \/ s.cancelled /\ r = Ret(f, -1)
    BY DEF handle_gen_queued
  <1> HIDE DEF f, from
  <1>6. CASE r = Ret(Processed(f, len, len), 0)
    <2>1. len \in 0 .. len /\ len \in {len, len + 1} /\ from <= len + 1 /\ ~ (len > len)
      BY <1>2, <1>3, <1>4
    <2>2. LET t == Processed(f, len, len) IN
          /\ Sound(t) /\ (t.cancelled <=> len > len) /\ ~ t.mbuf_saved
          /\ t.handle_state = f.handle_state /\ t.stopped = f.stopped
      BY <1>1, <1>2, <1>3, <2>1, ProcessedSound DEF from
    <2>3. r.state = Processed(f, len, len)
      BY <1>6 DEF Ret
    <2> QED BY <1>1, <2>1, <2>2, <2>3
  <1>7. CASE \E k \in from .. len : r = Ret(Processed(f, k, k - 1), -1)
    <2> PICK k \in from .. len : r = Ret(Processed(f, k, k - 1), -1)
      BY <1>7
    <2>1. /\ k - 1 \in 0 .. len /\ k \in {k - 1, k - 1 + 1} /\ k <= len /\ from <= k - 1 + 1
      BY <1>2, <1>4
    <2>2. LET t == Processed(f, k, k - 1) IN
          /\ Sound(t) /\ ~ t.mbuf_saved
          /\ t.handle_state = f.handle_state /\ t.stopped = f.stopped
      BY <1>1, <1>3, <2>1, ProcessedSound DEF from
    <2>3. r.state = Processed(f, k, k - 1) /\ r.ret = -1
      BY DEF Ret
    <2> QED BY <1>1, <2>2, <2>3
  <1>8. CASE s.cancelled /\ r = Ret(f, -1)
    <2>1. r.state = f /\ r.ret = -1
      BY <1>8 DEF Ret
    <2> QED BY <1>1, <2>1
  <1> QED BY <1>5, <1>6, <1>7, <1>8

\* The slots that are filled were empty, and those that are sent were filled.
LEMMA NewPacketsOwned ==
  ASSUME NEW s, Sound(s), ~ KeptByQueue(s),
         NEW cut \in BOOLEAN, NEW n \in 0 .. L4Burst, cut => n < L4Burst
  PROVE  LET t == SendNew(refill_mbufs(s), n, cut) IN
         /\ Sound(t) /\ t.cancelled = cut /\ t.mbuf_saved = cut
         /\ t.handle_state = s.handle_state /\ t.stopped = s.stopped
         /\ t.fqueue = s.fqueue
  <1> DEFINE fresh == 1 .. (L4Burst - s.n_new_mbufs)
             f == refill_mbufs(s)
             m == n + IF cut THEN 1 ELSE 0
             used == 1 .. m
             t == SendNew(f, n, cut)
  <1>1. /\ s \in ServerState /\ s.n_new_mbufs \in 0 .. L4Burst /\ L4Burst \in Nat
        /\ s.owned = (L4Burst - s.n_new_mbufs + 1) .. L4Burst /\ ~ s.wrong
        /\ Len(s.fqueue) < QueueSize
    BY L4HandlersAssumption DEF Sound, ServerState, OwnedLast
  <1>2. m \in 0 .. L4Burst
    BY <1>1
  <1>3. fresh \cap s.owned = {} /\ s.owned \cup fresh = 1 .. L4Burst
    BY <1>1
  <1>4. /\ used \subseteq 1 .. L4Burst
        /\ (1 .. L4Burst) \ used = (L4Burst - (L4Burst - m) + 1) .. L4Burst
    BY <1>1, <1>2
  <1>5. f = [s EXCEPT !.n_new_mbufs = L4Burst, !.owned = @ \cup fresh,
                      !.wrong = @ \/ fresh \cap s.owned # {}]
    BY DEF refill_mbufs
  <1>6. /\ t = [[f EXCEPT !.n_new_mbufs = @ - m] EXCEPT
                  !.owned = @ \ used, !.wrong = @ \/ ~ (used \subseteq f.owned),
                  !.cancelled = cut, !.mbuf_saved = cut]
    BY DEF SendNew, UsedUp
  <1> HIDE DEF fresh, f, m, used, t
  <1>7. /\ f.n_new_mbufs = L4Burst /\ f.owned = 1 .. L4Burst
        /\ f.fqueue = s.fqueue /\ f.window = s.window /\ f.processed = s.processed
        /\ f.sent = s.sent /\ f.overflowed = s.overflowed /\ f.received = s.received
        /\ f.handle_state = s.handle_state /\ f.stopped = s.stopped
    BY <1>1, <1>3, <1>5 DEF ServerState
  <1>8. f.wrong = FALSE /\ DOMAIN f = DOMAIN s
    BY <1>1, <1>3, <1>5 DEF ServerState
  <1>9. f \in ServerState
    <2>1. 1 .. L4Burst \in SUBSET Nat /\ L4Burst \in 0 .. L4Burst
      BY <1>1
    <2>2. f = [s EXCEPT !.n_new_mbufs = L4Burst, !.owned = 1 .. L4Burst, !.wrong = FALSE]
      BY <1>1, <1>3, <1>5 DEF ServerState
    <2> QED BY <1>1, <2>1, <2>2 DEF ServerState
  <1>10. t = [f EXCEPT !.n_new_mbufs = L4Burst - m, !.owned = (1 .. L4Burst) \ used,
                       !.wrong = FALSE, !.cancelled = cut, !.mbuf_saved = cut]
    BY <1>4, <1>6, <1>7, <1>8, <1>9 DEF ServerState
  <1>11. L4Burst - m \in 0 .. L4Burst /\ (1 .. L4Burst) \ used \in SUBSET Nat
    BY <1>1, <1>2
  <1>12. t \in ServerState
    BY <1>9, <1>10, <1>11 DEF ServerState
  <1>13. /\ t.n_new_mbufs = L4Burst - m /\ t.owned = (1 .. L4Burst) \ used
         /\ t.fqueue = s.fqueue /\ t.window = s.window /\ t.processed = s.processed
         /\ t.sent = s.sent /\ t.overflowed = s.overflowed /\ t.received = s.received
         /\ t.handle_state = s.handle_state /\ t.stopped = s.stopped
    BY <1>7, <1>9, <1>10 DEF ServerState
  <1>14. t.wrong = FALSE /\ t.cancelled = cut /\ t.mbuf_saved = cut
    BY <1>9, <1>10 DEF ServerState
  <1>15. OwnedLast(t)
    BY <1>4, <1>13 DEF OwnedLast
  <1>16. ~ KeptByQueue(t)
    BY <1>14 DEF KeptByQueue
  <1>17. PICK done \in Seq(Nat) : InLine(s, done)
    BY DEF Sound
  <1>18. InLine(t, done)
    BY <1>13, <1>16, <1>17 DEF InLine
  <1>19. Sound(t)
    BY <1>1, <1>12, <1>13, <1>14, <1>15, <1>17, <1>18 DEF Sound
  <1> QED BY <1>13, <1>14, <1>19 DEF t, f

\* The timers' part resumes with the packet it saved, and saves the one it is
\* cut off at.
LEMMA ScheduledSound ==
  ASSUME NEW s, Sound(s), s.cancelled => s.mbuf_saved, NEW r \in handle_gen_scheduled(s)
  PROVE  /\ Sound(r.state) /\ (r.ret = 0 => ~ r.state.cancelled)
         /\ (r.state.cancelled => r.state.mbuf_saved)
         /\ r.state.handle_state = s.handle_state /\ r.state.stopped = s.stopped
  <1> DEFINE u == Resumed(s)
  <1>1. /\ Sound(u) /\ ~ u.cancelled /\ ~ u.mbuf_saved
        /\ u.handle_state = s.handle_state /\ u.stopped = s.stopped
    <2>1. CASE s.cancelled
      <3>1. s \in ServerState /\ s.mbuf_saved /\ ~ s.wrong
        BY <2>1 DEF Sound
      <3>2. u = [s EXCEPT !.cancelled = FALSE, !.mbuf_saved = FALSE, !.wrong = FALSE]
        BY <2>1, <3>1 DEF Resumed, ServerState
      <3> HIDE DEF u
      <3>3. u \in ServerState
        BY <3>1, <3>2 DEF ServerState
      <3>4. /\ u.fqueue = s.fqueue /\ u.window = s.window /\ u.processed = s.processed
            /\ u.sent = s.sent /\ u.overflowed = s.overflowed /\ u.received = s.received
            /\ u.handle_state = s.handle_state /\ u.stopped = s.stopped
            /\ u.n_new_mbufs = s.n_new_mbufs /\ u.owned = s.owned
        BY <3>1, <3>2 DEF ServerState
      <3>5. u.cancelled = FALSE /\ u.mbuf_saved = FALSE /\ u.wrong = FALSE
        BY <3>1, <3>2 DEF ServerState
      <3>6. PICK done \in Seq(Nat) : InLine(s, done)
        BY DEF Sound
      <3>7. ~ KeptByQueue(s) /\ ~ KeptByQueue(u)
        BY <3>1, <3>5 DEF KeptByQueue
      <3>8. InLine(u, done)
        BY <3>4, <3>6, <3>7 DEF InLine
      <3> QED BY <3>3, <3>4, <3>5, <3>6, <3>8 DEF Sound, OwnedLast
    <2>2. CASE ~ s.cancelled
      BY <2>2 DEF Resumed, Sound
    <2> QED BY <2>1, <2>2
  <1>2. \/ r = Ret(u, -1)
        \/ \E n \in 0 .. L4Burst : r = Ret(SendNew(refill_mbufs(u), n, FALSE), 0)
        \/ \E n \in 0 .. (L4Burst - 1) : r = Ret(SendNew(refill_mbufs(u), n, TRUE), -1)
        \/ s.cancelled /\ r = Ret(s, -1)
    BY DEF handle_gen_scheduled
  <1>3. ~ KeptByQueue(u)
    BY <1>1 DEF KeptByQueue
  <1> HIDE DEF u
  <1>4. CASE r = Ret(u, -1)
    BY <1>1, <1>4 DEF Ret
  <1>5. CASE \E n \in 0 .. L4Burst : r = Ret(SendNew(refill_mbufs(u), n, FALSE), 0)
    <2> PICK n \in 0 .. L4Burst : r = Ret(SendNew(refill_mbufs(u), n, FALSE), 0)
      BY <1>5
    <2>1. r.state = SendNew(refill_mbufs(u), n, FALSE)
      BY DEF Ret
    <2> DEFINE t == SendNew(refill_mbufs(u), n, FALSE)
    <2>2. /\ Sound(t) /\ t.cancelled = FALSE
          /\ t.handle_state = u.handle_state /\ t.stopped = u.stopped
      BY <1>1, <1>3, NewPacketsOwned
    <2> QED BY <1>1, <2>1, <2>2
  <1>6. CASE \E n \in 0 .. (L4Burst - 1) : r = Ret(SendNew(refill_mbufs(u), n, TRUE), -1)
    <2> PICK n \in 0 .. (L4Burst - 1) : r = Ret(SendNew(refill_mbufs(u), n, TRUE), -1)
      BY <1>6
    <2>1. r.state = SendNew(refill_mbufs(u), n, TRUE) /\ r.ret = -1
      BY DEF Ret
    <2>2. n \in 0 .. L4Burst /\ n < L4Burst
      BY L4HandlersAssumption
    <2> DEFINE t == SendNew(refill_mbufs(u), n, TRUE)
    <2>3. /\ Sound(t) /\ t.mbuf_saved = TRUE
          /\ t.handle_state = u.handle_state /\ t.stopped = u.stopped
      BY <1>1, <1>3, <2>2, NewPacketsOwned
    <2>4. r.ret = -1
      BY <2>1
    <2>5. r.ret # 0
      <3>1. -1 # 0
        OBVIOUS
      <3> QED BY <2>4, <3>1, Zenon
    <2>6. r.state = t
      BY <2>1
    <2> HIDE DEF t
    <2> QED BY <1>1, <2>3, <2>5, <2>6
  <1>7. CASE s.cancelled /\ r = Ret(s, -1)
    BY <1>7 DEF Ret
  <1> QED BY <1>2, <1>4, <1>5, <1>6, <1>7

\* A part that is cut off goes first at the next call.
LEMMA PartsSound ==
  ASSUME NEW s, Sound(s), Owner(s), NEW t \in Parts(s)
  PROVE  Sound(t) /\ Owner(t) /\ t.stopped = s.stopped
  <1>1. s.handle_state \in {"queued", "scheduled"} /\ (s.mbuf_saved => s.cancelled)
    BY DEF Sound, ServerState
  <1>2. ASSUME NEW r, NEW h \in {"queued", "scheduled"}, Sound(r)
        PROVE  LET q == [r EXCEPT !.handle_state = h] IN
               /\ Sound(q) /\ q.handle_state = h /\ q.cancelled = r.cancelled
               /\ q.mbuf_saved = r.mbuf_saved /\ q.stopped = r.stopped
    <2> DEFINE q == [r EXCEPT !.handle_state = h]
    <2>1. r \in ServerState
      BY <1>2 DEF Sound
    <2>2. q \in ServerState /\ q.handle_state = h
      BY <1>2, <2>1 DEF ServerState
    <2>3. /\ q.fqueue = r.fqueue /\ q.window = r.window /\ q.processed = r.processed
          /\ q.sent = r.sent /\ q.overflowed = r.overflowed /\ q.received = r.received
          /\ q.cancelled = r.cancelled /\ q.mbuf_saved = r.mbuf_saved
          /\ q.wrong = r.wrong /\ q.stopped = r.stopped
          /\ q.n_new_mbufs = r.n_new_mbufs /\ q.owned = r.owned
      BY <2>1 DEF ServerState
    <2> HIDE DEF q
    <2>4. PICK done \in Seq(Nat) : InLine(r, done)
      BY <1>2 DEF Sound
    <2>5. InLine(q, done)
      BY <2>3, <2>4 DEF InLine, KeptByQueue
    <2>6. Sound(q)
      BY <1>2, <2>2, <2>3, <2>4, <2>5 DEF Sound, OwnedLast
    <2> QED BY <2>2, <2>3, <2>6 DEF q
  <1>3. CASE s.handle_state = "queued"
    <2>1. ~ s.mbuf_saved
      BY <1>1, <1>3 DEF Owner
    <2> PICK a \in handle_gen_queued(s) :
          IF a.ret # 0 THEN t = a.state
          ELSE \E b \in handle_gen_scheduled(a.state) : t = Switched(b.state, "scheduled", b)
      BY <1>3 DEF Parts
    <2>2. /\ Sound(a.state) /\ ~ a.state.mbuf_saved /\ (a.ret = 0 => ~ a.state.cancelled)
          /\ a.state.handle_state = "queued" /\ a.state.stopped = s.stopped
      BY <1>3, <2>1, QueuedSound
    <2>3. CASE a.ret # 0
      BY <2>2, <2>3 DEF Owner
    <2>4. CASE a.ret = 0
      <3> PICK b \in handle_gen_scheduled(a.state) : t = Switched(b.state, "scheduled", b)
        BY <2>4
      <3>1. a.state.cancelled => a.state.mbuf_saved
        BY <2>2, <2>4
      <3>2. /\ Sound(b.state) /\ (b.ret = 0 => ~ b.state.cancelled)
            /\ (b.state.cancelled => b.state.mbuf_saved) /\ b.state.stopped = s.stopped
        BY <2>2, <3>1, ScheduledSound
      <3> DEFINE h == IF b.ret # 0 THEN "scheduled" ELSE b.state.handle_state
      <3>3. h \in {"queued", "scheduled"}
        BY <3>2 DEF Sound, ServerState
      <3>4. t = [b.state EXCEPT !.handle_state = h]
        BY DEF Switched
      <3> HIDE DEF h
      <3>6. LET q == [b.state EXCEPT !.handle_state = h] IN
            /\ Sound(q) /\ q.handle_state = h /\ q.cancelled = b.state.cancelled
            /\ q.mbuf_saved = b.state.mbuf_saved /\ q.stopped = b.state.stopped
        BY <1>2, <3>2, <3>3
      <3>5. /\ Sound(t) /\ t.handle_state = h /\ t.cancelled = b.state.cancelled
            /\ t.mbuf_saved = b.state.mbuf_saved /\ t.stopped = s.stopped
        BY <3>2, <3>4, <3>6
      <3> QED BY <3>2, <3>5 DEF Owner, h
    <2> QED BY <2>3, <2>4
  <1>4. CASE s.handle_state = "scheduled"
    <2>1. s.cancelled => s.mbuf_saved
      BY <1>4 DEF Owner
    <2> PICK a \in handle_gen_scheduled(s) :
          IF a.ret # 0 THEN t = a.state
          ELSE \E b \in handle_gen_queued(a.state) : t = Switched(b.state, "queued", b)
      BY <1>4 DEF Parts
    <2>2. /\ Sound(a.state) /\ (a.ret = 0 => ~ a.state.cancelled)
          /\ (a.state.cancelled => a.state.mbuf_saved)
          /\ a.state.handle_state = "scheduled" /\ a.state.stopped = s.stopped
      BY <1>4, <2>1, ScheduledSound
    <2>3. CASE a.ret # 0
      BY <2>2, <2>3 DEF Owner
    <2>4. CASE a.ret = 0
      <3> PICK b \in handle_gen_queued(a.state) : t = Switched(b.state, "queued", b)
        BY <2>4
      <3>1. ~ a.state.mbuf_saved
        BY <2>2, <2>4 DEF Sound
      <3>2. /\ Sound(b.state) /\ (b.ret = 0 => ~ b.state.cancelled)
            /\ ~ b.state.mbuf_saved /\ b.state.stopped = s.stopped
        BY <2>2, <3>1, QueuedSound
      <3> DEFINE h == IF b.ret # 0 THEN "queued" ELSE b.state.handle_state
      <3>3. h \in {"queued", "scheduled"}
        BY <3>2 DEF Sound, ServerState
      <3>4. t = [b.state EXCEPT !.handle_state = h]
        BY DEF Switched
      <3> HIDE DEF h
      <3>6. LET q == [b.state EXCEPT !.handle_state = h] IN
            /\ Sound(q) /\ q.handle_state = h /\ q.cancelled = b.state.cancelled
            /\ q.mbuf_saved = b.state.mbuf_saved /\ q.stopped = b.state.stopped
        BY <1>2, <3>2, <3>3
      <3>5. /\ Sound(t) /\ t.handle_state = h /\ t.cancelled = b.state.cancelled
            /\ t.mbuf_saved = b.state.mbuf_saved /\ t.stopped = s.stopped
        BY <3>2, <3>4, <3>6
      <3> QED BY <3>2, <3>5 DEF Owner, h
    <2> QED BY <2>3, <2>4
  <1> QED BY <1>1, <1>3, <1>4

-----------------------------------------------------------------------------
(***************************************************************************)
(* The handlers of the L4 server: the invariant.                           *)
(***************************************************************************)

\* The invariant, in terms of the state of the task.
LEMMA SoundIs ==
  ASSUME ServerInv, ~ sv.wrong
  PROVE  Sound(sv) /\ Owner(sv)
  <1>1. Sound(sv)
    BY DoneTypes DEF ServerInv, Sound
  <1>2. Owner(sv)
    BY DEF ServerInv, Owner, ResumedByOwner
  <1> QED BY <1>1, <1>2

\* A sound state of the task gives the invariant again.
LEMMA SoundKeeps ==
  ASSUME Sound(sv'), Owner(sv'), role' = "client" => ~ sv'.stopped /\ ~ sv'.cancelled
  PROVE  ServerInv'
  <1>1. ~ sv'.wrong /\ sv' \in ServerState
    BY DEF Sound
  <1>2. PICK done \in Seq(Nat) : InLine(sv', done)
    BY DEF Sound
  <1>3. Done(sv') = done
    BY <1>1, <1>2, DoneIs
  <1>4. InLine(sv, Done(sv))'
    BY <1>2, <1>3 DEF InLine, Done, KeptByQueue
  <1>5. ResumedByOwner'
    BY DEF Owner, ResumedByOwner
  <1>6. PacketsOwned'
    BY <1>1 DEF PacketsOwned
  <1>7. OwnedLast(sv)' /\ (sv.mbuf_saved => sv.cancelled)' /\ (Len(sv.fqueue) < QueueSize)'
    BY DEF Sound, OwnedLast
  <1> QED BY <1>1, <1>4, <1>5, <1>6, <1>7 DEF ServerInv, ServerState

\* A task that was not called yet.
LEMMA ServerInit == L4HInit => ServerInv
  <1> SUFFICES ASSUME L4HInit PROVE ServerInv
    OBVIOUS
  <1>1. /\ sv.fqueue = <<>> /\ sv.window = <<>> /\ sv.processed = <<>> /\ sv.sent = {}
        /\ sv.overflowed = {} /\ sv.received = 0 /\ ~ sv.cancelled /\ ~ sv.mbuf_saved
        /\ ~ sv.wrong /\ ~ sv.stopped /\ sv.owned = {} /\ sv.n_new_mbufs = 0
    BY DEF L4HInit
  <1>2. sv \in ServerState
    BY L4HandlersAssumption DEF L4HInit, ServerState
  <1>3. Len(sv.fqueue) < QueueSize
    BY <1>1, L4HandlersAssumption
  <1>4. OwnedLast(sv)
    BY <1>1, L4HandlersAssumption DEF OwnedLast
  <1>5. InLine(sv, Done(sv))
    <2>1. ~ KeptByQueue(sv) /\ Done(sv) = <<>>
      BY <1>1 DEF KeptByQueue, Done
    <2>2. <<>> \o (<<>> \o <<>>) = <<>> /\ <<>> \o <<>> = <<>>
      BY ConcatEmptySeq, EmptySeq
    <2>3. Range(<<>>) = {}
      BY DEF Range
    <2>4. Increasing(<<>>)
      BY DEF Increasing
    <2>5. 1 .. 0 = {}
      OBVIOUS
    <2> QED BY <1>1, <2>1, <2>2, <2>3, <2>4, <2>5 DEF InLine
  <1> QED BY <1>1, <1>2, <1>3, <1>4, <1>5 DEF ServerInv, PacketsOwned, ResumedByOwner

\* A call of the server's handler.
LEMMA StepServer ==
  ASSUME ServerInv, NEW n \in 0 .. L4Burst, handle_gen_bulk(n)
  PROVE  ServerInv'
  <1>1. ~ sv.stopped /\ ~ sv.wrong /\ role' = "server"
    BY DEF handle_gen_bulk, ServerInv, PacketsOwned
  <1>2. Sound(sv) /\ Owner(sv)
    BY <1>1, SoundIs
  <1> DEFINE s == Stored(sv, n)
  <1>3. Sound(s) /\ Owner(s)
    <2>1. n \in Nat
      OBVIOUS
    <2> QED BY <1>2, <2>1, StoredSound DEF Owner
  <1>4. sv' \in Parts(s)
    BY DEF handle_gen_bulk
  <1> HIDE DEF s
  <1>5. Sound(sv') /\ Owner(sv')
    BY <1>3, <1>4, PartsSound
  <1> QED BY <1>1, <1>5, SoundKeeps

\* A call of the client's handler.
LEMMA StepClient ==
  ASSUME ServerInv, handle_gen_bulk_client
  PROVE  ServerInv'
  <1>1. ~ sv.stopped /\ ~ sv.cancelled /\ ~ sv.wrong
    BY DEF handle_gen_bulk_client, ServerInv, PacketsOwned
  <1>2. Sound(sv) /\ ~ KeptByQueue(sv)
    BY <1>1, SoundIs DEF KeptByQueue
  <1> PICK n \in 0 .. L4Burst, new \in 0 .. L4Burst, refill \in BOOLEAN :
        LET a == IF refill THEN SendNew(refill_mbufs(sv), n, FALSE) ELSE sv IN
        sv' \in {a, SendNew(refill_mbufs(a), new, FALSE)}
    BY DEF handle_gen_bulk_client
  <1> DEFINE a == IF refill THEN SendNew(refill_mbufs(sv), n, FALSE) ELSE sv
             b == SendNew(refill_mbufs(a), new, FALSE)
  <1>3. Sound(a) /\ ~ a.cancelled /\ ~ a.stopped
    <2>1. CASE refill
      <3> DEFINE t == SendNew(refill_mbufs(sv), n, FALSE)
      <3>1. Sound(t) /\ t.cancelled = FALSE /\ t.stopped = sv.stopped
        BY <1>2, NewPacketsOwned
      <3> QED BY <1>1, <2>1, <3>1
    <2>2. CASE ~ refill
      BY <1>1, <1>2, <2>2
    <2> QED BY <2>1, <2>2
  <1>4. sv' = a \/ sv' = b
    OBVIOUS
  <1> HIDE DEF a
  <1>5. Sound(b) /\ b.cancelled = FALSE /\ b.stopped = a.stopped
    <2>1. ~ KeptByQueue(a)
      BY <1>3 DEF KeptByQueue
    <2> QED BY <1>3, <2>1, NewPacketsOwned
  <1> HIDE DEF b
  <1>6. Sound(sv') /\ ~ sv'.cancelled /\ ~ sv'.stopped
    BY <1>3, <1>4, <1>5
  <1>7. Owner(sv')
    BY <1>6 DEF Owner
  <1> QED BY <1>6, <1>7, SoundKeeps

\* A stop drops what waits only when it goes wrong.
LEMMA StepStop ==
  ASSUME ServerInv, stop_task_gen_server
  PROVE  ServerInv'
  <1>1. ~ sv.stopped /\ ~ sv.wrong /\ role' = "server" /\ sv \in ServerState
    BY DEF stop_task_gen_server, ServerInv, PacketsOwned
  <1>2. Sound(sv)
    BY <1>1, SoundIs
  <1> DEFINE w == (sv.cancelled /\ ~ sv.mbuf_saved) \/ Fetched(sv).window # <<>>
  <1>3. sv' = [sv EXCEPT !.stopped = TRUE, !.cancelled = FALSE, !.mbuf_saved = FALSE,
                         !.wrong = w]
    <2>1. sv.wrong = FALSE
      BY <1>1 DEF ServerState
    <2> QED BY <1>1, <2>1 DEF stop_task_gen_server, ServerState
  <1>4. w => Fetched(sv).window # <<>>
    <2>1. KeptByQueue(sv) => sv.window # <<>>
      BY <1>2 DEF Sound, InLine
    <2> QED BY <2>1 DEF KeptByQueue, Fetched
  <1>5. w \in BOOLEAN
    OBVIOUS
  <1>6. KeptByQueue(sv) => w
    BY DEF KeptByQueue
  <1> HIDE DEF w
  <1>7. /\ sv'.fqueue = sv.fqueue /\ sv'.window = sv.window /\ sv'.processed = sv.processed
        /\ sv'.sent = sv.sent /\ sv'.overflowed = sv.overflowed /\ sv'.received = sv.received
        /\ sv'.owned = sv.owned /\ sv'.n_new_mbufs = sv.n_new_mbufs
    BY <1>1, <1>3 DEF ServerState
  <1>8. /\ sv'.stopped = TRUE /\ sv'.cancelled = FALSE /\ sv'.mbuf_saved = FALSE
        /\ sv'.wrong = w
    BY <1>1, <1>3 DEF ServerState
  <1>9. sv' \in ServerState
    BY <1>1, <1>3, <1>5 DEF ServerState
  <1>10. CASE w
    <2>1. Fetched(sv').window = Fetched(sv).window
      <3>1. ASSUME NEW s \in ServerState
            PROVE  Fetched(s).window =
                     IF s.window # <<>> THEN s.window
                     ELSE SubSeq(s.fqueue, 1, Min({L4Burst, Len(s.fqueue)}))
        BY DEF Fetched, ServerState
      <3>2. /\ Fetched(sv').window =
                 IF sv'.window # <<>> THEN sv'.window
                 ELSE SubSeq(sv'.fqueue, 1, Min({L4Burst, Len(sv'.fqueue)}))
            /\ Fetched(sv).window =
                 IF sv.window # <<>> THEN sv.window
                 ELSE SubSeq(sv.fqueue, 1, Min({L4Burst, Len(sv.fqueue)}))
        BY <1>1, <1>9, <3>1
      <3> QED BY <1>7, <3>2
    <2>2. Fetched(sv').window # <<>>
      BY <1>4, <1>10, <2>1
    <2>3. Fetched(sv)' = Fetched(sv')
      BY DEF Fetched
    <2>4. PacketsOwned'
      BY <1>8, <2>2, <2>3 DEF PacketsOwned
    <2>5. (Len(sv.fqueue) < QueueSize)'
      BY <1>2, <1>7 DEF Sound
    <2> QED BY <1>1, <1>8, <1>9, <1>10, <2>4, <2>5 DEF ServerInv, ServerState
  <1>11. CASE ~ w
    <2>1. PICK done \in Seq(Nat) : InLine(sv, done)
      BY <1>2 DEF Sound
    <2>2. ~ KeptByQueue(sv) /\ ~ KeptByQueue(sv')
      BY <1>6, <1>8, <1>11 DEF KeptByQueue
    <2>3. InLine(sv', done)
      BY <1>7, <2>1, <2>2 DEF InLine
    <2>4. OwnedLast(sv')
      BY <1>2, <1>7 DEF Sound, OwnedLast
    <2>5. Sound(sv')
      BY <1>2, <1>7, <1>8, <1>9, <1>11, <2>1, <2>3, <2>4 DEF Sound
    <2>6. Owner(sv')
      BY <1>8 DEF Owner
    <2> QED BY <1>1, <2>5, <2>6, SoundKeeps
  <1> QED BY <1>10, <1>11

\* A task that is started again goes on where it stopped.
LEMMA StepStart ==
  ASSUME ServerInv, start_task_gen_server
  PROVE  ServerInv'
  <1>1. /\ sv.stopped /\ ~ sv.wrong /\ sv \in ServerState /\ role # "client" /\ role' = role
    BY DEF start_task_gen_server, ServerInv, PacketsOwned
  <1>2. Sound(sv) /\ Owner(sv)
    BY <1>1, SoundIs
  <1>3. sv' = [sv EXCEPT !.stopped = FALSE]
    BY DEF start_task_gen_server
  <1>4. /\ sv'.fqueue = sv.fqueue /\ sv'.window = sv.window /\ sv'.processed = sv.processed
        /\ sv'.sent = sv.sent /\ sv'.overflowed = sv.overflowed /\ sv'.received = sv.received
        /\ sv'.owned = sv.owned /\ sv'.n_new_mbufs = sv.n_new_mbufs
        /\ sv'.cancelled = sv.cancelled /\ sv'.mbuf_saved = sv.mbuf_saved
        /\ sv'.wrong = sv.wrong /\ sv'.handle_state = sv.handle_state
    BY <1>1, <1>3 DEF ServerState
  <1>5. sv' \in ServerState
    BY <1>1, <1>3 DEF ServerState
  <1>6. PICK done \in Seq(Nat) : InLine(sv, done)
    BY <1>2 DEF Sound
  <1>7. InLine(sv', done)
    BY <1>4, <1>6 DEF InLine, KeptByQueue
  <1>8. Sound(sv') /\ Owner(sv')
    BY <1>2, <1>4, <1>5, <1>6, <1>7 DEF Sound, OwnedLast, Owner
  <1> QED BY <1>1, <1>8, SoundKeeps

\* Every step keeps the invariant.
LEMMA ServerNext == ServerInv /\ [L4HNext]_l4h_vars => ServerInv'
  <1> SUFFICES ASSUME ServerInv, [L4HNext]_l4h_vars PROVE ServerInv'
    OBVIOUS
  <1>1. CASE \E n \in 0 .. L4Burst : handle_gen_bulk(n)
    BY <1>1, StepServer
  <1>2. CASE handle_gen_bulk_client
    BY <1>2, StepClient
  <1>3. CASE stop_task_gen_server
    BY <1>3, StepStop
  <1>4. CASE start_task_gen_server
    BY <1>4, StepStart
  <1>5. CASE UNCHANGED l4h_vars
    BY <1>5 DEF l4h_vars, ServerInv, ServerState, PacketsOwned, ResumedByOwner, InLine, Done,
                KeptByQueue, OwnedLast, Fetched
  <1> QED BY <1>1, <1>2, <1>3, <1>4, <1>5 DEF L4HNext

\* The line in the words of the property.
LEMMA LineServed ==
  ASSUME ServerInv, ~ sv.wrong
  PROVE  ServedInOrder
  <1> DEFINE done == Done(sv)
             w == sv.window
             q == sv.fqueue
             p == sv.processed
             line == done \o (w \o q)
             rest == IF sv.cancelled /\ ~ sv.mbuf_saved THEN Tail(w) ELSE w
  <1>1. /\ sv \in ServerState /\ done \in Seq(Nat) /\ w \in Seq(Nat) /\ q \in Seq(Nat)
        /\ p \in Seq(Nat) /\ InLine(sv, done)
    BY DoneTypes DEF ServerInv, ServerState
  <1>2. /\ Increasing(line) /\ Range(line) \cup sv.overflowed = 1 .. sv.received
        /\ Range(line) \cap sv.overflowed = {} /\ sv.sent = Range(done)
    BY <1>1 DEF InLine
  <1> HIDE DEF done
  <1>3. w \o q \in Seq(Nat)
    BY <1>1, ConcatProperties
  <1>4. /\ Range(line) = Range(done) \cup Range(w) \cup Range(q)
        /\ \A x \in Range(done), y \in Range(w) : x < y
    <2> HIDE DEF w, q
    <2> DEFINE r == w \o q
    <2>4. r \in Seq(Nat)
      BY <1>3
    <2> HIDE DEF r
    <2>5. Range(done \o r) = Range(done) \cup Range(r)
      BY <1>1, <2>4, RangeConcatenation
    <2>1. Range(line) = Range(done) \cup Range(w \o q)
      BY <2>5 DEF r
    <2>2. Range(w \o q) = Range(w) \cup Range(q)
      BY <1>1, RangeConcatenation
    <2>3. \A x \in Range(done), y \in Range(w \o q) : x < y
      BY <1>1, <1>2, <1>3, IncreasingParts
    <2> QED BY <2>1, <2>2, <2>3
  <1>5. Range(done) \cap Range(w) = {}
    <2>1. Range(done) \in SUBSET Nat
      BY <1>1, RangeOfSeq
    <2> QED BY <1>4, <2>1
  <1>6. /\ p \o rest \o q = line
        /\ Range(p) \cup Range(w) = Range(done) \cup Range(w)
        /\ Range(p) \ Range(w) = Range(done)
    <2>1. CASE ~ KeptByQueue(sv)
      <3>1. p = done /\ rest = w
        BY <1>1, <2>1, ConcatEmptySeq DEF InLine, KeptByQueue
      <3>2. (done \o w) \o q = line
        BY ZenonT(60), <1>1, Reassociated
      <3> QED BY <1>5, <3>1, <3>2
    <2>2. CASE KeptByQueue(sv)
      <3> DEFINE h == <<w[1]>>
      <3>1. w # <<>> /\ p = done \o h /\ rest = Tail(w)
        BY <1>1, <2>2 DEF InLine, KeptByQueue
      <3>2. Len(w) \in Nat \ {0} /\ \A i \in 1 .. Len(w) : w[i] \in Nat
        BY <1>1, <3>1, EmptySeq, LenProperties
      <3>3. h \in Seq(Nat) /\ Range(h) = {w[1]}
        <4>1. w[1] \in Nat
          BY <3>2
        <4>2. h \in Seq(Nat) /\ Len(h) = 1 /\ h[1] = w[1]
          BY <4>1
        <4> HIDE DEF h
        <4>3. Range(h) = {h[i] : i \in 1 .. 1}
          BY <4>2, RangeIs
        <4> QED BY <4>2, <4>3
      <3>4. w[1] \in Range(w)
        BY <1>1, <3>2, RangeIs
      <3>5. rest \in Seq(Nat) /\ h \o rest = w
        <4>1. 1 \in 1 .. Len(w) /\ Len(w) \in 1 .. Len(w)
          BY <3>2
        <4>2. SubSeq(w, 1, Len(w)) = h \o SubSeq(w, 1 + 1, Len(w))
          BY <1>1, <4>1, SubSeqRecursiveFirst
        <4>3. Tail(w) = SubSeq(w, 2, Len(w)) /\ Tail(w) \in Seq(Nat)
          BY <1>1, <3>1, TailIsSubSeq, HeadTailProperties
        <4>4. SubSeq(w, 1, Len(w)) = w
          BY <1>1, SubSeqFull
        <4>7. 1 + 1 = 2
          OBVIOUS
        <4>5. SubSeq(w, 1 + 1, Len(w)) = rest
          BY <3>1, <4>3, <4>7
        <4>6. rest \in Seq(Nat)
          BY <3>1, <4>3
        <4> QED BY <4>2, <4>4, <4>5, <4>6
      <3> HIDE DEF h, rest, w, q, p
      <3>6. (done \o h) \o rest = done \o w
        <4>1. (done \o h) \o rest = done \o (h \o rest)
          <5>1. done \in Seq(Nat) /\ h \in Seq(Nat) /\ rest \in Seq(Nat)
            BY <1>1, <3>3, <3>5
          <5> QED BY <5>1, Reassociated
        <4> QED BY <3>5, <4>1
      <3>7. (done \o w) \o q = done \o (w \o q)
        BY ZenonT(60), <1>1, Reassociated
      <3>8. Range(p) = Range(done) \cup {w[1]}
        BY <1>1, <3>1, <3>3, RangeConcatenation
      <3> QED BY <1>5, <3>1, <3>4, <3>6, <3>7, <3>8
    <2> QED BY <2>1, <2>2
  <1> HIDE DEF line, rest
  <1> QED BY <1>2, <1>4, <1>6 DEF ServedInOrder, rest

\* The invariant of the handlers.
LEMMA ServerInvariance == L4HSpec => []ServerInv
  <1> QED BY ServerInit, ServerNext, PTL DEF L4HSpec

\* However the L4 server is cut off by its token bucket, every packet is given
\* to its connection once and in order, and every packet of the task's own has
\* one owner (handle_gen_queued, handle_gen_scheduled, stop_task_gen_server).
THEOREM ServerKept == L4HSpec => []ServerSound
  <1>1. ServerInv => ServerSound
    BY LineServed DEF ServerInv, ServerSound
  <1> QED BY <1>1, ServerInvariance, PTL

-----------------------------------------------------------------------------
(***************************************************************************)
(* Packet ids: their places in the table, and how many there are.          *)
(***************************************************************************)

LEMMA PlaceOf ==
  ASSUME NEW id \in Nat
  PROVE  /\ id = QueueSlots * Queue(id) + Slot(id)
         /\ Queue(id) \in Nat /\ Slot(id) \in 0 .. (QueueSlots - 1)
  <1> DEFINE w == QueueSlots
  <1>1. w \in Nat \ {0}
    BY GenLatAssumption
  <1> HIDE DEF w
  <1>2. id = w * (id \div w) + (id % w) /\ id \div w \in Int /\ id % w \in 0 .. (w - 1)
    BY <1>1, Division
  <1>3. id \div w >= 0
    BY <1>1
  <1> QED BY <1>2, <1>3 DEF w, Queue, Slot
LEMMA IdAt ==
  ASSUME NEW q \in Nat, NEW i \in 0 .. (QueueSlots - 1), NEW id, id = QueueSlots * q + i
  PROVE  id \in Nat /\ Slot(id) = i /\ Queue(id) = q
  <1> DEFINE w == QueueSlots
             p == w * q
  <1>1. w \in Nat \ {0}
    BY GenLatAssumption
  <1> HIDE DEF w
  <1>2. p \in Nat
    BY <1>1
  <1>3. id = p + i /\ i \in Nat
    BY <1>1 DEF w
  <1> HIDE DEF p
  <1>4. id \in Nat
    BY <1>2, <1>3
  <1>5. id % w = i
    BY <1>1, <1>3, <1>4, RemainderUnique DEF p, w
  <1>8. id \div w = q
    BY <1>1, <1>3, <1>4, QuotientUnique DEF p, w
  <1> QED BY <1>4, <1>5, <1>8 DEF w, Slot, Queue
LEMMA ATurnMore ==
  ASSUME NEW a \in Nat, NEW b \in Nat, a < b
  PROVE  QueueSlots * a + QueueSlots <= QueueSlots * b
  <1> DEFINE w == QueueSlots
             d == b - a - 1
  <1>1. w \in Nat \ {0} /\ d \in Nat /\ b = a + 1 + d
    BY GenLatAssumption
  <1> HIDE DEF w, d
  <1>2. w * b = w * a + w + w * d
    BY <1>1
  <1>3. w * d \in Nat /\ w * a \in Nat
    BY <1>1
  <1> QED BY <1>1, <1>2, <1>3 DEF w

\* The order of two ids is that of their queue ids, then of their places.
LEMMA IdOrder ==
  ASSUME NEW x \in Nat, NEW y \in Nat
  PROVE  /\ Slot(x) >= Slot(y) => (x < y <=> Queue(x) < Queue(y))
         /\ Slot(x) < Slot(y) => (x < y <=> Queue(x) <= Queue(y))
         /\ Slot(x) = Slot(y) /\ Queue(x) = Queue(y) => x = y
         /\ x - y < QueueSlots => /\ Slot(x) >= Slot(y) => Queue(x) <= Queue(y)
                                  /\ Queue(x) <= Queue(y) + 1
  <1> DEFINE w == QueueSlots
             p == w * Queue(x)
             q == w * Queue(y)
             r == w * (Queue(y) + 1)
  <1>0. w \in Nat \ {0}
    BY GenLatAssumption
  <1>1. x = p + Slot(x) /\ Queue(x) \in Nat /\ Slot(x) \in 0 .. (w - 1)
    BY PlaceOf
  <1>2. y = q + Slot(y) /\ Queue(y) \in Nat /\ Slot(y) \in 0 .. (w - 1)
    BY PlaceOf
  <1>3. Queue(x) < Queue(y) => p + w <= q
    BY <1>1, <1>2, ATurnMore
  <1>4. Queue(y) < Queue(x) => q + w <= p
    BY <1>1, <1>2, ATurnMore
  <1>5. Queue(y) + 1 < Queue(x) => r + w <= p
    BY <1>1, <1>2, ATurnMore
  <1>6. Queue(x) = Queue(y) => p = q
    OBVIOUS
  <1>7. p \in Nat /\ q \in Nat /\ r = q + w
    BY <1>0, <1>1, <1>2
  <1> HIDE DEF w, p, q, r
  <1>8. Slot(x) >= Slot(y) => (x < y <=> Queue(x) < Queue(y))
    BY <1>0, <1>1, <1>2, <1>3, <1>4, <1>6, <1>7
  <1>9. Slot(x) < Slot(y) => (x < y <=> Queue(x) <= Queue(y))
    BY <1>0, <1>1, <1>2, <1>3, <1>4, <1>6, <1>7
  <1>10. Slot(x) = Slot(y) /\ Queue(x) = Queue(y) => x = y
    BY <1>1, <1>2, <1>6
  <1>11. x - y < w => /\ Slot(x) >= Slot(y) => Queue(x) <= Queue(y)
                      /\ Queue(x) <= Queue(y) + 1
    BY <1>0, <1>1, <1>2, <1>4, <1>5, <1>7
  <1> QED BY <1>8, <1>9, <1>10, <1>11 DEF w

\* The ids of a place whose queue id is from a up to b, without b.
AtPlace(i, a, b) == {id \in Nat : Slot(id) = i /\ a <= Queue(id) /\ Queue(id) < b}
LEMMA AtPlaceCount ==
  ASSUME NEW i \in 0 .. (QueueSlots - 1), NEW a \in Nat, NEW b \in Nat
  PROVE  /\ IsFiniteSet(AtPlace(i, a, b))
         /\ Cardinality(AtPlace(i, a, b)) = IF a <= b THEN b - a ELSE 0
  <1>1. CASE ~ (a <= b)
    <2>1. AtPlace(i, a, b) = {}
      <3>1. \A id \in Nat : Queue(id) \in Nat
        BY PlaceOf
      <3> QED BY <1>1, <3>1 DEF AtPlace
    <2> QED BY <1>1, <2>1, FS_EmptySet
  <1>2. CASE a <= b
    <2> DEFINE n == b - a
               T == {k \in 0 .. n : IsFiniteSet(AtPlace(i, a, a + k)) /\ Cardinality(AtPlace(i, a, a + k)) = k}
    <2>1. n \in Nat /\ b = a + n
      BY <1>2
    <2> HIDE DEF n
    <2>2. 0 \in T
      <3>1. AtPlace(i, a, a + 0) = {}
        <4>1. \A id \in Nat : Queue(id) \in Nat
          BY PlaceOf
        <4> QED BY <4>1 DEF AtPlace
      <3> QED BY <2>1, <3>1, FS_EmptySet
    <2>3. ASSUME NEW k \in 0 .. n - 1, k \in T PROVE k + 1 \in T
      <3> DEFINE q == a + k
                 id == QueueSlots * q + i
                 S == AtPlace(i, a, a + k)
      <3>1. q \in Nat /\ q + 1 = a + (k + 1) /\ k + 1 \in 0 .. n /\ k \in Nat
        BY <2>1
      <3>2. IsFiniteSet(S) /\ Cardinality(S) = k
        BY <2>3
      <3>3. id \in Nat /\ Slot(id) = i /\ Queue(id) = q
        <4> HIDE DEF q
        <4> QED BY <3>1, IdAt
      <3>4. id \notin S
        BY <3>1, <3>3 DEF AtPlace
      <3>5. AtPlace(i, a, q + 1) = S \cup {id}
        <4>1. ASSUME NEW x \in Nat
              PROVE  Slot(x) = i /\ a <= Queue(x) /\ Queue(x) < q + 1
                       <=> (Slot(x) = i /\ a <= Queue(x) /\ Queue(x) < q) \/ x = id
          <5>1. Queue(x) \in Nat
            BY PlaceOf
          <5>2. Slot(x) = i /\ Queue(x) = q => x = id
            <6> HIDE DEF id, q
            <6> QED BY <3>3, IdOrder
          <5> HIDE DEF id
          <5> QED BY <3>1, <3>3, <5>1, <5>2
        <4> HIDE DEF id
        <4> QED BY <3>3, <4>1 DEF AtPlace
      <3> HIDE DEF id, S, q
      <3>6. IsFiniteSet(S \cup {id}) /\ Cardinality(S \cup {id}) = k + 1
        BY <3>2, <3>4, FS_AddElement
      <3> QED BY <3>1, <3>5, <3>6
    <2> HIDE DEF T
    <2>4. 0 .. n \subseteq T
      BY <2>1, <2>2, <2>3, ReachesAll
    <2>5. n \in T
      BY <2>1, <2>4
    <2> QED BY <1>2, <2>1, <2>5 DEF T
  <1> QED BY <1>1, <1>2

\* The ids handed over are below the bound, and their queue ids fit.
LEMMA QueueFits ==
  ASSUME NEW id \in Nat, id < MaxIndex
  PROVE  Queue(id) \in 0 .. (QueueIds - 1)
  <1> DEFINE w == QueueSlots
             p == w * Queue(id)
             q == w * QueueIds
  <1>1. w \in Nat \ {0} /\ QueueIds \in Nat /\ MaxIndex <= q /\ q \in Nat /\ MaxIndex \in Nat
    BY GenLatAssumption
  <1>2. id = p + Slot(id) /\ Queue(id) \in Nat /\ Slot(id) \in 0 .. (w - 1)
    BY PlaceOf
  <1>3. p \in Nat
    BY <1>1, <1>2
  <1>4. QueueIds < Queue(id) => q + w <= p
    BY <1>1, <1>2, ATurnMore
  <1>5. QueueIds = Queue(id) => q = p
    OBVIOUS
  <1> HIDE DEF p, q, w
  <1> QED BY <1>1, <1>2, <1>3, <1>4, <1>5

\* What a sequence has without its i-th element.
LEMMA JoinedIs ==
  ASSUME NEW T, NEW u \in Seq(T), NEW v \in Seq(T)
  PROVE  /\ u \o v \in Seq(T) /\ Len(u \o v) = Len(u) + Len(v) /\ DOMAIN (u \o v) = 1 .. Len(u) + Len(v)
         /\ \A k \in 1 .. Len(u) : (u \o v)[k] = u[k]
         /\ \A k \in 1 .. Len(v) : (u \o v)[Len(u) + k] = v[k]
         /\ ToSet(u \o v) = ToSet(u) \cup ToSet(v)
  <1> DEFINE w == u \o v
             m == Len(u)
             n == Len(v)
  <1>1. m \in Nat /\ n \in Nat /\ DOMAIN u = 1 .. m /\ DOMAIN v = 1 .. n
    OBVIOUS
  <1>2. w \in Seq(T) /\ Len(w) = m + n
        /\ \A k \in 1 .. m + n : w[k] = IF k <= m THEN u[k] ELSE v[k - m]
    BY ConcatProperties
  <1>3. DOMAIN w = 1 .. m + n
    <2> HIDE DEF w, m, n
    <2> QED BY <1>2
  <1> HIDE DEF w, m, n
  <1>4. \A k \in 1 .. m : k \in 1 .. m + n /\ w[k] = u[k]
    BY <1>1, <1>2
  <1>5. \A k \in 1 .. n : m + k \in 1 .. m + n /\ w[m + k] = v[k]
    <2> TAKE k \in 1 .. n
    <2>1. m + k \in 1 .. m + n /\ ~ (m + k <= m) /\ (m + k) - m = k
      BY <1>1
    <2> QED BY <1>2, <2>1
  <1>6. ToSet(w) \subseteq ToSet(u) \cup ToSet(v)
    <2> SUFFICES ASSUME NEW k \in 1 .. m + n PROVE w[k] \in ToSet(u) \cup ToSet(v)
      BY <1>3 DEF ToSet
    <2>1. k <= m => k \in 1 .. m
      BY <1>1
    <2>2. ~ (k <= m) => k - m \in 1 .. n
      BY <1>1
    <2> QED BY <1>1, <1>2, <2>1, <2>2 DEF ToSet
  <1>7. ToSet(u) \cup ToSet(v) \subseteq ToSet(w)
    BY <1>1, <1>3, <1>4, <1>5 DEF ToSet
  <1> QED BY <1>2, <1>3, <1>4, <1>5, <1>6, <1>7 DEF w, m, n
LEMMA RemovedAt ==
  ASSUME NEW T, NEW s \in Seq(T), NEW i \in 1 .. Len(s)
  PROVE  LET r == SubSeq(s, 1, i - 1) \o SubSeq(s, i + 1, Len(s))
         IN /\ r \in Seq(T) /\ Len(r) = Len(s) - 1
            /\ ToSet(r) \subseteq ToSet(s) /\ ToSet(s) \ {s[i]} \subseteq ToSet(r)
  <1> DEFINE n == Len(s)
             u == SubSeq(s, 1, i - 1)
             v == SubSeq(s, i + 1, n)
             r == u \o v
  <1>1. n \in Nat /\ i \in 1 .. n /\ DOMAIN s = 1 .. n
    OBVIOUS
  <1>2. u \in Seq(T) /\ Len(u) = i - 1 /\ DOMAIN u = 1 .. i - 1 /\ \A k \in 1 .. i - 1 : u[k] = s[k]
    OBVIOUS
  <1>3. v \in Seq(T) /\ Len(v) = n - i /\ DOMAIN v = 1 .. n - i /\ \A k \in 1 .. n - i : v[k] = s[i + k]
    OBVIOUS
  <1> HIDE DEF n, u, v
  <1>4. r \in Seq(T) /\ Len(r) = Len(u) + Len(v) /\ ToSet(r) = ToSet(u) \cup ToSet(v)
    BY ZenonT(60), <1>2, <1>3, JoinedIs
  <1>5. ToSet(u) = {s[k] : k \in 1 .. i - 1}
    BY <1>2 DEF ToSet
  <1>6. ToSet(v) = {s[i + k] : k \in 1 .. n - i}
    BY <1>3 DEF ToSet
  <1>7. ToSet(s) = {s[k] : k \in 1 .. n}
    BY <1>1 DEF ToSet
  <1>8. \A k \in 1 .. i - 1 : k \in 1 .. n
    BY <1>1
  <1>9. \A k \in 1 .. n - i : i + k \in 1 .. n
    BY <1>1
  <1>10. ASSUME NEW k \in 1 .. n, k # i PROVE k \in 1 .. i - 1 \/ (k - i \in 1 .. n - i /\ i + (k - i) = k)
    BY <1>1, <1>10
  <1> HIDE DEF r
  <1>11. Len(r) = n - 1
    BY <1>1, <1>2, <1>3, <1>4
  <1>12. ToSet(r) \subseteq ToSet(s)
    BY <1>4, <1>5, <1>6, <1>7, <1>8, <1>9
  <1>13. ToSet(s) \ {s[i]} \subseteq ToSet(r)
    <2> SUFFICES ASSUME NEW k \in 1 .. n, s[k] # s[i] PROVE s[k] \in ToSet(r)
      BY <1>7
    <2>1. k \in 1 .. i - 1 \/ (k - i \in 1 .. n - i /\ i + (k - i) = k)
      BY <1>10
    <2>2. CASE k \in 1 .. i - 1
      BY <1>4, <1>5, <2>2
    <2>3. CASE k - i \in 1 .. n - i /\ i + (k - i) = k
      <3>1. s[i + (k - i)] \in ToSet(v)
        BY <1>6, <2>3
      <3> QED BY <1>4, <2>3, <3>1
    <2> QED BY <2>1, <2>2, <2>3
  <1> QED BY <1>4, <1>11, <1>12, <1>13 DEF r, u, v, n

\* The ids of a send are the next ones.
LEMMA SendStep ==
  ASSUME ~ gen_l3, IdsInv, NEW n \in 1 .. GenBurst, GenSend(n)
  PROVE  IdsInv'
  <1>1. /\ GlTypeOK /\ EntriesInv /\ DupsInv /\ CountedLost /\ ReportedLost
    BY DEF IdsInv
  <1>2. PICK ret \in 0 .. n : \E left \in Accepted(n, ret) :
          wire' = wire \o left /\ handed' = handed \cup ToSet(left) /\ pkt_queue_index' = Index(n, ret)
    BY DEF GenSend
  <1>3. reported = -1 /\ pkt_queue_index + n <= MaxIndex
        /\ UNCHANGED <<gen_l3, dups, got, eld, lat_test, previous_packet, reported>>
    BY DEF GenSend
  <1> DEFINE m == n - ret
             idx == pkt_queue_index
             left == [k \in 1 .. m |-> idx + k - 1]
  <1>4. m \in Nat /\ idx \in Nat /\ n \in Nat /\ m <= n /\ MaxIndex \in Nat
    BY <1>1, GenLatAssumption DEF GlTypeOK
  <1>5. wire' = wire \o left /\ handed' = handed \cup ToSet(left) /\ pkt_queue_index' = idx + m
    <2>1. Accepted(n, ret) = {left}
      BY DEF Accepted, Ids
    <2>2. Index(n, ret) = idx + m
      BY <1>4 DEF Index
    <2> QED BY <1>2, <2>1, <2>2
  <1>6. left \in Seq(idx .. idx + m - 1) /\ Len(left) = m /\ ToSet(left) = idx .. idx + m - 1
    <2> HIDE DEF m, idx
    <2>1. left \in [1 .. m -> idx .. idx + m - 1] /\ DOMAIN left = 1 .. m
      BY <1>4
    <2>4. left \in Seq(idx .. idx + m - 1) /\ Len(left) = m
      <3> HIDE DEF left
      <3> QED BY <1>4, <2>1
    <2>2. ToSet(left) \subseteq idx .. idx + m - 1
      BY <2>1 DEF ToSet
    <2>3. ASSUME NEW x \in idx .. idx + m - 1 PROVE x \in ToSet(left)
      <3>1. x - idx + 1 \in 1 .. m /\ idx + (x - idx + 1) - 1 = x
        BY <1>4
      <3> QED BY <3>1 DEF ToSet
    <2> QED BY <2>2, <2>3, <2>4
  <1> HIDE DEF left
  <1>7. handed = 0 .. (idx - 1) /\ handed' = 0 .. (idx + m - 1)
    <2>1. handed = 0 .. (idx - 1)
      BY <1>1 DEF GlTypeOK
    <2> HIDE DEF m, idx
    <2> QED BY <1>4, <1>5, <1>6, <2>1
  <1>8. wire \in Seq(handed) /\ wire \in Seq(handed') /\ left \in Seq(handed')
    <2>1. wire \in Seq(handed)
      BY <1>1 DEF GlTypeOK
    <2> HIDE DEF m, idx
    <2>2. handed \subseteq handed' /\ idx .. idx + m - 1 \subseteq handed'
      BY <1>4, <1>7
    <2>3. Seq(handed) \subseteq Seq(handed') /\ Seq(idx .. idx + m - 1) \subseteq Seq(handed')
      BY <2>2, SeqMonotonic
    <2> QED BY <1>6, <2>1, <2>3
  <1>9. wire' \in Seq(handed') /\ Len(wire') = Len(wire) + m /\ ToSet(wire') = ToSet(wire) \cup ToSet(left)
    <2> HIDE DEF m, idx
    <2> DEFINE H == handed'
    <2>1. wire \in Seq(H) /\ left \in Seq(H)
      BY <1>8
    <2> HIDE DEF H
    <2>2. wire \o left \in Seq(H) /\ Len(wire \o left) = Len(wire) + Len(left)
          /\ ToSet(wire \o left) = ToSet(wire) \cup ToSet(left)
      BY ONLY <2>1, JoinedIs
    <2> QED BY <1>5, <1>6, <2>2 DEF H
  <1>10. got \subseteq handed /\ ToSet(wire) \subseteq handed
    <2>1. got \subseteq handed
      BY <1>1 DEF GlTypeOK
    <2>2. ToSet(wire) \subseteq handed
      BY <1>8 DEF ToSet
    <2> QED BY <2>1, <2>2
  <1>11. GlTypeOK'
    <2>1. idx + m \in 0 .. MaxIndex
      <3> HIDE DEF m
      <3> QED BY <1>3, <1>4
    <2>2. got \in SUBSET handed'
      <3> HIDE DEF m, idx
      <3> QED BY <1>4, <1>7, <1>10
    <2> QED BY <1>1, <1>3, <1>5, <1>7, <1>9, <2>1, <2>2 DEF GlTypeOK
  <1>12. EntriesInv'
    BY <1>1, <1>3 DEF EntriesInv, Latest
  <1>13. DupsInv'
    <2> DEFINE A == ToSet(wire) \ got
               B == ToSet(left)
    <2>1. IsFiniteSet(A)
      <3>1. IsFiniteSet(handed)
        <4> HIDE DEF idx
        <4> QED BY <1>4, <1>7, FS_Interval
      <3> QED BY <1>10, <3>1, FS_Subset
    <2>2. IsFiniteSet(B) /\ Cardinality(B) = m
      <3> HIDE DEF idx, m
      <3>1. IsFiniteSet(idx .. idx + m - 1) /\ Cardinality(idx .. idx + m - 1) = IF idx > idx + m - 1 THEN 0 ELSE (idx + m - 1) - idx + 1
        BY <1>4, FS_Interval
      <3> QED BY <1>4, <1>6, <3>1
    <2>3. A \cap B = {} /\ ToSet(wire') \ got = A \cup B
      <3> HIDE DEF idx, m
      <3>1. \A x \in B : x \notin handed
        BY <1>4, <1>6, <1>7
      <3> QED BY <1>9, <1>10, <3>1
    <2> HIDE DEF A, B
    <2>4. Cardinality(A \cup B) = Cardinality(A) + Cardinality(B) - Cardinality(A \cap B)
      BY <2>1, <2>2, FS_Union
    <2>5. Cardinality(A) \in Nat /\ Cardinality(A \cap B) = 0
      BY <2>1, <2>3, FS_CardinalityType, FS_EmptySet
    <2>6. Len(wire) + lat_test.duplicate <= dups + Cardinality(A)
      BY <1>1 DEF DupsInv, A
    <2>7. Len(wire) \in Nat /\ lat_test.duplicate \in Nat /\ dups \in Nat
      BY <1>1, <1>8 DEF GlTypeOK
    <2> HIDE DEF m
    <2>8. Len(wire) + m + lat_test.duplicate <= dups + (Cardinality(A) + m)
      BY <1>4, <2>5, <2>6, <2>7
    <2>9. Cardinality(ToSet(wire') \ got) = Cardinality(A) + m
      <3>1. Cardinality(A \cup B) = Cardinality(A) + m - 0
        BY <2>2, <2>4, <2>5
      <3>2. Cardinality(A) + m - 0 = Cardinality(A) + m
        BY <1>4, <2>5
      <3> QED BY <2>3, <3>1, <3>2
    <2> QED BY <1>3, <1>9, <2>8, <2>9 DEF DupsInv
  <1>14. CountedLost'
    <2>1. {id \in handed' \ got : \E x \in got : x > id /\ Slot(x) = Slot(id)}
            = {id \in handed \ got : \E x \in got : x > id /\ Slot(x) = Slot(id)}
      <3>1. ASSUME NEW id \in handed', NEW x \in got, x > id PROVE id \in handed
        <4> HIDE DEF idx, m
        <4> QED BY <1>4, <1>7, <1>10, <3>1
      <3>2. handed \subseteq handed'
        BY <1>5
      <3> QED BY <3>1, <3>2
    <2>2. lat_test.lost = Cardinality({id \in handed \ got : \E x \in got : x > id /\ Slot(x) = Slot(id)})
      BY <1>1, <1>3 DEF CountedLost
    <2> QED BY <1>3, <2>1, <2>2 DEF CountedLost
  <1>15. ReportedLost'
    BY <1>3 DEF ReportedLost
  <1> QED BY <1>11, <1>12, <1>13, <1>14, <1>15 DEF IdsInv

\* What the network does changes the packets under way, and only those.
LEMMA WireStep ==
  ASSUME ~ gen_l3, IdsInv, wire' \in Seq(handed), dups' \in Nat,
         Len(wire') - Cardinality(ToSet(wire') \ got) - dups'
           <= Len(wire) - Cardinality(ToSet(wire) \ got) - dups,
         UNCHANGED <<gen_l3, pkt_queue_index, handed, got, eld, lat_test, previous_packet, reported>>
  PROVE  IdsInv'
  <1>1. /\ GlTypeOK /\ EntriesInv /\ DupsInv /\ CountedLost /\ ReportedLost
    BY DEF IdsInv
  <1>2. GlTypeOK'
    BY <1>1 DEF GlTypeOK
  <1>3. EntriesInv' /\ CountedLost' /\ ReportedLost'
    BY <1>1 DEF EntriesInv, Latest, CountedLost, ReportedLost
  <1>4. DupsInv'
    <2>1. IsFiniteSet(handed)
      BY <1>1, FS_Interval, GenLatAssumption DEF GlTypeOK
    <2>2. ToSet(wire) \subseteq handed /\ ToSet(wire') \subseteq handed /\ Len(wire) \in Nat /\ Len(wire') \in Nat
      BY <1>1 DEF GlTypeOK, ToSet
    <2>3. Cardinality(ToSet(wire) \ got) \in Nat /\ Cardinality(ToSet(wire') \ got) \in Nat
      BY <2>1, <2>2, FS_Subset, FS_CardinalityType
    <2> DEFINE a == Cardinality(ToSet(wire) \ got)
               b == Cardinality(ToSet(wire') \ got)
               l == Len(wire)
               k == Len(wire')
               c == lat_test.duplicate
               e == dups'
    <2>4. k - b - e <= l - a - dups /\ l + c <= dups + a /\ c \in Nat /\ dups \in Nat /\ e \in Nat
      BY <1>1 DEF DupsInv, GlTypeOK
    <2>5. a \in Nat /\ b \in Nat /\ l \in Nat /\ k \in Nat
      BY <2>2, <2>3
    <2> HIDE DEF a, b, l, k, c, e
    <2>6. k + c <= e + b
      BY ONLY <2>4, <2>5
    <2> QED BY <2>6 DEF DupsInv, k, b, c, e
  <1> QED BY <1>2, <1>3, <1>4 DEF IdsInv

\* Fewer packets of a finite set.
LEMMA OneFewer ==
  ASSUME NEW A, NEW B, NEW x, IsFiniteSet(A), B \subseteq A, A \ {x} \subseteq B
  PROVE  /\ Cardinality(A) \in Nat /\ Cardinality(B) \in Nat
         /\ Cardinality(A) - 1 <= Cardinality(B) /\ Cardinality(B) <= Cardinality(A)
         /\ x \in A /\ x \notin B => Cardinality(B) = Cardinality(A) - 1
  <1>1. IsFiniteSet(B) /\ Cardinality(A) \in Nat /\ Cardinality(B) \in Nat
    BY FS_Subset, FS_CardinalityType
  <1>2. CASE x \in A /\ x \notin B
    <2>1. A = B \cup {x}
      BY <1>2
    <2>2. Cardinality(B \cup {x}) = Cardinality(B) + 1
      BY <1>1, <1>2, FS_AddElement
    <2> QED BY <1>1, <2>1, <2>2
  <1>3. CASE ~ (x \in A /\ x \notin B)
    <2>1. A = B
      BY <1>3
    <2> QED BY <1>1, <1>3, <2>1
  <1> QED BY <1>2, <1>3

LEMMA LoseStep ==
  ASSUME ~ gen_l3, IdsInv, WireLoses
  PROVE  IdsInv'
  <1>1. wire # <<>> /\ wire' = Tail(wire)
        /\ UNCHANGED <<gen_l3, pkt_queue_index, handed, dups, got, eld, lat_test, previous_packet, reported>>
    BY DEF WireLoses
  <1>2. wire \in Seq(handed) /\ handed = 0 .. (pkt_queue_index - 1) /\ pkt_queue_index \in Nat /\ dups \in Nat
    BY GenLatAssumption DEF IdsInv, GlTypeOK
  <1>3. Len(wire) \in Nat /\ 1 \in 1 .. Len(wire)
    BY <1>1, <1>2
  <1> DEFINE r == SubSeq(wire, 1, 1 - 1) \o SubSeq(wire, 1 + 1, Len(wire))
  <1>4. r = Tail(wire)
    <2>1. SubSeq(wire, 1, 1 - 1) = <<>>
      BY <1>2
    <2>2. SubSeq(wire, 1 + 1, Len(wire)) = Tail(wire) /\ Tail(wire) \in Seq(handed)
      BY <1>1, <1>2
    <2> QED BY <2>1, <2>2, ConcatEmptySeq
  <1>5. r \in Seq(handed) /\ Len(r) = Len(wire) - 1
        /\ ToSet(r) \subseteq ToSet(wire) /\ ToSet(wire) \ {wire[1]} \subseteq ToSet(r)
    BY <1>2, <1>3, RemovedAt
  <1> HIDE DEF r
  <1>6. wire' = r
    BY <1>1, <1>4
  <1> DEFINE A == ToSet(wire) \ got
             B == ToSet(wire') \ got
  <1>7. IsFiniteSet(A)
    <2>1. IsFiniteSet(handed)
      BY <1>2, FS_Interval
    <2>2. A \subseteq handed
      BY <1>2 DEF ToSet
    <2> QED BY <2>1, <2>2, FS_Subset
  <1>8. B \subseteq A /\ A \ {wire[1]} \subseteq B
    BY <1>5, <1>6
  <1> HIDE DEF A, B
  <1>9. Cardinality(A) \in Nat /\ Cardinality(B) \in Nat /\ Cardinality(A) - 1 <= Cardinality(B)
    BY <1>7, <1>8, OneFewer
  <1>10. Len(wire') - Cardinality(B) - dups' <= Len(wire) - Cardinality(A) - dups
    BY <1>1, <1>2, <1>3, <1>5, <1>6, <1>9
  <1> QED BY <1>1, <1>2, <1>5, <1>6, <1>10, WireStep DEF A, B

LEMMA DuplicateStep ==
  ASSUME ~ gen_l3, IdsInv, WireDuplicates
  PROVE  IdsInv'
  <1>1. wire # <<>> /\ wire' = <<Head(wire)>> \o wire /\ dups' = dups + 1
        /\ UNCHANGED <<gen_l3, pkt_queue_index, handed, got, eld, lat_test, previous_packet, reported>>
    BY DEF WireDuplicates
  <1>2. wire \in Seq(handed) /\ handed = 0 .. (pkt_queue_index - 1) /\ pkt_queue_index \in Nat /\ dups \in Nat
    BY GenLatAssumption DEF IdsInv, GlTypeOK
  <1>3. Len(wire) \in Nat /\ Head(wire) \in handed /\ Head(wire) \in ToSet(wire)
    BY <1>1, <1>2 DEF ToSet
  <1> DEFINE h == <<Head(wire)>>
  <1>4. h \in Seq(handed) /\ Len(h) = 1 /\ ToSet(h) = {Head(wire)}
    BY <1>3 DEF ToSet
  <1> HIDE DEF h
  <1>5. h \o wire \in Seq(handed) /\ Len(h \o wire) = Len(h) + Len(wire) /\ ToSet(h \o wire) = ToSet(h) \cup ToSet(wire)
    <2>1. h \in Seq(handed) /\ wire \in Seq(handed)
      BY <1>2, <1>4
    <2> QED BY ONLY <2>1, JoinedIs
  <1>6. wire' = h \o wire
    BY <1>1 DEF h
  <1>7. wire' \in Seq(handed) /\ Len(wire') = Len(wire) + 1 /\ ToSet(wire') = ToSet(wire)
    <2>1. ToSet(h) \cup ToSet(wire) = ToSet(wire)
      BY <1>3, <1>4
    <2>2. Len(h) + Len(wire) = Len(wire) + 1
      BY <1>3, <1>4
    <2> QED BY <1>5, <1>6, <2>1, <2>2
  <1>8. Cardinality(ToSet(wire) \ got) \in Nat
    <2>1. IsFiniteSet(handed)
      BY <1>2, FS_Interval
    <2>2. ToSet(wire) \ got \subseteq handed
      BY <1>2 DEF ToSet
    <2> QED BY <2>1, <2>2, FS_Subset, FS_CardinalityType
  <1>9. Len(wire') - Cardinality(ToSet(wire') \ got) - dups' <= Len(wire) - Cardinality(ToSet(wire) \ got) - dups
    <2> DEFINE c == Cardinality(ToSet(wire) \ got)
    <2>1. c \in Nat /\ Cardinality(ToSet(wire') \ got) = c
      BY <1>7, <1>8
    <2> HIDE DEF c
    <2>2. (Len(wire) + 1) - c - (dups + 1) <= Len(wire) - c - dups
      BY <1>2, <1>3, <2>1
    <2> QED BY <1>1, <1>7, <2>1, <2>2 DEF c
  <1>10. dups' \in Nat
    BY <1>1, <1>2
  <1> QED BY <1>1, <1>7, <1>9, <1>10, WireStep

\* A packet is received: where its place stands, and what is counted for it.
LEMMA ReceiveOne ==
  ASSUME GlTypeOK, EntriesInv, reported = -1, NEW id \in handed, \A x \in got : x - id < QueueSlots,
         NEW s, s = Slot(id), NEW old, old = eld.entries[s]
  PROVE  /\ s \in 0 .. (QueueSlots - 1) /\ old \in -1 .. (QueueIds - 1) /\ id \in Nat
         /\ Queue(id) \in 0 .. (QueueIds - 1) /\ old <= Queue(id)
         /\ old = Queue(id) <=> id \in got
         /\ \A x \in got : x \in Nat /\ (Slot(x) = s => Queue(x) <= old)
         /\ old # -1 => \E x \in got : Slot(x) = s /\ Queue(x) = old
  <1>1. id \in Nat /\ id < MaxIndex /\ got \subseteq Nat
    BY GenLatAssumption DEF GlTypeOK
  <1>2. s \in 0 .. (QueueSlots - 1)
    BY <1>1, PlaceOf
  <1>3. old \in -1 .. (QueueIds - 1)
    BY <1>2 DEF GlTypeOK
  <1>4. Queue(id) \in 0 .. (QueueIds - 1)
    BY <1>1, QueueFits
  <1>5. Latest(s)
    BY <1>2 DEF EntriesInv
  <1>6. \A x \in got : Slot(x) = s => Queue(x) <= old
    BY <1>5 DEF Latest
  <1>7. old # -1 => \E x \in got : Slot(x) = s /\ Queue(x) = old
    BY <1>5 DEF Latest
  <1>8. old <= Queue(id)
    <2>1. CASE old = -1
      BY <1>4, <2>1
    <2>2. CASE old # -1
      <3>1. PICK x \in got : Slot(x) = s /\ Queue(x) = old
        BY <1>7, <2>2
      <3>2. x \in Nat /\ x - id < QueueSlots /\ Slot(x) >= Slot(id)
        <4>1. Slot(x) = Slot(id) /\ Slot(id) \in Int
          BY <1>2, <3>1
        <4> QED BY <1>1, <4>1
      <3> QED BY <1>1, <3>1, <3>2, IdOrder
    <2> QED BY <2>1, <2>2
  <1>9. ASSUME old = Queue(id) PROVE id \in got
    <2>1. PICK x \in got : Slot(x) = s /\ Queue(x) = old
      BY <1>4, <1>7, <1>9
    <2>2. x = id
      BY <1>1, <1>9, <2>1, IdOrder
    <2> QED BY <2>2
  <1>10. ASSUME id \in got PROVE old = Queue(id)
    <2>1. Queue(id) <= old
      BY <1>6, <1>10
    <2> QED BY <1>3, <1>4, <1>8, <2>1
  <1> QED BY <1>1, <1>2, <1>3, <1>4, <1>6, <1>7, <1>8, <1>9, <1>10

Overtaken(h, g) == {id \in h \ g : \E x \in g : x > id /\ Slot(x) = Slot(id)}
LEMMA ReceiveStep ==
  ASSUME ~ gen_l3, IdsInv, NEW i \in 1 .. Len(wire), Receive_lat(i)
  PROVE  IdsInv'
  <1> DEFINE id == wire[i]
             s == Slot(id)
             old == eld.entries[s]
             r == SubSeq(wire, 1, i - 1) \o SubSeq(wire, i + 1, Len(wire))
  <1>1. /\ GlTypeOK /\ EntriesInv /\ DupsInv /\ CountedLost /\ ReportedLost
    BY DEF IdsInv
  <1>2. /\ reported = -1 /\ \A x \in got : x - id < QueueSlots
        /\ wire' = r /\ got' = got \cup {id}
        /\ lat_test'.lost = lat_test.lost + Missed(Queue(id), old)
        /\ lat_test'.duplicate = lat_test.duplicate + (IF old = Queue(id) THEN 1 ELSE 0)
        /\ eld'.entries = [eld.entries EXCEPT ![s] = Queue(id)] /\ eld'.last_pkt_idx = id
        /\ UNCHANGED <<gen_l3, pkt_queue_index, handed, dups, reported>>
    BY DEF Receive_lat
  <1>3. wire \in Seq(handed) /\ handed = 0 .. (pkt_queue_index - 1) /\ pkt_queue_index \in Nat /\ got \subseteq handed
        /\ dups \in Nat /\ lat_test.lost \in Int /\ lat_test.duplicate \in Nat
        /\ eld.entries \in [0 .. (QueueSlots - 1) -> -1 .. (QueueIds - 1)]
    BY SMTT(60), <1>1, GenLatAssumption DEF GlTypeOK
  <1>4. id \in handed
    BY <1>3
  <1>5. r \in Seq(handed) /\ Len(r) = Len(wire) - 1 /\ Len(wire) \in Nat
        /\ ToSet(r) \subseteq ToSet(wire) /\ ToSet(wire) \ {id} \subseteq ToSet(r)
    <2>1. r \in Seq(handed) /\ Len(r) = Len(wire) - 1
          /\ ToSet(r) \subseteq ToSet(wire) /\ ToSet(wire) \ {wire[i]} \subseteq ToSet(r)
      BY <1>3, RemovedAt
    <2>2. Len(wire) \in Nat
      BY <1>3
    <2>3. wire[i] = id
      OBVIOUS
    <2> HIDE DEF id, r
    <2> QED BY <2>1, <2>2, <2>3
  <1>6. id \in ToSet(wire)
    BY <1>3 DEF ToSet
  <1> HIDE DEF id, r, s
  <1>7. /\ s \in 0 .. (QueueSlots - 1) /\ old \in -1 .. (QueueIds - 1) /\ id \in Nat
        /\ Queue(id) \in 0 .. (QueueIds - 1) /\ old <= Queue(id)
        /\ old = Queue(id) <=> id \in got
        /\ \A x \in got : x \in Nat /\ (Slot(x) = s => Queue(x) <= old)
        /\ old # -1 => \E x \in got : Slot(x) = s /\ Queue(x) = old
    <2>1. s = Slot(id)
      BY DEF s
    <2> QED BY <1>1, <1>2, <1>4, <2>1, ReceiveOne
  <1> HIDE DEF old
  <1>8. GlTypeOK'
    <2>1. eld'.entries \in [0 .. (QueueSlots - 1) -> -1 .. (QueueIds - 1)]
      BY SMTT(60), <1>2, <1>3, <1>7
    <2>2. Missed(Queue(id), old) \in Int
      BY <1>7, GenLatAssumption DEF Missed
    <2>3. lat_test'.lost \in Int /\ lat_test'.duplicate \in Nat
      BY <1>2, <1>3, <2>2
    <2>4. got' \in SUBSET handed /\ wire' \in Seq(handed)
      BY <1>2, <1>3, <1>4, <1>5
    <2> QED BY <1>1, <1>2, <1>7, <2>1, <2>3, <2>4 DEF GlTypeOK
  <1>9. EntriesInv'
    <2>1. ASSUME NEW k \in 0 .. (QueueSlots - 1) PROVE Latest(k)'
      <3>1. CASE k = s
        <4>1. eld'.entries[k] = Queue(id)
          BY <1>2, <1>3, <1>7, <3>1
        <4>2. \A x \in got : Slot(x) = s => Queue(x) <= Queue(id)
          BY <1>2, <1>7, IdOrder DEF s
        <4>3. id \in got' /\ Slot(id) = k
          BY <1>2, <3>1 DEF s
        <4>4. \A x \in got' : Slot(x) = k => Queue(x) <= Queue(id)
          BY <1>2, <1>7, <3>1, <4>2
        <4> QED BY <4>1, <4>3, <4>4 DEF Latest
      <3>2. CASE k # s
        <4>1. eld'.entries[k] = eld.entries[k] /\ Latest(k)
          BY <1>1, <1>2, <1>3, <3>2 DEF EntriesInv
        <4>2. \A x \in got' : Slot(x) = k => x \in got
          BY <1>2, <3>2 DEF s
        <4> QED BY <1>2, <4>1, <4>2 DEF Latest
      <3> QED BY <3>1, <3>2
    <2>2. \A x \in got' : x - eld'.last_pkt_idx < QueueSlots
      BY <1>2, <1>7, GenLatAssumption
    <2> QED BY <1>2, <2>1, <2>2 DEF EntriesInv
  <1>10. DupsInv'
    <2> DEFINE A == ToSet(wire) \ got
               B == ToSet(r) \ (got \cup {id})
               l == Len(wire)
               d == lat_test.duplicate
    <2>1. IsFiniteSet(A) /\ l \in Nat /\ d \in Nat /\ dups \in Nat
      <3>1. IsFiniteSet(handed)
        BY <1>3, FS_Interval
      <3>2. A \subseteq handed
        BY <1>3 DEF ToSet
      <3> QED BY <1>3, <1>5, <3>1, <3>2, FS_Subset
    <2>2. B \subseteq A /\ A \ {id} \subseteq B /\ id \notin B
      BY <1>5
    <2>3. l + d <= dups + Cardinality(A)
      BY <1>1 DEF DupsInv
    <2>4. id \in A <=> id \notin got
      BY <1>6
    <2> HIDE DEF A, B, l, d
    <2>5. /\ Cardinality(A) \in Nat /\ Cardinality(B) \in Nat
          /\ Cardinality(A) - 1 <= Cardinality(B) /\ Cardinality(B) <= Cardinality(A)
          /\ id \in A /\ id \notin B => Cardinality(B) = Cardinality(A) - 1
      BY <2>1, <2>2, OneFewer
    <2> DEFINE more == IF old = Queue(id) THEN 1 ELSE 0
    <2>6. (l - 1) + (d + more) <= dups + Cardinality(B)
      <3>1. CASE id \in got
        <4>1. A = B
          BY <2>2, <2>4, <3>1
        <4>2. more = 1
          BY <1>7, <3>1
        <4> QED BY <2>1, <2>3, <2>5, <4>1, <4>2
      <3>2. CASE id \notin got
        <4>1. more = 0
          BY <1>7, <3>2
        <4>2. Cardinality(B) = Cardinality(A) - 1
          BY <2>2, <2>4, <2>5, <3>2
        <4> HIDE DEF more
        <4> QED BY <2>1, <2>3, <2>5, <4>1, <4>2
      <3> QED BY <3>1, <3>2
    <2>7. Len(wire') = l - 1 /\ ToSet(wire') \ got' = B /\ lat_test'.duplicate = d + more
      BY <1>2, <1>5 DEF l, d, B
    <2> QED BY <1>2, <2>6, <2>7 DEF DupsInv
  <1>11. CountedLost'
    <2> DEFINE L == Overtaken(handed, got)
               N == AtPlace(s, old + 1, Queue(id))
    <2>1. lat_test.lost = Cardinality(L)
      BY <1>1, <1>2 DEF CountedLost, Overtaken
    <2>2. IsFiniteSet(L) /\ Cardinality(L) \in Nat
      <3>1. IsFiniteSet(handed)
        BY <1>3, FS_Interval
      <3>2. L \subseteq handed
        BY DEF Overtaken
      <3> QED BY <3>1, <3>2, FS_Subset, FS_CardinalityType
    <2>3. CASE id \in got
      <3>1. got' = got /\ Missed(Queue(id), old) = 0
        BY <1>2, <1>7, <2>3 DEF Missed
      <3>2. lat_test'.lost = lat_test.lost
        <4>1. lat_test'.lost = lat_test.lost + 0
          BY <1>2, <3>1
        <4> QED BY <1>3, <4>1
      <3>3. lat_test'.lost = Cardinality(Overtaken(handed', got'))
        BY <1>2, <2>1, <3>1, <3>2
      <3> QED BY <3>3 DEF CountedLost, Overtaken
    <2>4. CASE id \notin got
      <3>1. old < Queue(id) /\ old + 1 \in Nat
        BY <1>7, <2>4
      <3>2. Missed(Queue(id), old) = Queue(id) - (old + 1)
        <4> DEFINE m == Queue(id) - old - 1
                   w == QueueIds
        <4>1. w \in Nat \ {0} /\ m \in 0 .. w - 1
          BY SMTT(60), <1>7, <3>1, GenLatAssumption
        <4>2. Missed(Queue(id), old) = m % w /\ m = Queue(id) - (old + 1)
          BY <1>7, <3>1 DEF Missed
        <4> HIDE DEF m, w
        <4>3. m % w = m
          BY <4>1, RemainderSmall
        <4> QED BY <4>2, <4>3
      <3>3. IsFiniteSet(N) /\ Cardinality(N) = Queue(id) - (old + 1)
        BY <1>7, <3>1, AtPlaceCount
      <3>4. ASSUME NEW y \in L PROVE y \in Overtaken(handed, got')
        <4>1. y \in handed \ got /\ \E x \in got : x > y /\ Slot(x) = Slot(y)
          BY DEF Overtaken
        <4>2. PICK x \in got : x > y /\ Slot(x) = Slot(y)
          BY <4>1
        <4>3. y # id
          <5> SUFFICES ASSUME y = id PROVE FALSE
            OBVIOUS
          <5>1. Slot(x) = s /\ x \in Nat /\ Queue(x) <= old
            BY <1>7, <4>2 DEF s
          <5>2. Queue(id) < Queue(x)
            <6>1. Slot(id) >= Slot(x) /\ id < x
              <7>1. Slot(id) \in Int
                BY <1>7 DEF s
              <7> QED BY <1>7, <4>2, <5>1, <7>1
            <6> QED BY <1>7, <5>1, <6>1, IdOrder
          <5>3. Queue(x) \in Nat
            BY <5>1, PlaceOf
          <5> QED BY <1>7, <3>1, <5>1, <5>2, <5>3
        <4> QED BY <1>2, <4>1, <4>2, <4>3 DEF Overtaken
      <3>5. ASSUME NEW y \in N PROVE y \in Overtaken(handed, got')
        <4>1. y \in Nat /\ Slot(y) = s /\ old + 1 <= Queue(y) /\ Queue(y) < Queue(id)
          BY DEF AtPlace
        <4>2. y < id
          <5>1. Slot(y) >= Slot(id)
            BY <1>7, <4>1 DEF s
          <5> QED BY <1>7, <4>1, <5>1, IdOrder
        <4>3. y \in handed
          BY <1>3, <1>4, <4>1, <4>2
        <4>4. y \notin got
          <5>1. Queue(y) \in Nat
            BY <4>1, PlaceOf
          <5> QED BY <1>7, <4>1, <5>1
        <4>5. y # id /\ id > y /\ Slot(id) = Slot(y) /\ id \in got'
          BY <1>2, <1>7, <4>1, <4>2 DEF s
        <4> QED BY <1>2, <4>3, <4>4, <4>5 DEF Overtaken
      <3>6. ASSUME NEW y \in Overtaken(handed, got'), y \notin L PROVE y \in N
        <4>1. y \in handed \ got' /\ \E x \in got' : x > y /\ Slot(x) = Slot(y)
          BY DEF Overtaken
        <4>2. id > y /\ Slot(id) = Slot(y)
          BY <1>2, <3>6, <4>1 DEF Overtaken
        <4>3. y \in Nat /\ Slot(y) = s /\ y \notin got
          BY <1>2, <1>3, <4>1, <4>2 DEF s
        <4>4. Queue(y) \in Nat /\ Slot(y) \in Nat
          BY <4>3, PlaceOf
        <4>5. Queue(y) < Queue(id)
          BY <1>7, <4>2, <4>3, <4>4, IdOrder
        <4>6. old + 1 <= Queue(y)
          <5> SUFFICES ASSUME Queue(y) <= old PROVE FALSE
            BY <1>7, <4>4
          <5>1. old # -1
            BY <4>4
          <5>2. PICK x \in got : Slot(x) = s /\ Queue(x) = old
            BY <1>7, <5>1
          <5>3. x \in Nat /\ x # y
            BY <1>7, <4>3, <5>2
          <5>4. Queue(x) # Queue(y)
            BY <4>3, <5>2, <5>3, IdOrder
          <5>5. Queue(y) < Queue(x) /\ Slot(y) >= Slot(x)
            BY <1>7, <4>3, <4>4, <5>2, <5>4
          <5>6. x > y
            BY <4>3, <5>3, <5>5, IdOrder
          <5> QED BY <1>2, <3>6, <4>1, <4>3, <5>2, <5>6 DEF Overtaken
        <4> QED BY <4>3, <4>5, <4>6 DEF AtPlace
      <3>7. L \cap N = {}
        <4> SUFFICES ASSUME NEW y \in L, y \in N PROVE FALSE
          OBVIOUS
        <4>1. y \in Nat /\ Slot(y) = s /\ old + 1 <= Queue(y) /\ Queue(y) \in Nat
          BY PlaceOf DEF AtPlace
        <4>2. PICK x \in got : x > y /\ Slot(x) = Slot(y)
          BY DEF Overtaken
        <4>3. x \in Nat /\ Queue(x) <= old /\ Slot(y) >= Slot(x) /\ Queue(x) \in Nat
          <5>1. x \in Nat /\ Slot(x) = s /\ Queue(x) <= old
            BY <1>7, <4>1, <4>2
          <5>2. Slot(y) >= Slot(x)
            BY <1>7, <4>1, <5>1
          <5>3. Queue(x) \in Nat
            BY <5>1, PlaceOf
          <5> QED BY <5>1, <5>2, <5>3
        <4>4. Queue(y) < Queue(x)
          BY <4>1, <4>2, <4>3, IdOrder
        <4> QED BY <1>7, <4>1, <4>3, <4>4
      <3>8. Overtaken(handed, got') = L \cup N
        BY <3>4, <3>5, <3>6
      <3> HIDE DEF L, N
      <3>9. Cardinality(L \cup N) = Cardinality(L) + Cardinality(N) - Cardinality(L \cap N)
        BY <2>2, <3>3, FS_Union
      <3>10. Cardinality(L \cap N) = 0
        BY <3>7, FS_EmptySet
      <3>11. lat_test'.lost = Cardinality(Overtaken(handed, got'))
        <4>1. Cardinality(N) \in Int
          BY <1>7, <3>3
        <4>2. Cardinality(L \cup N) = Cardinality(L) + Cardinality(N)
          BY <2>2, <3>9, <3>10, <4>1
        <4> QED BY <1>2, <2>1, <3>2, <3>3, <3>8, <4>2
      <3> QED BY <1>2, <3>11 DEF CountedLost, Overtaken
    <2> QED BY <2>3, <2>4
  <1>12. ReportedLost'
    BY <1>2 DEF ReportedLost
  <1> QED BY <1>8, <1>9, <1>10, <1>11, <1>12 DEF IdsInv

\* What count_remaining_loss adds up, place by place.
LossBy(f) ==
  /\ f \in [0 .. QueueSlots -> Nat] /\ f[0] = 0
  /\ \A k \in 0 .. (QueueSlots - 1) : f[k + 1] = f[k] + Remaining_at(k)
LossFrom(g) == g = [i \in 0 .. QueueSlots |-> IF i = 0 THEN 0 ELSE g[i - 1] + Remaining_at(i - 1)]
LEMMA LossCounted ==
  ASSUME \A i \in 0 .. (QueueSlots - 1) : Remaining_at(i) \in Nat
  PROVE  \E f : LossBy(f) /\ count_remaining_loss = f[QueueSlots]
  <1> DEFINE n == QueueSlots
             base == 0
             S == Nat
             step == [k \in 1 .. n |-> [s \in S |-> s + Remaining_at(k - 1)]]
  <1>0. n \in Nat
    BY GenLatAssumption
  <1> HIDE DEF n
  <1>1. \A k \in 1 .. n : \A s \in S : step[k][s] = s + Remaining_at(k - 1) /\ step[k][s] \in S
    <2> SUFFICES ASSUME NEW k \in 1 .. n, NEW s \in S
                 PROVE  step[k][s] = s + Remaining_at(k - 1) /\ step[k][s] \in S
      OBVIOUS
    <2>1. k - 1 \in 0 .. (QueueSlots - 1)
      BY <1>0 DEF n
    <2>2. Remaining_at(k - 1) \in Nat
      BY <2>1
    <2> QED BY <2>2
  <1>2. StepsWithin(n, S, base, step)
    <2> HIDE DEF step
    <2> QED BY <1>0, <1>1 DEF StepsWithin
  <1> HIDE DEF step, base, S
  <1>3. \E g \in [0 .. n -> S] : g[0] = base /\ \A k \in 1 .. n : g[k] = step[k][g[k - 1]]
    BY <1>2, StepsExist
  <1>4. PICK g \in [0 .. n -> S] : g[0] = base /\ \A k \in 1 .. n : g[k] = step[k][g[k - 1]]
    BY <1>3
  <1>5. ASSUME NEW k \in 0 .. n
        PROVE  g[k] = IF k = 0 THEN base ELSE g[k - 1] + Remaining_at(k - 1)
    <2>1. CASE k # 0
      <3>1. k \in 1 .. n /\ k - 1 \in 0 .. n
        BY <1>0, <2>1
      <3>2. g[k - 1] \in S
        BY <1>4, <3>1
      <3> QED BY <1>1, <1>4, <2>1, <3>1, <3>2
    <2> QED BY <1>4, <2>1
  <1>6. g = [k \in 0 .. n |-> g[k]]
    BY <1>4
  <1>7. LossFrom(g)
    BY <1>5, <1>6, Zenon DEF LossFrom, n, base
  <1> DEFINE f == CHOOSE f : LossFrom(f)
  <1>8. LossFrom(f)
    BY <1>7, Zenon
  <1>9. count_remaining_loss = f[n]
    BY Zenon DEF count_remaining_loss, LossFrom, n
  <1> HIDE DEF f
  <1>10. f[0] = 0 /\ \A k \in 0 .. (n - 1) : f[k + 1] = f[k] + Remaining_at(k)
    <2>1. f = [i \in 0 .. n |-> IF i = 0 THEN 0 ELSE f[i - 1] + Remaining_at(i - 1)]
      BY <1>8, Zenon DEF LossFrom, n
    <2>2. ASSUME NEW k \in 0 .. (n - 1) PROVE f[k + 1] = f[k] + Remaining_at(k)
      <3>1. k + 1 \in 0 .. n /\ k + 1 # 0 /\ (k + 1) - 1 = k
        BY <1>0
      <3> QED BY <2>1, <3>1
    <2>3. f[0] = 0
      BY <1>0, <2>1
    <2> QED BY <2>2, <2>3
  <1> DEFINE T == {k \in 0 .. n : f[k] \in Nat}
  <1>11. ASSUME NEW k \in 0 .. n - 1, k \in T PROVE k + 1 \in T
    <2>1. k + 1 \in 0 .. n /\ f[k] \in Nat /\ k \in 0 .. (n - 1)
      BY <1>0, <1>11
    <2>2. f[k + 1] = f[k] + Remaining_at(k) /\ Remaining_at(k) \in Nat
      BY <1>10, <2>1 DEF n
    <2> QED BY <2>1, <2>2
  <1>12. 0 \in T
    BY <1>0, <1>10
  <1> HIDE DEF T
  <1>13. 0 .. n \subseteq T
    BY <1>0, <1>11, <1>12, ReachesAll
  <1>14. \A k \in 0 .. n : f[k] \in Nat
    BY <1>13 DEF T
  <1>15. f = [k \in 0 .. n |-> f[k]]
    <2>1. f = [i \in 0 .. n |-> IF i = 0 THEN 0 ELSE f[i - 1] + Remaining_at(i - 1)]
      BY <1>8, Zenon DEF LossFrom, n
    <2> QED BY <2>1
  <1>16. f \in [0 .. n -> Nat]
    BY <1>14, <1>15
  <1> QED BY <1>9, <1>10, <1>16 DEF LossBy, n

\* What is counted at a place at the stop is never negative, and if the last id
\* is neither of the last place nor of the last turn, it is the number of ids
\* that are missing before it.
MissingUpto(i) ==
  LET last == eld.last_pkt_idx
  IN IF i > Slot(last) THEN Queue(last) ELSE IF i < Slot(last) THEN Queue(last) + 1 ELSE 0
Miss(i) == AtPlace(i, eld.entries[i] + 1, MissingUpto(i))
LEMMA RemainingNat ==
  ASSUME GlTypeOK, NEW i \in 0 .. (QueueSlots - 1)
  PROVE  Remaining_at(i) \in Nat
  <1> DEFINE w == QueueIds
             e == eld.entries[i]
             q == Queue(eld.last_pkt_idx)
  <1>1. w \in Nat \ {0} /\ e \in Int /\ q \in Int
    <2>1. w \in Nat \ {0}
      BY GenLatAssumption
    <2>2. e \in -1 .. (QueueIds - 1) /\ eld.last_pkt_idx \in Nat
      BY DEF GlTypeOK
    <2>3. q \in Nat
      BY <2>2, PlaceOf
    <2> QED BY <2>1, <2>2, <2>3
  <1> HIDE DEF w, e, q
  <1>2. (q - e) % w \in Nat /\ (q - e - 1) % w \in Nat
    <2>1. q - e \in Int /\ q - e - 1 \in Int
      BY <1>1
    <2>2. (q - e) % w \in 0 .. (w - 1) /\ (q - e - 1) % w \in 0 .. (w - 1)
      BY <1>1, <2>1, Division
    <2> HIDE DEF w
    <2> QED BY <1>1, <2>2
  <1>3. Remaining_loss(q, i, FALSE) \in Nat /\ Remaining_loss(q, i, TRUE) \in Nat
    BY <1>2 DEF Remaining_loss, e, w
  <1> DEFINE a == IF i >= Slot(eld.last_pkt_idx + 1) THEN Remaining_loss(q, i, FALSE) ELSE 0
             b == IF i < Slot(eld.last_pkt_idx) THEN Remaining_loss(q, i, TRUE) ELSE 0
  <1>4. Remaining_at(i) = a + b
    BY DEF Remaining_at, q
  <1>5. a \in Nat /\ b \in Nat
    BY <1>3
  <1> HIDE DEF a, b
  <1> QED BY <1>4, <1>5

\* No id received at a place is later than the last one by a turn.
LEMMA EntryBelow ==
  ASSUME GlTypeOK, EntriesInv, reported = -1, got # {}, NEW i \in 0 .. (QueueSlots - 1)
  PROVE  LET last == eld.last_pkt_idx
         IN /\ last \in got /\ last \in Nat /\ got \subseteq Nat
            /\ Queue(last) \in 0 .. (QueueIds - 1) /\ Slot(last) \in 0 .. (QueueSlots - 1)
            /\ eld.entries[i] \in -1 .. (QueueIds - 1)
            /\ i >= Slot(last) => eld.entries[i] <= Queue(last)
            /\ eld.entries[i] <= Queue(last) + 1
  <1> DEFINE last == eld.last_pkt_idx
             e == eld.entries[i]
  <1>1. last \in got /\ got \subseteq Nat /\ last \in Nat /\ last < MaxIndex /\ e \in -1 .. (QueueIds - 1)
        /\ \A x \in got : x - last < QueueSlots
    <2>1. got \subseteq handed /\ handed = 0 .. (pkt_queue_index - 1) /\ pkt_queue_index \in 0 .. MaxIndex
          /\ e \in -1 .. (QueueIds - 1)
      BY DEF GlTypeOK
    <2>2. last \in got /\ \A x \in got : x - last < QueueSlots
      BY DEF EntriesInv
    <2>3. MaxIndex \in Nat
      BY GenLatAssumption
    <2> HIDE DEF last, e
    <2> QED BY <2>1, <2>2, <2>3
  <1>2. e # -1 => \E x \in got : Slot(x) = i /\ Queue(x) = e
    BY DEF EntriesInv, Latest
  <1> HIDE DEF last, e
  <1>3. Queue(last) \in 0 .. (QueueIds - 1) /\ Slot(last) \in 0 .. (QueueSlots - 1)
    BY <1>1, QueueFits, PlaceOf
  <1>4. (i >= Slot(last) => e <= Queue(last)) /\ e <= Queue(last) + 1
    <2>1. CASE e = -1
      BY <1>3, <2>1
    <2>2. CASE e # -1
      <3>1. PICK x \in got : Slot(x) = i /\ Queue(x) = e
        BY <1>2, <2>2
      <3> QED BY <1>1, <3>1, IdOrder
    <2> QED BY <2>1, <2>2
  <1> QED BY <1>1, <1>3, <1>4 DEF last, e

InOrder ==
  LET last == eld.last_pkt_idx IN Slot(last) # QueueSlots - 1 /\ Queue(last) # QueueIds - 1
LEMMA RemainingIs ==
  ASSUME GlTypeOK, EntriesInv, reported = -1, got # {}, InOrder, NEW i \in 0 .. (QueueSlots - 1)
  PROVE  IsFiniteSet(Miss(i)) /\ Remaining_at(i) = Cardinality(Miss(i))
  <1> DEFINE last == eld.last_pkt_idx
             e == eld.entries[i]
             q == Queue(last)
             t == Slot(last)
             w == QueueIds
  <1>1. /\ last \in Nat /\ q \in 0 .. (w - 1) /\ t \in 0 .. (QueueSlots - 1)
        /\ e \in -1 .. (w - 1) /\ (i >= t => e <= q) /\ e <= q + 1
    BY EntryBelow
  <1>2. t # QueueSlots - 1 /\ q # w - 1 /\ w \in Nat \ {0} /\ QueueSlots \in Nat \ {0}
    BY GenLatAssumption DEF InOrder
  <1>3. Slot(last + 1) = t + 1
    <2>1. t + 1 \in 0 .. (QueueSlots - 1)
      <3> HIDE DEF t
      <3> QED BY <1>1, <1>2
    <2>2. last + 1 = QueueSlots * q + (t + 1)
      <3>1. last = QueueSlots * q + t
        BY <1>1, PlaceOf
      <3> DEFINE p == QueueSlots * q
      <3>2. p \in Int
        BY <1>1, <1>2
      <3> HIDE DEF p, t, last
      <3>3. last + 1 = p + (t + 1)
        BY <1>1, <3>1, <3>2 DEF p
      <3> QED BY <3>3 DEF p
    <2>3. q \in Nat
      <3> HIDE DEF q
      <3> QED BY <1>1, <1>2
    <2> HIDE DEF q, t, last
    <2> QED BY <2>1, <2>2, <2>3, IdAt
  <1>4. Remaining_at(i) = (IF i >= t + 1 THEN IF e = q THEN 0 ELSE (q - e - 1) % w ELSE 0)
                          + (IF i < t THEN IF e = q + 1 THEN 0 ELSE (q - e) % w ELSE 0)
    BY <1>3 DEF Remaining_at, Remaining_loss
  <1>5. MissingUpto(i) = IF i > t THEN q ELSE IF i < t THEN q + 1 ELSE 0
    BY DEF MissingUpto
  <1>6. Miss(i) = AtPlace(i, e + 1, MissingUpto(i))
    BY DEF Miss
  <1> HIDE DEF last, e, q, t, w
  <1>7. e + 1 \in Nat /\ MissingUpto(i) \in Nat /\ i \in Int
    BY <1>1, <1>5
  <1>8. IsFiniteSet(Miss(i)) /\ Cardinality(Miss(i)) = IF e + 1 <= MissingUpto(i) THEN MissingUpto(i) - (e + 1) ELSE 0
    BY <1>6, <1>7, AtPlaceCount
  <1>9. CASE i > t
    <2>1. e <= q /\ i >= t + 1 /\ ~ (i < t)
      BY <1>1, <1>7, <1>9
    <2>2. Cardinality(Miss(i)) = IF e = q THEN 0 ELSE q - e - 1
      BY <1>1, <1>5, <1>8, <1>9, <2>1
    <2>3. e # q => (q - e - 1) % w = q - e - 1
      <3> SUFFICES ASSUME e # q PROVE (q - e - 1) % w = q - e - 1
        OBVIOUS
      <3> DEFINE m == q - e - 1
      <3>1. m \in 0 .. (w - 1)
        BY <1>1, <1>2, <2>1
      <3> HIDE DEF m
      <3>2. m % w = m
        BY <1>2, <3>1, RemainderSmall
      <3> QED BY <3>2 DEF m
    <2>4. Remaining_at(i) = (IF e = q THEN 0 ELSE q - e - 1) + 0
      BY <1>4, <2>1, <2>3
    <2>5. Remaining_at(i) = IF e = q THEN 0 ELSE q - e - 1
      BY <1>1, <2>4
    <2> QED BY <1>8, <2>2, <2>5
  <1>10. CASE i < t
    <2>1. ~ (i >= t + 1)
      BY <1>1, <1>7, <1>10
    <2>2. Cardinality(Miss(i)) = IF e = q + 1 THEN 0 ELSE q - e
      BY <1>1, <1>5, <1>7, <1>8, <1>10
    <2>3. e # q + 1 => (q - e) % w = q - e
      <3> SUFFICES ASSUME e # q + 1 PROVE (q - e) % w = q - e
        OBVIOUS
      <3> DEFINE m == q - e
      <3>1. m \in 0 .. (w - 1)
        BY <1>1, <1>2
      <3> HIDE DEF m
      <3>2. m % w = m
        BY <1>2, <3>1, RemainderSmall
      <3> QED BY <3>2 DEF m
    <2>4. Remaining_at(i) = 0 + (IF e = q + 1 THEN 0 ELSE q - e)
      BY <1>4, <1>10, <2>1, <2>3
    <2>5. Remaining_at(i) = IF e = q + 1 THEN 0 ELSE q - e
      BY <1>1, <2>4
    <2> QED BY <1>8, <2>2, <2>5
  <1>11. CASE i = t
    <2>1. ~ (i >= t + 1) /\ ~ (i < t) /\ MissingUpto(i) = 0
      BY <1>1, <1>5, <1>7, <1>11
    <2>2. Cardinality(Miss(i)) = 0
      BY <1>7, <1>8, <2>1
    <2> QED BY <1>4, <1>8, <2>1, <2>2
  <1> QED BY <1>1, <1>7, <1>9, <1>10, <1>11

\* The missing ids of the places before the k-th are those the sum counts.
MissBelow(k) == {id \in Nat : Slot(id) < k /\ id \in Miss(Slot(id))}
LEMMA MissCounted ==
  ASSUME GlTypeOK, EntriesInv, reported = -1, got # {}, InOrder
  PROVE  /\ IsFiniteSet(MissBelow(QueueSlots))
         /\ count_remaining_loss = Cardinality(MissBelow(QueueSlots))
  <1> DEFINE n == QueueSlots
  <1>1. n \in Nat
    BY GenLatAssumption
  <1>2. \A i \in 0 .. (n - 1) : Remaining_at(i) \in Nat
    BY RemainingNat
  <1>3. PICK f : LossBy(f) /\ count_remaining_loss = f[n]
    BY <1>2, LossCounted
  <1>4. f \in [0 .. n -> Nat] /\ f[0] = 0 /\ \A k \in 0 .. (n - 1) : f[k + 1] = f[k] + Remaining_at(k)
    BY <1>3 DEF LossBy
  <1>5. \A i \in 0 .. (n - 1) : IsFiniteSet(Miss(i)) /\ Remaining_at(i) = Cardinality(Miss(i))
    BY RemainingIs
  <1> HIDE DEF n
  <1> DEFINE T == {k \in 0 .. n : IsFiniteSet(MissBelow(k)) /\ f[k] = Cardinality(MissBelow(k))}
  <1>6. 0 \in T
    <2>1. MissBelow(0) = {}
      <3> SUFFICES ASSUME NEW id \in Nat, Slot(id) < 0 PROVE FALSE
        BY DEF MissBelow
      <3>1. Slot(id) \in 0 .. (QueueSlots - 1)
        BY PlaceOf
      <3> QED BY <3>1
    <2>2. IsFiniteSet(MissBelow(0)) /\ Cardinality(MissBelow(0)) = 0
      BY <2>1, FS_EmptySet
    <2>3. 0 \in 0 .. n
      BY <1>1
    <2> QED BY <1>4, <2>2, <2>3
  <1>7. ASSUME NEW k \in 0 .. n - 1, k \in T PROVE k + 1 \in T
    <2> DEFINE A == MissBelow(k)
               B == Miss(k)
    <2>1. k + 1 \in 0 .. n /\ k \in Int /\ k \in 0 .. (n - 1) /\ k \in 0 .. n
      BY <1>1
    <2>2. IsFiniteSet(A) /\ f[k] = Cardinality(A) /\ IsFiniteSet(B) /\ f[k + 1] = f[k] + Cardinality(B)
      BY <1>4, <1>5, <1>7, <2>1
    <2>3. \A id \in B : id \in Nat /\ Slot(id) = k
      BY DEF Miss, AtPlace
    <2>4. MissBelow(k + 1) = A \cup B
      <3>1. ASSUME NEW id \in Nat
            PROVE  Slot(id) < k + 1 /\ id \in Miss(Slot(id))
                     <=> (Slot(id) < k /\ id \in Miss(Slot(id))) \/ id \in B
        <4>1. Slot(id) \in Int
          BY PlaceOf
        <4>2. Slot(id) < k + 1 <=> Slot(id) < k \/ Slot(id) = k
          BY <2>1, <4>1
        <4>3. id \in B => Slot(id) = k
          BY <2>3
        <4> QED BY <4>2, <4>3
      <3> HIDE DEF B
      <3> QED BY <2>3, <3>1 DEF MissBelow
    <2>5. A \cap B = {}
      BY <2>1, <2>3 DEF MissBelow
    <2> HIDE DEF A, B
    <2>6. IsFiniteSet(A \cup B)
          /\ Cardinality(A \cup B) = Cardinality(A) + Cardinality(B) - Cardinality(A \cap B)
      BY <2>2, FS_Union
    <2>7. Cardinality(A) \in Nat /\ Cardinality(B) \in Nat /\ Cardinality(A \cap B) = 0
      BY <2>2, <2>5, FS_CardinalityType, FS_EmptySet
    <2>8. f[k + 1] = Cardinality(A \cup B)
      BY <2>2, <2>6, <2>7
    <2> QED BY <2>1, <2>4, <2>6, <2>8
  <1> HIDE DEF T
  <1>8. n \in T
    <2>1. 0 .. n \subseteq T
      BY <1>1, <1>6, <1>7, ReachesAll
    <2> QED BY <1>1, <2>1
  <1> QED BY <1>3, <1>8 DEF T, n

\* Those and the overtaken ones are all that are missing before the last id.
LEMMA AllMissing ==
  ASSUME GlTypeOK, EntriesInv, reported = -1, got # {}
  PROVE  LET last == eld.last_pkt_idx
         IN /\ Overtaken(handed, got) \cap MissBelow(QueueSlots) = {}
            /\ {id \in handed \ got : id < last} = Overtaken(handed, got) \cup MissBelow(QueueSlots)
  <1> DEFINE last == eld.last_pkt_idx
             e(i) == eld.entries[i]
             I == 0 .. (QueueSlots - 1)
  <1>1. handed = 0 .. (pkt_queue_index - 1) /\ pkt_queue_index \in Nat /\ got \subseteq handed
    BY GenLatAssumption DEF GlTypeOK
  <1>2. last \in got /\ last \in Nat
    <2>1. last \in got
      BY DEF EntriesInv
    <2> HIDE DEF last
    <2> QED BY <1>1, <2>1
  <1>3. \A i \in I : /\ e(i) \in Int /\ e(i) >= -1
                     /\ (i >= Slot(last) => e(i) <= Queue(last)) /\ e(i) <= Queue(last) + 1
                     /\ e(i) # -1 => \E x \in got : Slot(x) = i /\ Queue(x) = e(i)
                     /\ \A x \in got : Slot(x) = i => Queue(x) <= e(i)
    <2> TAKE i \in I
    <2>1. e(i) \in -1 .. (QueueIds - 1) /\ (i >= Slot(last) => e(i) <= Queue(last)) /\ e(i) <= Queue(last) + 1
      BY EntryBelow
    <2>2. Latest(i)
      BY DEF EntriesInv
    <2>3. QueueIds \in Nat
      BY GenLatAssumption
    <2>4. /\ e(i) # -1 => \E x \in got : Slot(x) = i /\ Queue(x) = e(i)
          /\ \A x \in got : Slot(x) = i => Queue(x) <= e(i)
      BY <2>2 DEF Latest
    <2>5. e(i) \in Int /\ e(i) >= -1
      BY <2>1, <2>3
    <2> QED BY <2>1, <2>4, <2>5
  <1>4. \A id \in Nat : Queue(id) \in Nat /\ Slot(id) \in I /\ Slot(id) \in Int
    BY PlaceOf
  <1>5. \A id \in Nat : id \in Miss(Slot(id)) <=> /\ e(Slot(id)) + 1 <= Queue(id)
                                                  /\ Queue(id) < MissingUpto(Slot(id))
    BY DEF Miss, AtPlace
  <1>6. \A i \in I : MissingUpto(i) = IF i > Slot(last) THEN Queue(last) ELSE IF i < Slot(last) THEN Queue(last) + 1 ELSE 0
    BY DEF MissingUpto
  <1> HIDE DEF last, I, e
  \* Whether an id is missing before the last one does not depend on its place.
  <1>7. ASSUME NEW id \in Nat, e(Slot(id)) + 1 <= Queue(id)
        PROVE  Queue(id) < MissingUpto(Slot(id)) <=> id < last
    <2>1. /\ Slot(id) >= Slot(last) => (id < last <=> Queue(id) < Queue(last))
          /\ Slot(id) < Slot(last) => (id < last <=> Queue(id) <= Queue(last))
      BY <1>2, IdOrder
    <2>2. Slot(id) \in I /\ Slot(id) \in Int /\ Slot(last) \in Int /\ Queue(id) \in Nat /\ Queue(last) \in Nat
      BY <1>2, <1>4
    <2>3. CASE Slot(id) > Slot(last)
      BY <1>6, <2>1, <2>2, <2>3
    <2>4. CASE Slot(id) < Slot(last)
      BY <1>6, <2>1, <2>2, <2>4
    <2>5. CASE Slot(id) = Slot(last)
      <3>1. Queue(last) <= e(Slot(id)) /\ e(Slot(id)) \in Int
        BY <1>2, <1>3, <2>2, <2>5
      <3>2. ~ (Queue(id) < Queue(last))
        BY <1>7, <2>2, <3>1
      <3>3. ~ (id < last)
        BY <2>1, <2>2, <2>5, <3>2
      <3>4. MissingUpto(Slot(id)) = 0
        BY <1>6, <2>2, <2>5
      <3> QED BY <2>2, <3>3, <3>4
    <2> QED BY <2>2, <2>3, <2>4, <2>5
  <1>8. ASSUME NEW id \in handed \ got
        PROVE  /\ id \in Nat
               /\ id \in MissBelow(QueueSlots) <=> e(Slot(id)) + 1 <= Queue(id) /\ id < last
    <2>1. id \in Nat
      BY <1>1
    <2>2. Slot(id) < QueueSlots
      BY <1>4, <2>1, GenLatAssumption DEF I
    <2> QED BY <1>5, <1>7, <2>1, <2>2 DEF MissBelow
  <1>9. ASSUME NEW id \in handed \ got, id \in Overtaken(handed, got)
        PROVE  ~ (e(Slot(id)) + 1 <= Queue(id)) /\ id < last
    <2>1. PICK x \in got : x > id /\ Slot(x) = Slot(id)
      BY <1>9 DEF Overtaken
    <2>2. id \in Nat /\ x \in Nat
      BY <1>1
    <2>3. Slot(id) \in I /\ Slot(id) \in Int /\ Slot(last) \in Int /\ Queue(id) \in Nat /\ Queue(x) \in Nat
          /\ Queue(last) \in Nat
      BY <1>2, <1>4, <2>2
    <2>4. Queue(id) < Queue(x)
      <3>1. Slot(id) >= Slot(x)
        BY <2>1, <2>3
      <3> QED BY <2>1, <2>2, <3>1, IdOrder
    <2>5. Queue(x) <= e(Slot(id)) /\ e(Slot(id)) \in Int
      BY <1>3, <2>1, <2>3
    <2>6. (Slot(id) >= Slot(last) => e(Slot(id)) <= Queue(last)) /\ e(Slot(id)) <= Queue(last) + 1
      BY <1>3, <2>3
    <2>7. (Slot(id) >= Slot(last) => Queue(id) < Queue(last)) /\ Queue(id) <= Queue(last)
      BY <2>3, <2>4, <2>5, <2>6
    <2>8. id < last
      <3>1. Slot(id) >= Slot(last) \/ Slot(id) < Slot(last)
        BY <2>3
      <3> QED BY <1>2, <2>2, <2>7, <3>1, IdOrder
    <2>9. ~ (e(Slot(id)) + 1 <= Queue(id))
      BY <2>3, <2>4, <2>5
    <2> QED BY <2>8, <2>9
  <1>10. ASSUME NEW id \in handed \ got, id < last, id \notin Overtaken(handed, got)
         PROVE  e(Slot(id)) + 1 <= Queue(id)
    <2>1. id \in Nat /\ ~ \E x \in got : x > id /\ Slot(x) = Slot(id)
      BY <1>1, <1>10 DEF Overtaken
    <2>2. Slot(id) \in I /\ Slot(id) \in Int /\ Queue(id) \in Nat
      BY <1>4, <2>1
    <2>3. CASE e(Slot(id)) = -1
      BY <2>2, <2>3
    <2>4. CASE e(Slot(id)) # -1
      <3>1. PICK x \in got : Slot(x) = Slot(id) /\ Queue(x) = e(Slot(id))
        BY <1>3, <2>2, <2>4
      <3>2. x \in Nat /\ x # id
        BY <1>1
      <3>3. x < id
        BY <2>1, <3>1, <3>2
      <3>4. Slot(x) >= Slot(id) /\ Queue(x) \in Nat
        BY <1>4, <2>2, <3>1, <3>2
      <3>5. Queue(x) < Queue(id)
        BY <2>1, <3>2, <3>3, <3>4, IdOrder
      <3> QED BY <2>2, <3>1, <3>4, <3>5
    <2> QED BY <2>3, <2>4
  <1>11. ASSUME NEW id \in MissBelow(QueueSlots) PROVE id \in handed \ got
    <2>1. id \in Nat /\ e(Slot(id)) + 1 <= Queue(id) /\ Queue(id) < MissingUpto(Slot(id))
      BY <1>5 DEF MissBelow
    <2>2. id < last
      BY <1>7, <2>1
    <2>3. id \in handed
      BY <1>1, <1>2, <2>1, <2>2
    <2>4. id \notin got
      <3>1. Slot(id) \in I /\ Queue(id) \in Nat
        BY <1>4, <2>1
      <3>2. e(Slot(id)) \in Int /\ (id \in got => Queue(id) <= e(Slot(id)))
        BY <1>3, <3>1
      <3> QED BY <2>1, <3>1, <3>2
    <2> QED BY <2>3, <2>4
  <1>12. Overtaken(handed, got) \subseteq handed \ got
    BY DEF Overtaken
  <1>13. Overtaken(handed, got) \cap MissBelow(QueueSlots) = {}
    BY <1>8, <1>9, <1>12
  <1>14. {id \in handed \ got : id < last} = Overtaken(handed, got) \cup MissBelow(QueueSlots)
    BY <1>8, <1>9, <1>10, <1>11, <1>12
  <1> QED BY <1>13, <1>14 DEF last

\* lat_stop: what was counted and what remains.
LEMMA StopStep ==
  ASSUME ~ gen_l3, IdsInv, lat_stop
  PROVE  IdsInv'
  <1>1. /\ GlTypeOK /\ EntriesInv /\ DupsInv /\ CountedLost /\ ReportedLost
    BY DEF IdsInv
  <1>2. /\ reported = -1 /\ got # {} /\ reported' = lat_test.lost + count_remaining_loss
        /\ lat_test'.lost = 0 /\ lat_test'.duplicate = lat_test.duplicate
        /\ eld'.entries = [i \in 0 .. (QueueSlots - 1) |-> -1] /\ eld'.last_pkt_idx = eld.last_pkt_idx
        /\ UNCHANGED <<gen_l3, pkt_queue_index, handed, wire, dups, got>>
    <2>1. /\ reported = -1 /\ got # {} /\ reported' = lat_test.lost + count_remaining_loss
          /\ eld' = [NoEntries EXCEPT !.last_pkt_idx = eld.last_pkt_idx]
          /\ UNCHANGED <<gen_l3, pkt_queue_index, handed, wire, dups, got>>
      BY DEF lat_stop
    <2>2. eld'.entries = NoEntries.entries /\ eld'.last_pkt_idx = eld.last_pkt_idx
      BY <2>1 DEF NoEntries
    <2>3. lat_test' = [lat_test EXCEPT !.lost = 0]
      BY DEF lat_stop
    <2> QED BY <2>1, <2>2, <2>3 DEF NoEntries
  <1>3. Overtaken(handed, got) \subseteq handed /\ IsFiniteSet(handed)
    <2>1. handed = 0 .. (pkt_queue_index - 1) /\ pkt_queue_index \in Nat
      BY <1>1, GenLatAssumption DEF GlTypeOK
    <2> QED BY <2>1, FS_Interval DEF Overtaken
  <1> DEFINE A == Overtaken(handed, got)
             B == MissBelow(QueueSlots)
  <1>4. IsFiniteSet(A) /\ Cardinality(A) \in Nat
    BY <1>3, FS_Subset, FS_CardinalityType
  <1>5. lat_test.lost = Cardinality(A)
    BY <1>1, <1>2 DEF CountedLost, Overtaken
  <1>6. count_remaining_loss \in Nat
    <2>1. PICK f : LossBy(f) /\ count_remaining_loss = f[QueueSlots]
      BY <1>1, RemainingNat, LossCounted
    <2> QED BY <2>1, GenLatAssumption DEF LossBy
  <1>7. reported' # -1
    BY <1>2, <1>4, <1>5, <1>6
  <1>8. GlTypeOK'
    <2>1. eld'.entries \in [0 .. (QueueSlots - 1) -> -1 .. (QueueIds - 1)]
      BY <1>2, GenLatAssumption
    <2> QED BY <1>1, <1>2, <2>1 DEF GlTypeOK
  <1>9. EntriesInv'
    BY <1>2, <1>7 DEF EntriesInv
  <1>10. DupsInv'
    BY <1>1, <1>2 DEF DupsInv
  <1>11. CountedLost'
    BY <1>7 DEF CountedLost
  <1>12. ReportedLost'
    <2> SUFFICES ASSUME InOrder
                 PROVE  reported' = Cardinality({id \in handed \ got : id < eld.last_pkt_idx})
      BY <1>2 DEF ReportedLost, InOrder
    <2>1. IsFiniteSet(B) /\ count_remaining_loss = Cardinality(B)
      BY <1>1, <1>2, MissCounted
    <2>2. A \cap B = {} /\ {id \in handed \ got : id < eld.last_pkt_idx} = A \cup B
      BY <1>1, <1>2, AllMissing
    <2> HIDE DEF A, B
    <2>3. Cardinality(A \cup B) = Cardinality(A) + Cardinality(B) - Cardinality(A \cap B)
      BY <1>4, <2>1, FS_Union
    <2>4. Cardinality(A \cap B) = 0 /\ Cardinality(B) \in Nat
      BY <2>1, <2>2, FS_EmptySet, FS_CardinalityType
    <2>5. Cardinality(A \cup B) = Cardinality(A) + Cardinality(B)
      BY <1>4, <2>3, <2>4
    <2> QED BY <1>2, <1>5, <2>1, <2>2, <2>5
  <1> QED BY <1>8, <1>9, <1>10, <1>11, <1>12 DEF IdsInv

\* A start: nothing was sent, and the table is that of the stop.
Begins ==
  /\ handed = {} /\ pkt_queue_index = 0 /\ wire = <<>> /\ dups = 0 /\ got = {} /\ reported = -1
  /\ lat_test = NoTest
  /\ eld.entries = [i \in 0 .. (QueueSlots - 1) |-> -1] /\ eld.last_pkt_idx \in Nat
LEMMA Begun == Begins => IdsInv
  <1> SUFFICES ASSUME Begins PROVE IdsInv
    OBVIOUS
  <1> USE DEF Begins
  <1>1. lat_test.lost = 0 /\ lat_test.duplicate = 0
    BY DEF NoTest
  <1>2. GlTypeOK
    <2>1. handed = 0 .. (pkt_queue_index - 1)
      OBVIOUS
    <2>2. eld.entries \in [0 .. (QueueSlots - 1) -> -1 .. (QueueIds - 1)]
      BY GenLatAssumption
    <2>3. pkt_queue_index \in 0 .. MaxIndex
      BY GenLatAssumption
    <2> QED BY <1>1, <2>1, <2>2, <2>3 DEF GlTypeOK
  <1>3. EntriesInv
    BY DEF EntriesInv, Latest
  <1>4. ToSet(wire) \ got = {}
    BY DEF ToSet
  <1>5. DupsInv
    <2>1. Len(wire) = 0
      OBVIOUS
    <2>2. Cardinality(ToSet(wire) \ got) = 0
      BY <1>4, FS_EmptySet
    <2>3. dups = 0
      OBVIOUS
    <2>4. Len(wire) + lat_test.duplicate <= dups + Cardinality(ToSet(wire) \ got)
      BY ONLY <1>1, <2>1, <2>2, <2>3
    <2> QED BY <2>4 DEF DupsInv
  <1>6. CountedLost
    <2>1. {id \in handed \ got : \E x \in got : x > id /\ Slot(x) = Slot(id)} = {}
      OBVIOUS
    <2> QED BY <1>1, <2>1, FS_EmptySet DEF CountedLost
  <1>7. ReportedLost
    BY DEF ReportedLost
  <1> QED BY <1>2, <1>3, <1>5, <1>6, <1>7 DEF IdsInv
LEMMA BegunNext == Begins' => IdsInv'
  BY Begun, PTL
LEMMA RestartStep ==
  ASSUME ~ gen_l3, IdsInv, Restart
  PROVE  IdsInv'
  <1>1. /\ reported # -1 /\ pkt_queue_index' = 0 /\ handed' = {} /\ wire' = <<>> /\ dups' = 0 /\ got' = {}
        /\ reported' = -1 /\ lat_test' = NoTest /\ UNCHANGED <<gen_l3, eld>>
    BY DEF Restart
  <1>2. GlTypeOK /\ EntriesInv
    BY DEF IdsInv
  <1>3. eld'.last_pkt_idx \in Nat
    BY <1>1, <1>2 DEF GlTypeOK
  <1>4. eld'.entries = [i \in 0 .. (QueueSlots - 1) |-> -1]
    <2>1. eld.entries \in [0 .. (QueueSlots - 1) -> -1 .. (QueueIds - 1)]
      BY <1>2 DEF GlTypeOK
    <2>2. \A i \in 0 .. (QueueSlots - 1) : eld.entries[i] = -1
      BY <1>1, <1>2 DEF EntriesInv
    <2> QED BY <1>1, <2>1, <2>2
  <1>5. Begins'
    BY <1>1, <1>3, <1>4 DEF Begins
  <1> QED BY <1>5, BegunNext

LEMMA IdsInvInit == GlInit => IdsInv
  <1> SUFFICES ASSUME GlInit PROVE IdsInv
    OBVIOUS
  <1>1. eld.entries = [i \in 0 .. (QueueSlots - 1) |-> -1] /\ eld.last_pkt_idx = 0
    BY DEF GlInit, NoEntries
  <1>2. Begins
    BY <1>1 DEF GlInit, Begins
  <1> QED BY <1>2, Begun
LEMMA IdsInvNext == IdsInv /\ [GlNext]_gl_vars => IdsInv'
  <1> SUFFICES ASSUME IdsInv, [GlNext]_gl_vars PROVE IdsInv'
    OBVIOUS
  <1>1. gen_l3' = gen_l3
    BY DEF GlNext, gl_vars, GenSend, WireLoses, WireDuplicates, Receive_lat, lat_stop, Restart
  <1>2. CASE gen_l3
    BY <1>1, <1>2 DEF IdsInv
  <1>3. CASE ~ gen_l3
    <2>1. CASE \E n \in 1 .. GenBurst : GenSend(n)
      BY <1>3, <2>1, SendStep
    <2>2. CASE WireLoses
      BY <1>3, <2>2, LoseStep
    <2>3. CASE WireDuplicates
      BY <1>3, <2>3, DuplicateStep
    <2>4. CASE \E i \in 1 .. Len(wire) : Receive_lat(i)
      BY <1>3, <2>4, ReceiveStep
    <2>5. CASE lat_stop
      BY <1>3, <2>5, StopStep
    <2>6. CASE Restart
      BY <1>3, <2>6, RestartStep
    <2>7. CASE UNCHANGED gl_vars
      BY <2>7 DEF gl_vars, IdsInv, GlTypeOK, EntriesInv, Latest, DupsInv, CountedLost, ReportedLost
    <2> QED BY <2>1, <2>2, <2>3, <2>4, <2>5, <2>6, <2>7 DEF GlNext
  <1> QED BY <1>2, <1>3
\* A sequence has no more values than elements.
LEMMA ToSetCount ==
  ASSUME NEW T, NEW s \in Seq(T)
  PROVE  IsFiniteSet(ToSet(s)) /\ Cardinality(ToSet(s)) <= Len(s)
  <1> DEFINE n == Len(s)
             V == ToSet(s)
  <1>1. n \in Nat /\ DOMAIN s = 1 .. n /\ s \in [1 .. n -> T]
    OBVIOUS
  <1>2. V = {s[k] : k \in 1 .. n}
    BY <1>1 DEF ToSet
  <1> HIDE DEF n, V
  <1>3. s \in Surjection(1 .. n, V)
    BY <1>1, <1>2 DEF Surjection
  <1>4. IsFiniteSet(1 .. n) /\ Cardinality(1 .. n) = n
    BY <1>1, FS_Interval
  <1>5. IsFiniteSet(V) /\ Cardinality(V) <= Cardinality(1 .. n)
    BY <1>3, <1>4, FS_Surjection
  <1> QED BY <1>4, <1>5 DEF n, V
LEMMA IdsInvSound == IdsInv => IdsSound
  <1> SUFFICES ASSUME IdsInv PROVE IdsSound
    OBVIOUS
  <1>1. CASE gen_l3
    BY <1>1 DEF IdsSound, CountedLost, ReportedLost, DuplicatesCounted
  <1>2. CASE ~ gen_l3
    <2>1. /\ GlTypeOK /\ DupsInv /\ CountedLost /\ ReportedLost
      BY <1>2 DEF IdsInv
    <2> DEFINE l == Len(wire)
               c == Cardinality(ToSet(wire) \ got)
               d == lat_test.duplicate
    <2>2. wire \in Seq(handed) /\ l \in Nat /\ d \in Nat /\ dups \in Nat /\ l + d <= dups + c
      BY <2>1 DEF GlTypeOK, DupsInv
    <2>3. c \in Nat /\ c <= l
      <3>1. IsFiniteSet(ToSet(wire)) /\ Cardinality(ToSet(wire)) <= l
        BY <2>2, ToSetCount
      <3>2. IsFiniteSet(ToSet(wire) \ got) /\ c <= Cardinality(ToSet(wire))
        BY <3>1, FS_Subset
      <3>3. c \in Nat /\ Cardinality(ToSet(wire)) \in Nat
        BY <3>1, <3>2, FS_CardinalityType
      <3> HIDE DEF l, c
      <3> QED BY <2>2, <3>1, <3>2, <3>3
    <2> HIDE DEF l, c, d
    <2>4. d <= dups
      BY <2>2, <2>3
    <2> QED BY <2>1, <2>4 DEF IdsSound, DuplicatesCounted, d
  <1> QED BY <1>1, <1>2

\* What the latency task counts as lost is what the network lost, and what it
\* counts as duplicates the network duplicated, for every size of the table and
\* every number of packets that does not make ids wrap, when tx_pkt says which
\* packets it refused.
THEOREM IdsCounted == GlSpec => []IdsSound
  <1>1. GlInit => IdsInv
    BY IdsInvInit
  <1>2. IdsInv /\ [GlNext]_gl_vars => IdsInv'
    BY IdsInvNext
  <1>3. IdsInv => IdsSound
    BY IdsInvSound
  <1> QED BY <1>1, <1>2, <1>3, PTL DEF GlSpec
=============================================================================
