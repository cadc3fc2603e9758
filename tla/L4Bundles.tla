----------------------------- MODULE L4Bundles ------------------------------
(***************************************************************************)
(* The connections of an L4 client (genl4_bundle.c): a bundle plays its    *)
(* streams one after the other, each under a new tuple, and is then        *)
(* returned to the pool with its configuration.  A connection is found by  *)
(* its tuple, through the position that rte_hash gives to a key, or by its *)
(* timer in the heap.                                                      *)
(*                                                                         *)
(* A step is one call of bundle_proc_data or the creation of one bundle;   *)
(* a call of handle_gen_bulk_client is a sequence of these.  What a stream *)
(* does is left to L4Stream: here a call may set a timer, set none (UDP,   *)
(* see Untimed there), end the stream or let it expire.                    *)
(***************************************************************************)
EXTENDS Integers, FiniteSets, Sequences

CONSTANTS
  Bundles,      \* bundles of the pool
  BundleCfgs,   \* the configurations: the protocols of their streams, in order
  Occurrences,  \* how often each is in the pool at first: the imix
  LastPosition, \* positions of the hash table: 0 .. LastPosition
  NoBundle

ASSUME L4BundlesAssumption ==
  /\ IsFiniteSet(Bundles) /\ NoBundle \notin Bundles
  /\ \A c \in BundleCfgs : c \in Seq({"tcp", "udp"}) \ {<<>>}
  /\ Occurrences \in [BundleCfgs -> Nat]
  /\ LastPosition \in Nat /\ Cardinality(Bundles) <= LastPosition + 1

HashPositions == 0 .. LastPosition

VARIABLES
  free_bundles,  \* bundles that are in the pool
  occur,         \* how often each configuration is in the pool
  bundle,        \* [cfg, stream_idx] of the bundles in use
  keys,          \* the bundle whose tuple has this position in the hash
  hash_entries,  \* the array beside the hash; not reset with a key
  timers         \* bundles with an element in the heap

l4b_vars == <<free_bundles, occur, bundle, keys, hash_entries, timers>>

NoneYet == [cfg |-> <<>>, stream_idx |-> 0]

L4BInit ==
  /\ free_bundles = Bundles /\ occur = Occurrences
  /\ bundle = [b \in Bundles |-> NoneYet]
  /\ keys = [p \in HashPositions |-> NoBundle] /\ hash_entries = [p \in HashPositions |-> NoBundle]
  /\ timers = {}

PositionOf(b) == CHOOSE p \in HashPositions : keys[p] = b
Proto(b) == bundle[b].cfg[bundle[b].stream_idx]

\* Mutant: the configuration stays away.
PutBundleOnly(bs) ==
  /\ free_bundles' = free_bundles \cup bs
  /\ bundle' = [b \in Bundles |-> IF b \in bs THEN NoneYet ELSE bundle[b]]
  /\ UNCHANGED occur
\* bundle_ctx_pool_put for each of these.
bundle_ctx_pool_put(bs) ==
  /\ free_bundles' = free_bundles \cup bs
  /\ bundle' = [b \in Bundles |-> IF b \in bs THEN NoneYet ELSE bundle[b]]
  /\ occur' = [c \in BundleCfgs |-> occur[c] + Cardinality({b \in bs : bundle[b].cfg = c})]

\* bundle_expire, and the end of the last stream in bundle_iterate_streams.
Finish(bs) ==
  /\ keys' = [p \in HashPositions |-> IF keys[p] \in bs THEN NoBundle ELSE keys[p]]
  /\ timers' = timers \ bs
  /\ bundle_ctx_pool_put(bs)
  /\ UNCHANGED hash_entries

\* Mutant: the array beside the hash is not brought up to date.
EntryKept(old, new) == hash_entries
EntryMoved(old, new) == [hash_entries EXCEPT ![new] = hash_entries[old]]

\* bundle_iterate_streams moves on to the next stream under a new tuple; its
\* return value, for which bundle_proc_data tests, is the position of the key.
NextStream(b) ==
  /\ bundle' = [bundle EXCEPT ![b].stream_idx = @ + 1]
  /\ \E old \in {PositionOf(b)}, new \in HashPositions :
       /\ keys[new] = NoBundle \/ new = old
       /\ keys' = [keys EXCEPT ![old] = NoBundle, ![new] = b]
       /\ hash_entries' = EntryMoved(old, new)
       /\ timers' = IF new > 0 THEN timers \cup {b} ELSE timers \ {b}
  /\ UNCHANGED <<free_bundles, occur>>

\* bundle_proc_data: the timer is stopped, the stream proceeds.
bundle_proc_data(b) ==
  \/ Finish({b})  \* the stream expires
  \/ timers' = timers \cup {b} /\ UNCHANGED <<free_bundles, occur, bundle, keys, hash_entries>>
  \/ /\ Proto(b) = "udp"
     /\ timers' = timers \ {b} /\ UNCHANGED <<free_bundles, occur, bundle, keys, hash_entries>>
  \/ IF bundle[b].stream_idx < Len(bundle[b].cfg) THEN NextStream(b) ELSE Finish({b})

\* A packet: the connection is the one beside its position.
ReceiveAt(p) == keys[p] # NoBundle /\ bundle_proc_data(hash_entries[p])
TimerExpires(b) == b \in timers /\ bundle_proc_data(b)

\* bundle_ctx_pool_get_w_cfg, a new key, and the first call for the new
\* connection, which sets the timer: no stream ends with its first packet
\* except one of a single datagram.
NewConnection(b, c, p) ==
  /\ b \in free_bundles /\ occur[c] > 0 /\ keys[p] = NoBundle
  /\ free_bundles' = free_bundles \ {b} /\ occur' = [occur EXCEPT ![c] = @ - 1]
  /\ bundle' = [bundle EXCEPT ![b] = [cfg |-> c, stream_idx |-> 1]]
  /\ keys' = [keys EXCEPT ![p] = b] /\ hash_entries' = [hash_entries EXCEPT ![p] = b]
  /\ timers' = timers \cup {b}

\* stop_task_gen_client: every connection with a timer expires.
stop_task_gen_client == timers # {} /\ Finish(timers)

L4BNext ==
  \/ \E p \in HashPositions : ReceiveAt(p)
  \/ \E b \in Bundles : TimerExpires(b)
  \/ \E b \in Bundles, c \in BundleCfgs, p \in HashPositions : NewConnection(b, c, p)
  \/ stop_task_gen_client

L4BSpec == L4BInit /\ [][L4BNext]_l4b_vars

-----------------------------------------------------------------------------
(***************************************************************************)
(* Properties.                                                             *)
(***************************************************************************)

CfgsInUse == Bundles \ free_bundles

\* However connections end, every configuration is in the pool or in use as
\* often as the imix says: the mix of what is generated never drifts.
MixKept ==
  \A c \in BundleCfgs :
    occur[c] + Cardinality({b \in CfgsInUse : bundle[b].cfg = c}) = Occurrences[c]

\* A packet is given to the connection it belongs to: each connection has one
\* tuple in the hash, and the array beside it names the connection.
KeysNameEntries ==
  \A p \in HashPositions : keys[p] # NoBundle => keys[p] \in CfgsInUse /\ hash_entries[p] = keys[p]
FoundByTuple ==
  /\ KeysNameEntries
  /\ \A b \in CfgsInUse : Cardinality({p \in HashPositions : keys[p] = b}) = 1

\* Only connections have timers, and one without a timer, which goes on only
\* if a packet happens to come, is a UDP stream or began a stream under a
\* tuple at position 0 of the hash, which bundle_proc_data takes for none.
WaitsForTimer ==
  /\ timers \subseteq CfgsInUse
  /\ \A b \in CfgsInUse \ timers : Proto(b) = "udp" \/ keys[0] = b

BundlesSound == MixKept /\ FoundByTuple /\ WaitsForTimer

-----------------------------------------------------------------------------
(***************************************************************************)
(* The inductive invariant from which BundlesSound is proved in            *)
(* Generator_proofs: a connection is in use, has one key, and plays a      *)
(* stream of its configuration.                                            *)
(***************************************************************************)
L4BTypeOK ==
  /\ free_bundles \subseteq Bundles /\ occur \in [BundleCfgs -> Nat]
  /\ bundle \in [Bundles -> [cfg : BundleCfgs \cup {<<>>}, stream_idx : Nat]]
  /\ keys \in [HashPositions -> Bundles \cup {NoBundle}]
  /\ hash_entries \in [HashPositions -> Bundles \cup {NoBundle}]
OneKey ==
  \A b \in CfgsInUse : \E p \in HashPositions :
    keys[p] = b /\ \A q \in HashPositions : keys[q] = b => q = p
StreamOfCfg ==
  \A b \in CfgsInUse :
    bundle[b].cfg \in BundleCfgs /\ bundle[b].stream_idx \in 1 .. Len(bundle[b].cfg)
L4BInv == L4BTypeOK /\ KeysNameEntries /\ OneKey /\ StreamOfCfg /\ MixKept /\ WaitsForTimer
=============================================================================
