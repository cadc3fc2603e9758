----------------------------- MODULE TokenTime ------------------------------
(***************************************************************************)
(* The token bucket of the generators (token_time.h), which credits bpp    *)
(* bytes per period of cycles in unsigned arithmetic.  Between two period  *)
(* boundaries the credit is a rounded share of the period; what was given  *)
(* of it is kept in tsc_last_bytes and corrected at the next update.       *)
(*                                                                         *)
(* The bucket is that of one task: it is updated at the times its handler  *)
(* is called, bytes are taken, and its rate changes, always with a reset.  *)
(***************************************************************************)
EXTENDS Integers

CONSTANTS
  TtPeriod,    \* cfg.period
  TtRates,     \* rates that are configured: values of cfg.bpp
  TtBytesMax,  \* cfg.bytes_max
  TtModulus,   \* 2^64
  TtMaxTsc       \* bound: the time at which the model stops

ASSUME TokenTimeAssumption ==
  /\ TtPeriod \in Nat \ {0} /\ TtRates \subseteq Nat \ {0} /\ TtBytesMax \in Nat
  /\ TtMaxTsc \in Nat /\ TtModulus \in Nat \ {0}
  \* "those operations can't overflow" (token_time_cfg_create)
  /\ TtPeriod < TtModulus /\ TtMaxTsc < TtModulus /\ TtBytesMax * TtPeriod < TtModulus
  /\ \A bpp \in TtRates : TtMaxTsc * bpp + bpp + TtBytesMax < TtModulus

VARIABLES
  tt,       \* [bpp, tsc_last, tsc_last_bytes, bytes_now]
  tsc,      \* the time of the last update
  reset_at, \* the time of the last reset
  initial,  \* the bytes put in the bucket then
  earned,   \* the bytes credited since then
  taken     \* the bytes taken since then

tt_vars == <<tt, tsc, reset_at, initial, earned, taken>>

\* The value of a uint64_t expression.
U64(x) == x % TtModulus

MinOf(a, b) == IF a <= b THEN a ELSE b

Bucket(bpp, now, bytes) == [bpp |-> bpp, tsc_last |-> now, tsc_last_bytes |-> 0, bytes_now |-> bytes]

TtInit ==
  /\ \E bpp \in TtRates : tt = Bucket(bpp, 0, 0)
  /\ tsc = 0 /\ reset_at = 0 /\ initial = 0 /\ earned = 0 /\ taken = 0

\* Mutant: the bytes of the whole last period are added at its end.
Remaining_bytesAll(t) == t.bpp
\* The bytes of the last period that were not added yet.
Remaining_bytes(t) == U64(t.bpp - t.tsc_last_bytes)

\* More than a period has passed: [tsc_last, bytes], the latter for all whole
\* periods, the first of which may have been credited in part.
Periods(t, diff) ==
  LET n == IF diff - TtPeriod > TtPeriod THEN (diff - TtPeriod) \div TtPeriod ELSE 0
  IN [tsc_last |-> t.tsc_last + TtPeriod + n * TtPeriod,
      bytes |-> Remaining_bytes(t) + n * t.bpp]

\* The share of the period that has begun.
Share(t, now, given) == U64(U64((now - t.tsc_last) * t.bpp) \div TtPeriod - given)

Credited(t, bytes) == [t EXCEPT !.bytes_now = MinOf(U64(@ + bytes), TtBytesMax)]

\* token_time_update at time now.
WholePeriods(t, now) ==
  LET p == Periods(t, U64(now - t.tsc_last))
      b == [t EXCEPT !.tsc_last = p.tsc_last, !.tsc_last_bytes = 0]
      new == Share(b, now, 0)
  IN /\ tt' = Credited([b EXCEPT !.tsc_last_bytes = new], p.bytes + new)
     /\ earned' = earned + p.bytes + new

SamePeriod(t, now) ==
  LET new == Share(t, now, t.tsc_last_bytes)
  IN /\ tt' = Credited([t EXCEPT !.tsc_last_bytes = U64(@ + new)], new)
     /\ earned' = earned + new

token_time_update(now) ==
  /\ tsc' = now /\ UNCHANGED <<reset_at, initial, taken>>
  /\ IF U64(now - tt.tsc_last) > TtPeriod THEN WholePeriods(tt, now) ELSE SamePeriod(tt, now)

\* Bytes that are not there are not taken.
token_time_take(bytes) ==
  /\ bytes <= tt.bytes_now
  /\ tt' = [tt EXCEPT !.bytes_now = @ - bytes] /\ taken' = taken + bytes
  /\ UNCHANGED <<tsc, reset_at, initial, earned>>

\* The bytes that the other peer sent, however many.
token_time_take_clamp(bytes) ==
  /\ bytes > tt.bytes_now
  /\ tt' = [tt EXCEPT !.bytes_now = 0] /\ taken' = taken + tt.bytes_now
  /\ UNCHANGED <<tsc, reset_at, initial, earned>>

\* Mutant: the rate is changed in the middle of a period.
set_bpp_only(bpp, bytes) ==
  tt' = [tt EXCEPT !.bpp = bpp] /\ UNCHANGED <<tsc, reset_at, initial, earned, taken>>
\* token_time_set_bpp or token_time_init, and token_time_reset: with an empty
\* bucket (task_gen_reset_token_time) or a full one (reset_token_times).
token_time_reset(bpp, bytes) ==
  /\ tt' = Bucket(bpp, tsc, bytes)
  /\ reset_at' = tsc /\ initial' = bytes /\ earned' = 0 /\ taken' = 0 /\ UNCHANGED tsc

TtNext ==
  \/ \E now \in tsc .. TtMaxTsc : token_time_update(now)
  \/ \E bytes \in 1 .. TtBytesMax : token_time_take(bytes) \/ token_time_take_clamp(bytes)
  \/ \E bpp \in TtRates, bytes \in {0, TtBytesMax} : token_time_reset(bpp, bytes)

TtSpec == TtInit /\ [][TtNext]_tt_vars

\* token_time_tsc_until: how long to wait until the bucket holds the bytes.
token_time_tsc_until(bytes) ==
  IF tt.bytes_now >= bytes THEN 0
  ELSE U64((bytes - tt.bytes_now) * TtPeriod) \div tt.bpp

-----------------------------------------------------------------------------
(***************************************************************************)
(* Properties.                                                             *)
(***************************************************************************)

Elapsed == tsc - reset_at

\* Whatever the intervals between updates, and however they meet the period
\* boundaries, the bytes credited since the last reset are those of the rate,
\* rounded down once: no update loses or invents any.
TokensExact == earned = (Elapsed * tt.bpp) \div TtPeriod

\* No more is taken than the rate allows, and the rest is in the bucket or was
\* cut off at its size.
RateKept == taken + tt.bytes_now <= initial + earned /\ tt.bytes_now <= TtBytesMax

\* A task that waits as long as token_time_tsc_until says finds what it asked
\* for, less one byte and the bytes of one cycle at most, if none is taken.
WaitSuffices ==
  \A bytes \in 1 .. TtBytesMax :
    LET wait == token_time_tsc_until(bytes)
        then == ((Elapsed + wait) * tt.bpp) \div TtPeriod - earned
    IN (bytes - tt.bytes_now - then - 1) * TtPeriod < tt.bpp

TokenSafe == TokensExact /\ RateKept /\ WaitSuffices

-----------------------------------------------------------------------------
(***************************************************************************)
(* The inductive invariant from which TokensExact and RateKept are proved. *)
(***************************************************************************)

TtTypeOK ==
  /\ tt \in [bpp : TtRates, tsc_last : Nat, tsc_last_bytes : Nat, bytes_now : 0 .. TtBytesMax]
  /\ tsc \in 0 .. TtMaxTsc /\ reset_at \in 0 .. TtMaxTsc /\ initial \in Nat
  /\ earned \in Nat /\ taken \in Nat

\* tsc_last is a period boundary, counted from the reset, at most one period
\* before the last update, and tsc_last_bytes the share credited after it.
AtBoundary ==
  /\ tt.tsc_last <= tsc /\ tsc <= tt.tsc_last + TtPeriod
  /\ tt.tsc_last_bytes = ((tsc - tt.tsc_last) * tt.bpp) \div TtPeriod
  /\ \E n \in Nat : /\ tt.tsc_last = reset_at + n * TtPeriod
                    /\ earned = n * tt.bpp + tt.tsc_last_bytes

TtIInv == TtTypeOK /\ AtBoundary /\ RateKept
=============================================================================
