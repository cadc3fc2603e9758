--------------------------- MODULE NumberLemmas ----------------------------
(***************************************************************************)
(* Facts about numbers that several proofs need: least elements, and %, by *)
(* which counters wrap and indices are masked.                             *)
(***************************************************************************)
EXTENDS Integers, WellFoundedInduction, TLAPS

\* Every non-empty set of naturals has a least element.
LEMMA LeastNatural ==
  ASSUME NEW T \in SUBSET Nat, T # {}
  PROVE  \E x \in T : \A y \in T : x <= y
<1> DEFINE R == OpToRel(<, Nat)
<1>1. IsWellFoundedOn(R, Nat)
  BY NatLessThanWellFounded
<1>2. \A x, y \in Nat : <<y, x>> \in R <=> y < x
  BY DEF OpToRel
<1> HIDE DEF R
<1>3. PICK x \in T : \A y \in T : ~ (<<y, x>> \in R)
  BY <1>1, WFMin
<1>4. ASSUME NEW y \in T PROVE x <= y
  <2>1. x \in Nat /\ y \in Nat /\ ~ (<<y, x>> \in R)
    BY <1>3
  <2>2. ~ (y < x)
    BY <2>1, <1>2
  <2> QED BY <2>1, <2>2
<1> QED BY <1>4

\* A set of naturals that has the first of them, and with each one the next
\* below n, has all of them up to n.
LEMMA ReachesAll ==
  ASSUME NEW n \in Nat, NEW T, 0 \in T,
         \A k \in 0 .. n - 1 : k \in T => k + 1 \in T
  PROVE  0 .. n \subseteq T
<1> DEFINE U == {k \in 0 .. n : k \notin T}
<1> SUFFICES ASSUME U # {} PROVE FALSE
  OBVIOUS
<1>1. U \in SUBSET Nat
  OBVIOUS
<1>2. PICK m \in U : \A k \in U : m <= k
  BY <1>1, LeastNatural
<1>3. m # 0 /\ m \in 0 .. n /\ m \notin T
  OBVIOUS
<1>4. m - 1 \in 0 .. n - 1 /\ m - 1 \in 0 .. n /\ ~ (m <= m - 1) /\ (m - 1) + 1 = m
  BY <1>3
<1>5. m - 1 \in T
  BY <1>2, <1>4
<1> QED BY <1>3, <1>4, <1>5

\* What is made in n steps, each from the one before, exists.
StepsWithin(n, S, base, step) ==
  n \in Nat /\ base \in S /\ \A k \in 1 .. n : \A x \in S : step[k][x] \in S

LEMMA StepsExist ==
  ASSUME NEW n, NEW S, NEW base, NEW step, StepsWithin(n, S, base, step)
  PROVE  \E g \in [0 .. n -> S] :
           g[0] = base /\ \A k \in 1 .. n : g[k] = step[k][g[k - 1]]
<1> DEFINE Upto(g, m) == /\ g \in [0 .. m -> S] /\ g[0] = base
                         /\ \A k \in 1 .. m : g[k] = step[k][g[k - 1]]
           T == {m \in 0 .. n : \E g \in [0 .. m -> S] : Upto(g, m)}
<1> USE DEF StepsWithin
<1>1. 0 \in T
  <2> DEFINE g == [k \in 0 .. 0 |-> base]
  <2>1. g \in [0 .. 0 -> S] /\ Upto(g, 0) /\ 0 \in 0 .. n
    OBVIOUS
  <2> HIDE DEF g, Upto
  <2>2. \E f \in [0 .. 0 -> S] : Upto(f, 0)
    BY <2>1
  <2> QED BY <2>1, <2>2
<1>2. ASSUME NEW m \in 0 .. n - 1, m \in T PROVE m + 1 \in T
  <2>1. PICK f \in [0 .. m -> S] : Upto(f, m)
    BY <1>2
  <2> DEFINE last == step[m + 1][f[m]]
             g == [k \in 0 .. m + 1 |-> IF k = m + 1 THEN last ELSE f[k]]
  <2>2. last \in S
    <3>1. m + 1 \in 1 .. n /\ m \in 0 .. m
      OBVIOUS
    <3> QED BY <2>1, <3>1
  <2> HIDE DEF last
  <2>3. ASSUME NEW k \in 0 .. m + 1 PROVE g[k] \in S
    <3>1. CASE k = m + 1
      BY <2>2, <3>1
    <3>2. CASE k # m + 1
      <4>1. k \in 0 .. m
        BY <3>2
      <4> QED BY <2>1, <3>2, <4>1
    <3> QED BY <3>1, <3>2
  <2>4. g \in [0 .. m + 1 -> S]
    BY <2>3
  <2>5. g[0] = base
    <3>1. 0 \in 0 .. m + 1 /\ 0 # m + 1
      OBVIOUS
    <3> QED BY <2>1, <3>1
  <2>6. ASSUME NEW k \in 1 .. m + 1 PROVE g[k] = step[k][g[k - 1]]
    <3>1. k - 1 \in 0 .. m + 1 /\ k - 1 # m + 1 /\ k \in 0 .. m + 1
      OBVIOUS
    <3>2. g[k - 1] = f[k - 1]
      BY <3>1
    <3>3. CASE k = m + 1
      <4>1. g[k] = last /\ k - 1 = m
        BY <3>1, <3>3
      <4> HIDE DEF g
      <4> QED BY <3>2, <3>3, <4>1 DEF last
    <3>4. CASE k # m + 1
      <4>1. g[k] = f[k] /\ k \in 1 .. m
        BY <3>1, <3>4
      <4> HIDE DEF g
      <4> QED BY <2>1, <3>2, <4>1
    <3> QED BY <3>3, <3>4
  <2> HIDE DEF g
  <2>7. m + 1 \in 0 .. n /\ Upto(g, m + 1)
    BY <2>4, <2>5, <2>6
  <2> QED BY <2>4, <2>7
<1> HIDE DEF T
<1>3. 0 .. n \subseteq T
  BY <1>1, <1>2, ReachesAll
<1>4. n \in T
  <2>1. n \in 0 .. n
    OBVIOUS
  <2> QED BY <1>3, <2>1
<1> QED BY <1>4 DEF T

-----------------------------------------------------------------------------
\* Quotient and remainder.
LEMMA Division ==
  ASSUME NEW w \in Nat \ {0}, NEW x \in Int
  PROVE  /\ x = w * (x \div w) + (x % w)
         /\ x \div w \in Int /\ x % w \in 0 .. (w - 1)
  OBVIOUS

\* A remainder is determined by any division that leaves one.
LEMMA RemainderUnique ==
  ASSUME NEW w \in Nat \ {0}, NEW x \in Int, NEW q \in Int, NEW r \in 0 .. (w - 1),
         x = w * q + r
  PROVE  x % w = r
  OBVIOUS

\* So is the quotient.
LEMMA QuotientUnique ==
  ASSUME NEW w \in Nat \ {0}, NEW x \in Int, NEW q \in Int, NEW r \in 0 .. (w - 1),
         x = w * q + r
  PROVE  x \div w = q
  <1> DEFINE d == x \div w
  <1>1. x = w * d + (x % w) /\ d \in Int
    OBVIOUS
  <1>2. x % w = r
    BY RemainderUnique
  <1> HIDE DEF d
  <1>3. w * d = w * q
    <2>1. w * d \in Int /\ w * q \in Int /\ r \in Int
      BY <1>1
    <2> QED BY <1>1, <1>2, <2>1
  <1>4. d = q
    <2>1. CASE d < q
      <3>1. PICK k \in Nat : q = d + 1 + k
        <4>1. q - d - 1 \in Nat /\ q = d + 1 + (q - d - 1)
          BY <1>1, <2>1
        <4> QED BY <4>1
      <3>2. w * q = w * d + w + w * k /\ w * k \in Nat /\ w * d \in Int
        BY <1>1, <3>1
      <3> QED BY <1>3, <3>2
    <2>2. CASE q < d
      <3>1. PICK k \in Nat : d = q + 1 + k
        <4>1. d - q - 1 \in Nat /\ d = q + 1 + (d - q - 1)
          BY <1>1, <2>2
        <4> QED BY <4>1
      <3>2. w * d = w * q + w + w * k /\ w * k \in Nat /\ w * q \in Int
        BY <1>1, <3>1
      <3> QED BY <1>3, <3>2
    <2> QED BY <1>1, <2>1, <2>2
  <1> QED BY <1>4 DEF d

\* What is below the modulus is its own remainder.
LEMMA RemainderSmall ==
  ASSUME NEW w \in Nat \ {0}, NEW x \in 0 .. (w - 1)
  PROVE  x % w = x
  OBVIOUS

\* Wrapping twice is wrapping once.
LEMMA RemainderPlus ==
  ASSUME NEW w \in Nat \ {0}, NEW x \in Int, NEW y \in Int
  PROVE  ((x % w) + y) % w = (x + y) % w
  <1> DEFINE q == x \div w
             r == x % w
             d == r + y
             e == d \div w
             s == d % w
  <1>1. x = w * q + r /\ q \in Int /\ r \in Int
    OBVIOUS
  <1> HIDE DEF q, r
  <1>2. d \in Int
    BY <1>1
  <1> HIDE DEF d
  <1>3. d = w * e + s /\ e \in Int /\ s \in 0 .. (w - 1)
    BY <1>2
  <1> HIDE DEF e, s
  <1>4. x + y = w * (q + e) + s
    <2>1. w * (q + e) = w * q + w * e
      BY <1>1, <1>3
    <2> QED BY <1>1, <1>3, <2>1 DEF d
  <1>5. (x + y) % w = s
    <2>1. x + y \in Int /\ q + e \in Int
      BY <1>1, <1>3
    <2> QED BY <1>3, <1>4, <2>1, RemainderUnique
  <1> QED BY <1>5 DEF r, d, s

\* ... also where the wrapped number is subtracted.
LEMMA RemainderMinus ==
  ASSUME NEW w \in Nat \ {0}, NEW x \in Int, NEW y \in Int
  PROVE  (y - (x % w)) % w = (y - x) % w
  <1> DEFINE q == x \div w
             r == x % w
             d == y - r
             e == d \div w
             s == d % w
  <1>1. x = w * q + r /\ q \in Int /\ r \in Int
    OBVIOUS
  <1> HIDE DEF q, r
  <1>2. d \in Int
    BY <1>1
  <1> HIDE DEF d
  <1>3. d = w * e + s /\ e \in Int /\ s \in 0 .. (w - 1)
    BY <1>2
  <1> HIDE DEF e, s
  <1>4. y - x = w * (e - q) + s
    <2>1. w * (e - q) = w * e - w * q
      BY <1>1, <1>3
    <2> QED BY <1>1, <1>3, <2>1 DEF d
  <1>5. (y - x) % w = s
    <2>1. y - x \in Int /\ e - q \in Int
      BY <1>1, <1>3
    <2> QED BY <1>3, <1>4, <2>1, RemainderUnique
  <1> QED BY <1>5 DEF r, d, s

\* A remainder moves with its number as long as it does not wrap.
LEMMA RemainderShift ==
  ASSUME NEW w \in Nat \ {0}, NEW x \in Int, NEW k \in Int,
         (x % w) + k \in 0 .. (w - 1)
  PROVE  (x + k) % w = (x % w) + k
  <1>1. ((x % w) + k) % w = (x % w) + k
    BY RemainderSmall
  <1> QED BY <1>1, RemainderPlus

\* The distance from c to p and the counter m after c, for a range of w.
Distance(p, c, w) == (p - c) % w
MovedForward(c, m, w) == (c + m) % w

\* The distance between two counters that wrap, when the later one moves
\* on by m.
LEMMA DistanceGrows ==
  ASSUME NEW w \in Nat \ {0}, NEW p \in Int, NEW c \in Int, NEW m \in Nat,
         Distance(p, c, w) + m < w
  PROVE  Distance(MovedForward(p, m, w), c, w) = Distance(p, c, w) + m
  <1> DEFINE x == p - c
             z == p + m
  <1>1. x \in Int /\ z \in Int /\ -c \in Int /\ m \in Int /\ z + (-c) = x + m
    OBVIOUS
  <1>2. Distance(p, c, w) = x % w /\ MovedForward(p, m, w) = z % w
    BY DEF Distance, MovedForward
  <1>3. (z % w) - c = (z % w) + (-c)
    BY <1>1, Division
  <1> HIDE DEF x, z
  <1>4. (x % w) + m \in 0 .. (w - 1)
    <2>1. x % w \in 0 .. (w - 1) /\ (x % w) + m < w
      BY <1>1, <1>2, Division
    <2> QED BY <2>1
  <1>5. (x + m) % w = (x % w) + m
    BY <1>1, <1>4, RemainderShift
  <1>6. ((z % w) + (-c)) % w = (z + (-c)) % w
    BY <1>1, RemainderPlus
  <1>7. ((z % w) - c) % w = (x % w) + m
    BY <1>1, <1>3, <1>5, <1>6
  <1> QED BY <1>2, <1>7 DEF Distance

\* The distance when the earlier counter moves on by m.
LEMMA DistanceShrinks ==
  ASSUME NEW w \in Nat \ {0}, NEW p \in Int, NEW c \in Int, NEW m \in Nat,
         m <= Distance(p, c, w)
  PROVE  Distance(p, MovedForward(c, m, w), w) = Distance(p, c, w) - m
  <1> DEFINE x == p - c
             z == c + m
  <1>1. x \in Int /\ z \in Int /\ p - z = x + (-m) /\ -m \in Int
    OBVIOUS
  <1>2. Distance(p, c, w) = x % w /\ MovedForward(c, m, w) = z % w
    BY DEF Distance, MovedForward
  <1> HIDE DEF x, z
  <1>3. (x % w) + (-m) \in 0 .. (w - 1)
    <2>1. x % w \in 0 .. (w - 1) /\ m <= x % w
      BY <1>1, <1>2, Division
    <2> QED BY <2>1
  <1>4. (x + (-m)) % w = (x % w) + (-m)
    BY <1>1, <1>3, RemainderShift
  <1>5. (p - (z % w)) % w = (p - z) % w
    BY <1>1, RemainderMinus
  <1>6. (x % w) + (-m) = (x % w) - m
    BY <1>1, Division
  <1>7. (p - (z % w)) % w = (x % w) - m
    BY <1>1, <1>4, <1>5, <1>6
  <1> QED BY <1>2, <1>7 DEF Distance

\* A counter that wraps at a multiple of r looks, masked, as if it did not.
LEMMA MaskOfWrapped ==
  ASSUME NEW r \in Nat \ {0}, NEW w \in Nat \ {0}, w % r = 0, NEW x \in Int
  PROVE  (x % w) % r = x % r
  <1> DEFINE q == x \div w
             y == x % w
             k == w \div r
             s == y \div r
             v == y % r
  <1>1. x = w * q + y /\ q \in Int /\ y \in Int
    OBVIOUS
  <1>2. w = r * k /\ k \in Int
    OBVIOUS
  <1> HIDE DEF q, y, k
  <1>3. y = r * s + v /\ s \in Int /\ v \in 0 .. (r - 1)
    BY <1>1
  <1> HIDE DEF s, v
  <1>4. x = r * (k * q + s) + v /\ k * q + s \in Int
    <2>1. w * q = r * (k * q)
      BY <1>1, <1>2
    <2>2. r * (k * q + s) = r * (k * q) + r * s
      BY <1>1, <1>2, <1>3
    <2> QED BY <1>1, <1>2, <1>3, <2>1, <2>2
  <1>5. x % r = v
    BY <1>3, <1>4, RemainderUnique
  <1> QED BY <1>5 DEF y, v

\* A multiple of m stays one when m is added, and masked in a ring of 2 * m
\* places it is 0 or m.
LEMMA MultiplePlus ==
  ASSUME NEW m \in Nat \ {0}, NEW c \in Int, c % m = 0
  PROVE  (c + m) % m = 0
  <1> DEFINE q == c \div m
  <1>1. c = m * q /\ q \in Int
    OBVIOUS
  <1> HIDE DEF q
  <1>2. c + m = m * (q + 1) + 0 /\ q + 1 \in Int /\ 0 \in 0 .. (m - 1) /\ c + m \in Int
    BY <1>1
  <1> QED BY <1>2, RemainderUnique

\* A multiple of m, masked to a ring of two m, is the start of a half.
LEMMA MultipleInRing ==
  ASSUME NEW m \in Nat \ {0}, NEW r \in Nat, r = 2 * m, NEW c \in Int, c % m = 0
  PROVE  c % r \in {0, m}
  <1> DEFINE q == c \div r
             s == c % r
             k == c \div m
             d == k - 2 * q
  <1>1. c = r * q + s /\ q \in Int /\ s \in 0 .. (r - 1)
    <2>1. r \in Nat \ {0}
      OBVIOUS
    <2> QED BY <2>1, Division
  <1>2. c = m * k /\ k \in Int
    OBVIOUS
  <1> HIDE DEF q, s, k
  <1>3. s = m * d /\ d \in Int
    BY <1>1, <1>2
  <1> HIDE DEF d
  <1>4. 0 <= m * d /\ m * d < m * 2
    BY <1>1, <1>3
  <1>5. d \in {0, 1}
    BY <1>3, <1>4
  <1> QED BY <1>3, <1>5 DEF s

\* A multiple of 2 * m is one of m.
LEMMA MultipleOfHalf ==
  ASSUME NEW m \in Nat \ {0}, NEW r \in Nat, r = 2 * m, NEW w \in Int, w % r = 0
  PROVE  w % m = 0
  <1> DEFINE q == w \div r
  <1>1. w = r * q /\ q \in Int
    <2>1. r \in Nat \ {0}
      OBVIOUS
    <2>2. w = r * q + (w % r) /\ q \in Int
      BY ONLY <2>1, Division, w \in Int
    <2> QED BY <2>1, <2>2
  <1> HIDE DEF q
  <1>2. w = m * (2 * q) + 0 /\ 2 * q \in Int /\ 0 \in 0 .. (m - 1)
    BY <1>1
  <1> QED BY <1>2, RemainderUnique


\* Counters whose distance is known, masked.
LEMMA DistanceMasked ==
  ASSUME NEW r \in Nat \ {0}, NEW w \in Nat \ {0}, w % r = 0,
         NEW p \in Int, NEW c \in Int, Distance(p, c, w) + (c % r) < r
  PROVE  p % r = (c % r) + Distance(p, c, w)
  <1> DEFINE x == p - c
             d == x % w
             s == c % r
  <1>1. x \in Int /\ d \in 0 .. (w - 1) /\ s \in 0 .. (r - 1) /\ p = x + c
    <2>1. x \in Int /\ p = x + c
      OBVIOUS
    <2> HIDE DEF x
    <2> QED BY <2>1, Division
  <1>2. Distance(p, c, w) = d /\ d + s < r
    BY DEF Distance
  <1>3. d % r = x % r
    BY <1>1, MaskOfWrapped
  <1> HIDE DEF x
  <1>4. ((x % r) + c) % r = p % r
    BY <1>1, RemainderPlus
  <1>5. ((d % r) + c) % r = (d + c) % r
    <2>1. d \in Int
      BY <1>1
    <2> HIDE DEF d
    <2> QED BY <2>1, RemainderPlus
  <1>6. (c + d) % r = s + d
    <2>1. s + d \in 0 .. (r - 1) /\ d \in Int
      BY <1>1, <1>2
    <2> HIDE DEF d
    <2> QED BY <2>1, RemainderShift
  <1>7. d + c = c + d
    BY <1>1
  <1> QED BY <1>2, <1>3, <1>4, <1>5, <1>6, <1>7

=============================================================================
