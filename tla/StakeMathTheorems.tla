-------------------------- MODULE StakeMathTheorems --------------------------
(***************************************************************************)
(* The pool arithmetic for every width, scale and radix: the digit shift   *)
(* exists and always makes the token amount fit, weights stay within their *)
(* pool's bounds, and a refresh never promises more than the vault got.    *)
(***************************************************************************)
EXTENDS StakeMath, ArithmeticTheorems

LEMMA SquareIsPositive == SCALE_FACTOR_BASE_SQUARED \in Nat \ {0}
BY ScaleAssumption, SMT DEF SCALE_FACTOR_BASE_SQUARED

-----------------------------------------------------------------------------
\* max_weight digits are always enough, so the loop of state.rs:48-58 ends.
LEMMA SomeShiftFits ==
    ASSUME NEW max_weight \in Nat
    PROVE  ShiftFits(max_weight, max_weight)
<1> DEFINE P == Power(RADIX, max_weight)
           A == max_weight * U64_MAX
           Q == A \div SCALE_FACTOR_BASE
<1>1. P \in Nat \ {0} /\ max_weight <= P
  BY RadixAssumption, PowerExceedsExponent, SMT
<1>2. A \in Nat /\ A <= P * U64_MAX
  BY <1>1, WidthAssumption, ProductMonotone, SMT
<1>3. Q \in Nat /\ Q <= A
  <2>1. A <= SCALE_FACTOR_BASE * A
    BY <1>2, ScaleAssumption, SMT
  <2> QED BY <1>2, <2>1, ScaleAssumption, DivBounds, DivBelow
<1>4. Q \div P <= U64_MAX
  <2>1. Q <= P * U64_MAX /\ U64_MAX \in Nat
    BY <1>1, <1>2, <1>3, WidthAssumption, SMT
  <2> HIDE DEF Q, P
  <2> QED BY <1>1, <1>3, <2>1, DivBelow
<1> QED BY <1>4 DEF ShiftFits

\* The digit shift is the least shift that fits.
LEMMA DigitShiftFits ==
    ASSUME NEW max_weight \in Nat
    PROVE  LET k == DigitShiftByMaxScalar(max_weight)
           IN  /\ k \in Nat
               /\ ShiftFits(max_weight, k)
               /\ \A j \in 0..(k - 1) : ~ ShiftFits(max_weight, j)
<1> DEFINE T == {k \in Nat : ShiftFits(max_weight, k)}
<1>1. T \in SUBSET Nat /\ max_weight \in T
  BY SomeShiftFits
<1>2. PICK k \in T : \A j \in T : k <= j
  <2> HIDE DEF T
  <2> QED BY <1>1, LeastElement
<1>3. k \in 0..max_weight /\ \A j \in 0..(k - 1) : ~ ShiftFits(max_weight, j)
  BY <1>1, <1>2, SMT
<1>4. \E l \in 0..max_weight : /\ ShiftFits(max_weight, l)
                               /\ \A j \in 0..(l - 1) : ~ ShiftFits(max_weight, j)
  BY <1>2, <1>3
<1> QED BY <1>4, SMT DEF DigitShiftByMaxScalar

LEMMA TokenAmountNat ==
    ASSUME NEW stake \in Nat, NEW max_weight \in Nat
    PROVE  TokenAmountFromStake(stake, max_weight) \in Nat
<1>1. Power(RADIX, DigitShiftByMaxScalar(max_weight)) \in Nat \ {0}
  BY DigitShiftFits, RadixAssumption, PowerExceedsExponent, SMT
<1> QED BY <1>1, ScaleAssumption, DivBounds DEF TokenAmountFromStake

\* The try_into of state.rs:358 never panics: no deposit of a u64 amount at a
\* weight up to max_weight is worth more stake mint tokens than a u64 holds.
LEMMA TokenAmountBounded ==
    ASSUME NEW max_weight \in Nat, NEW weight \in 0..max_weight, NEW n \in 0..U64_MAX
    PROVE  TokenAmountFromStake(EffectiveStakeAmount(weight, n), max_weight) <= U64_MAX
<1> DEFINE P == Power(RADIX, DigitShiftByMaxScalar(max_weight))
           E == n * weight
           M == max_weight * U64_MAX
<1>1. P \in Nat \ {0}
  BY DigitShiftFits, RadixAssumption, PowerExceedsExponent, SMT
<1>2. E \in Nat /\ M \in Nat /\ E <= M
  BY WidthAssumption, ProductMonotone, SMT
<1>3. /\ E \div SCALE_FACTOR_BASE \in Nat
      /\ M \div SCALE_FACTOR_BASE \in Nat
      /\ E \div SCALE_FACTOR_BASE <= M \div SCALE_FACTOR_BASE
  <2> HIDE DEF E, M
  <2> QED BY <1>2, ScaleAssumption, DivBounds, DivMonotone
<1>4. (E \div SCALE_FACTOR_BASE) \div P <= (M \div SCALE_FACTOR_BASE) \div P
  <2> HIDE DEF E, M, P
  <2> QED BY <1>1, <1>3, DivMonotone
<1>5. (M \div SCALE_FACTOR_BASE) \div P <= U64_MAX
  BY DigitShiftFits DEF ShiftFits
<1>6. (E \div SCALE_FACTOR_BASE) \div P \in Nat /\ (M \div SCALE_FACTOR_BASE) \div P \in Nat
  <2> HIDE DEF E, M, P
  <2> QED BY <1>1, <1>3, DivBounds
<1>7. (E \div SCALE_FACTOR_BASE) \div P <= U64_MAX
  <2> HIDE DEF E, M, P
  <2> QED BY <1>4, <1>5, <1>6, WidthAssumption, SMT
<1> QED BY <1>7 DEF TokenAmountFromStake, EffectiveStakeAmount

\* A deposit at a weight up to max_weight is worth at most as many stake mint
\* tokens as were deposited. The shift is chosen for all u64 tokens at once, which
\* leaves a slack of one part in U64_MAX; no smaller deposit makes a whole token
\* of it.
LEMMA TokenAmountWithinDeposit ==
    ASSUME NEW max_weight \in Nat, NEW weight \in 0..max_weight, NEW n \in 0..U64_MAX
    PROVE  TokenAmountFromStake(EffectiveStakeAmount(weight, n), max_weight) <= n
<1> DEFINE P == Power(RADIX, DigitShiftByMaxScalar(max_weight))
           S == SCALE_FACTOR_BASE
           U == U64_MAX
           E == n * weight
           M == max_weight * U
           SP == S * P
<1>1. /\ P \in Nat \ {0} /\ S \in Nat \ {0} /\ U \in Nat \ {0}
      /\ SP \in Nat \ {0} /\ n \in Nat /\ n <= U
  <2>1. P \in Nat \ {0}
    BY DigitShiftFits, RadixAssumption, PowerExceedsExponent, SMT
  <2>2. S \in Nat \ {0} /\ U \in Nat \ {0} /\ n \in Nat /\ n <= U
    BY ScaleAssumption, WidthAssumption, SMT
  <2> HIDE DEF P, S, U
  <2> QED BY <2>1, <2>2, SMT
<1>2. E \in Nat /\ M \in Nat
  BY <1>1, SMT
\* All tokens at the largest weight come to less than one token more.
<1>3. M < SP * (U + 1)
  <2>1. (M \div S) \div P <= U
    BY DigitShiftFits DEF ShiftFits
  <2> HIDE DEF M, P, S, U, SP
  <2>2. M \div S \in Nat /\ M < S * (M \div S) + S
    BY <1>1, <1>2, DivBounds
  <2>3. (M \div S) \div P \in Nat /\ M \div S < P * ((M \div S) \div P) + P
    BY <1>1, <2>2, DivBounds
  <2>4. P * ((M \div S) \div P) <= P * U
    BY <1>1, <2>1, <2>3, ProductMonotone, SMT
  <2>5. M \div S + 1 <= P * (U + 1)
    BY <1>1, <2>2, <2>3, <2>4, SMT
  <2>6. S * (M \div S + 1) <= S * (P * (U + 1))
    BY <1>1, <2>2, <2>5, ProductMonotone, SMT
  <2>7. S * (P * (U + 1)) = SP * (U + 1) /\ S * (M \div S + 1) = S * (M \div S) + S
    BY <1>1, <2>2, SMT DEF SP
  <2> QED BY <1>1, <1>2, <2>2, <2>6, <2>7, SMT
<1> SUFFICES ASSUME n + 1 <= (E \div S) \div P PROVE FALSE
  <2>1. (E \div S) \div P \in Nat
    <3> HIDE DEF E, S, P
    <3> QED BY <1>1, <1>2, DivBounds
  <2>2. ~ (n + 1 <= (E \div S) \div P) => (E \div S) \div P <= n
    <3> HIDE DEF E, S, P
    <3> QED BY <1>1, <2>1, SMT
  <2> QED BY <2>2 DEF TokenAmountFromStake, EffectiveStakeAmount
\* So n of them, at a weight that would make n + 1 tokens, come to both.
<1>4. SP * (n + 1) <= E
  <2> HIDE DEF E, S, P, SP
  <2>1. E \div S \in Nat /\ S * (E \div S) <= E
    BY <1>1, <1>2, DivBounds
  <2>2. (E \div S) \div P \in Nat /\ P * ((E \div S) \div P) <= E \div S
    BY <1>1, <2>1, DivBounds
  <2>3. P * (n + 1) <= P * ((E \div S) \div P)
    BY <1>1, <2>2, ProductMonotone, SMT
  <2>4. P * (n + 1) <= E \div S /\ P * (n + 1) \in Nat
    BY <1>1, <2>1, <2>2, <2>3, SMT
  <2>5. S * (P * (n + 1)) <= S * (E \div S)
    BY <1>1, <2>1, <2>4, ProductMonotone, SMT
  <2>6. S * (P * (n + 1)) = SP * (n + 1)
    BY <1>1, SMT DEF SP
  <2> QED BY <1>1, <1>2, <2>1, <2>4, <2>5, <2>6, SMT
<1>5. E * U <= n * M
  <2>1. n * weight <= n * max_weight /\ n * max_weight \in Nat
    BY <1>1, ProductMonotone, SMT
  <2>2. (n * weight) * U <= (n * max_weight) * U
    BY <1>1, <1>2, <2>1, ProductMonotone, SMT
  <2>3. (n * max_weight) * U = n * (max_weight * U)
    BY <1>1, SMT
  <2> QED BY <2>2, <2>3
<1> HIDE DEF E, M, P, S, U, SP
<1>6. SP * (n + 1) * U <= E * U
  BY <1>1, <1>2, <1>4, ProductMonotone, SMT
<1>7. CASE n = 0
  <2>1. n * M = 0
    BY <1>2, <1>7, SMT
  <2>2. SP * (n + 1) * U = SP * U /\ SP * U > 0
    BY <1>1, <1>7, SMT
  <2> QED BY <1>1, <1>2, <1>5, <1>6, <2>1, <2>2, SMT
<1>8. CASE n > 0
  <2>1. n * M < n * (SP * (U + 1))
    BY <1>1, <1>2, <1>3, <1>8, SMT
  <2>2. n * (SP * (U + 1)) = SP * n * U + SP * n
    BY <1>1, SMT
  <2>3. SP * (n + 1) * U = SP * n * U + SP * U
    BY <1>1, SMT
  <2>4. SP * n <= SP * U
    BY <1>1, ProductMonotone, SMT
  <2>5. SP * n \in Nat /\ SP * U \in Nat /\ SP * n * U \in Nat /\ E * U \in Nat /\ n * M \in Nat
    BY <1>1, <1>2, SMT
  <2> QED BY <1>5, <1>6, <2>1, <2>2, <2>3, <2>4, <2>5, SMT
<1> QED BY <1>1, <1>7, <1>8, SMT

-----------------------------------------------------------------------------
\* The normalized weight of a duration exceeding the minimum by e.
Normalized(e, span) == (e * SCALE_FACTOR_BASE) \div span

LEMMA NormalizedMonotone ==
    ASSUME NEW span \in Nat \ {0}, NEW d \in Nat, NEW e \in Nat, d <= e
    PROVE  /\ Normalized(d, span) \in Nat
           /\ Normalized(e, span) \in Nat
           /\ Normalized(d, span) <= Normalized(e, span)
<1>1. /\ d * SCALE_FACTOR_BASE \in Nat /\ e * SCALE_FACTOR_BASE \in Nat
      /\ d * SCALE_FACTOR_BASE <= e * SCALE_FACTOR_BASE
  BY ScaleAssumption, ProductMonotone, SMT
<1> QED BY <1>1, DivBounds, DivMonotone DEF Normalized

LEMMA NormalizedAtMostScale ==
    ASSUME NEW span \in Nat \ {0}, NEW e \in 0..span
    PROVE  Normalized(e, span) \in 0..SCALE_FACTOR_BASE
<1>1. e * SCALE_FACTOR_BASE \in Nat /\ e * SCALE_FACTOR_BASE <= span * SCALE_FACTOR_BASE
  BY ScaleAssumption, ProductMonotone, SMT
<1>2. Normalized(e, span) <= SCALE_FACTOR_BASE
  BY <1>1, ScaleAssumption, DivBelow DEF Normalized
<1>3. Normalized(e, span) \in Nat
  BY NormalizedMonotone, SMT
<1> QED BY <1>2, <1>3, ScaleAssumption, SMT

\* What a normalized weight x adds to the base weight of a pool that rises by rise.
LEMMA RiseMonotone ==
    ASSUME NEW rise \in Nat, NEW x \in Nat, NEW y \in Nat, x <= y
    PROVE  /\ (x * rise) \div SCALE_FACTOR_BASE \in Nat
           /\ (y * rise) \div SCALE_FACTOR_BASE \in Nat
           /\ (x * rise) \div SCALE_FACTOR_BASE <= (y * rise) \div SCALE_FACTOR_BASE
           /\ y <= SCALE_FACTOR_BASE => (y * rise) \div SCALE_FACTOR_BASE <= rise
<1>1. x * rise \in Nat /\ y * rise \in Nat /\ x * rise <= y * rise
  BY ProductMonotone, SMT
<1>2. ASSUME y <= SCALE_FACTOR_BASE PROVE y * rise <= SCALE_FACTOR_BASE * rise
  BY <1>2, ScaleAssumption, ProductMonotone, SMT
<1> QED BY <1>1, <1>2, ScaleAssumption, DivBounds, DivMonotone, DivBelow

LEMMA StakeWeightValue ==
    ASSUME NEW p, IsPool(p), NEW d \in Nat, p.min_duration <= d,
           p.min_duration < p.max_duration
    PROVE  LET span == p.max_duration - p.min_duration
               x    == Normalized(Least(d - p.min_duration, span), span)
           IN  /\ span \in Nat \ {0}
               /\ Least(d - p.min_duration, span) \in 0..span
               /\ x \in 0..SCALE_FACTOR_BASE
               /\ StakeWeight(p, d) = p.base_weight
                      + (x * (p.max_weight - p.base_weight)) \div SCALE_FACTOR_BASE
<1> DEFINE span == p.max_duration - p.min_duration
           e    == Least(d - p.min_duration, span)
           x    == Normalized(e, span)
           rise == p.max_weight - p.base_weight
           add  == (x * rise) \div SCALE_FACTOR_BASE
<1>1. span \in Nat \ {0} /\ rise \in Nat /\ p.base_weight \in Nat
  BY ScaleAssumption, SMT DEF IsPool
<1>2. e \in 0..span
  BY <1>1, SMT DEF IsPool, Least
<1>3. x \in 0..SCALE_FACTOR_BASE
  <2> HIDE DEF span, e
  <2> QED BY <1>1, <1>2, NormalizedAtMostScale
<1>4. add \in Nat
  <2> HIDE DEF x, rise
  <2>1. x \in Nat /\ x <= x
    BY <1>3, ScaleAssumption, SMT
  <2> QED BY <1>1, <2>1, RiseMonotone
<1>5. StakeWeight(p, d) = Greatest(p.base_weight + add, p.base_weight)
  BY <1>1, SMT DEF StakeWeight, Normalized
<1>6. Greatest(p.base_weight + add, p.base_weight) = p.base_weight + add
  <2> HIDE DEF add
  <2> QED BY <1>1, <1>4, SMT DEF Greatest
<1> QED BY <1>1, <1>2, <1>3, <1>5, <1>6

\* Two truncated divisions by b and then s stay below the exact quotient, by less
\* than one unit and the rise over b. Nothing is divided in the statement.
LEMMA TruncatedLine ==
    ASSUME NEW s \in Nat \ {0}, NEW b \in Nat \ {0}, NEW e \in Nat, NEW rise \in Nat,
           NEW x, x = (e * s) \div b,
           NEW a, a = (x * rise) \div s
    PROVE  /\ x \in Nat /\ a \in Nat
           /\ a * b <= e * rise
           /\ (e * rise) * s < ((a + 1) * b) * s + rise * b
<1>1. e * s \in Nat /\ x \in Nat /\ b * x <= e * s /\ e * s <= b * x + b
  BY DivBounds, SMT
<1>2. x * rise \in Nat /\ a \in Nat /\ s * a <= x * rise /\ x * rise + 1 <= s * a + s
  <2>1. x * rise \in Nat
    BY <1>1, SMT
  <2>2. a \in Nat /\ s * a <= x * rise /\ x * rise < s * a + s
    BY <2>1, DivBounds
  <2> QED BY <2>1, <2>2, SMT
<1>3. (b * x) * rise <= (e * s) * rise
  BY <1>1, ProductMonotone, SMT
<1>4. (e * s) * rise <= (b * x + b) * rise
  BY <1>1, ProductMonotone, SMT
<1>5. (s * a) * b <= (x * rise) * b
  BY <1>2, ProductMonotone, SMT
<1>6. (x * rise + 1) * b <= (s * a + s) * b
  <2>1. x * rise + 1 \in Nat /\ s * a + s \in Nat
    BY <1>2, SMT
  <2> QED BY <1>2, <2>1, ProductMonotone, SMT
<1>7. a * b <= e * rise
  <2> DEFINE u == a * b
             v == e * rise
  <2>1. u \in Nat /\ v \in Nat
    BY <1>2, SMT
  <2>2. s * u <= s * v
    <3>1. s * u = (s * a) * b /\ s * v = (e * s) * rise /\ (x * rise) * b = (b * x) * rise
      BY <1>1, <1>2, SMT
    <3> QED BY <1>1, <1>2, <1>3, <1>5, <3>1, SMT
  <2> HIDE DEF u, v
  <2>3. ASSUME v + 1 <= u PROVE FALSE
    <3>1. s * (v + 1) <= s * u
      BY <2>1, <2>3, ProductMonotone, SMT
    <3> QED BY <2>1, <2>2, <3>1, SMT
  <2>4. u <= v
    BY <2>1, <2>3, SMT
  <2> QED BY <2>4 DEF u, v
<1>8. (e * rise) * s < ((a + 1) * b) * s + rise * b
  <2>1. (e * rise) * s <= (x * rise) * b + rise * b
    BY <1>1, <1>4, SMT
  <2>2. (x * rise) * b + b <= ((a + 1) * b) * s
    BY <1>1, <1>2, <1>6, SMT
  <2> DEFINE p == (e * rise) * s
             q == (x * rise) * b
             t == ((a + 1) * b) * s
             w == rise * b
  <2>3. p \in Nat /\ q \in Nat /\ t \in Nat /\ w \in Nat
    BY <1>1, <1>2, SMT
  <2> HIDE DEF p, q, t, w
  <2>4. p <= q + w /\ q + b <= t
    BY <2>1, <2>2 DEF p, q, t, w
  <2>5. p < t + w
    BY <2>3, <2>4, SMT
  <2> QED BY <2>5 DEF p, q, t, w
<1> QED BY <1>1, <1>2, <1>7, <1>8

\* The weight of an accepted duration follows the line between base and max
\* weight.
LEMMA StakeWeightFollowsLine ==
    ASSUME NEW p, IsPool(p), NEW d \in Nat, p.min_duration <= d
    PROVE  LET span == p.max_duration - p.min_duration
               rise == p.max_weight - p.base_weight
               line == p.base_weight * span + Least(d - p.min_duration, span) * rise
               w    == StakeWeight(p, d)
           IN  /\ w * span <= line
               /\ span > 0 => line * SCALE_FACTOR_BASE
                                < (w + 1) * span * SCALE_FACTOR_BASE + rise * span
<1> DEFINE span == p.max_duration - p.min_duration
           rise == p.max_weight - p.base_weight
           base == p.base_weight
           e    == Least(d - p.min_duration, span)
           x    == Normalized(e, span)
           a    == (x * rise) \div SCALE_FACTOR_BASE
           w    == StakeWeight(p, d)
<1>1. span \in Nat /\ rise \in Nat /\ base \in Nat
  BY ScaleAssumption, SMT DEF IsPool
<1>2. CASE span = 0
  <2>1. e = 0 /\ w = base
    BY <1>2, SMT DEF IsPool, Least, StakeWeight
  <2> HIDE DEF w, e, span, rise, base
  <2>2. w * span <= base * span + e * rise
    BY <1>1, <1>2, <2>1, SMT
  <2> QED BY <1>2, <2>2 DEF w, e, span, rise, base
<1>3. CASE span # 0
  <2>1. p.min_duration < p.max_duration
    BY <1>1, <1>3, SMT DEF IsPool
  <2>2. /\ span \in Nat \ {0} /\ e \in 0..span
        /\ w = base + a
    BY <2>1, StakeWeightValue
  <2>3. x = (e * SCALE_FACTOR_BASE) \div span
    BY DEF Normalized
  <2> HIDE DEF w, e, span, rise, base, x
  <2>4. e \in Nat
    BY <2>2, SMT
  <2>5. /\ a \in Nat
        /\ a * span <= e * rise
        /\ (e * rise) * SCALE_FACTOR_BASE
              < ((a + 1) * span) * SCALE_FACTOR_BASE + rise * span
    BY <1>1, <2>2, <2>3, <2>4, ScaleAssumption, TruncatedLine
  <2> HIDE DEF a
  <2>6. w * span = base * span + a * span
    BY <1>1, <2>2, <2>5, SMT
  <2>7. (w + 1) * span = base * span + (a + 1) * span
    BY <1>1, <2>2, <2>5, SMT
  <2>8. w * span <= base * span + e * rise
    BY <1>1, <2>4, <2>5, <2>6, SMT
  <2>9. (base * span + e * rise) * SCALE_FACTOR_BASE
            < (w + 1) * span * SCALE_FACTOR_BASE + rise * span
    <3> DEFINE u == base * span
               v == e * rise
               t == (a + 1) * span
               r == rise * span
    <3>1. u \in Nat /\ v \in Nat /\ t \in Nat /\ r \in Nat /\ (w + 1) * span = u + t
      BY <1>1, <2>2, <2>4, <2>5, <2>7, SMT
    <3>2. v * SCALE_FACTOR_BASE < t * SCALE_FACTOR_BASE + r
      BY <2>5
    <3> HIDE DEF u, v, t, r
    <3>3. (u + v) * SCALE_FACTOR_BASE < (u + t) * SCALE_FACTOR_BASE + r
      BY <3>1, <3>2, ScaleAssumption, SMT
    <3> QED BY <3>1, <3>3 DEF u, v, r
  <2> QED BY <2>8, <2>9 DEF w, e, span, rise, base
<1> QED BY <1>2, <1>3

\* The weight of an accepted duration lies between the base and the max weight.
LEMMA StakeWeightInRange ==
    ASSUME NEW p, IsPool(p), NEW d \in Nat, p.min_duration <= d
    PROVE  /\ StakeWeight(p, d) \in Nat
           /\ p.base_weight <= StakeWeight(p, d)
           /\ StakeWeight(p, d) <= p.max_weight
<1>1. CASE p.min_duration = p.max_duration
  BY <1>1, ScaleAssumption, SMT DEF StakeWeight, IsPool
<1>2. CASE p.min_duration < p.max_duration
  <2> DEFINE span == p.max_duration - p.min_duration
             x    == Normalized(Least(d - p.min_duration, span), span)
             rise == p.max_weight - p.base_weight
             add  == (x * rise) \div SCALE_FACTOR_BASE
  <2>1. x \in 0..SCALE_FACTOR_BASE /\ StakeWeight(p, d) = p.base_weight + add
    BY <1>2, StakeWeightValue
  <2>2. rise \in Nat /\ p.base_weight \in Nat /\ p.max_weight = p.base_weight + rise
    BY ScaleAssumption, SMT DEF IsPool
  <2>3. add \in Nat /\ add <= rise
    <3> HIDE DEF x, rise
    <3>1. x \in Nat /\ x <= x /\ x <= SCALE_FACTOR_BASE
      BY <2>1, ScaleAssumption, SMT
    <3> QED BY <2>2, <3>1, RiseMonotone
  <2> HIDE DEF add, rise
  <2> QED BY <2>1, <2>2, <2>3, SMT
<1> QED BY <1>1, <1>2, SMT DEF IsPool

\* From the longest duration on neither division truncates.
LEMMA StakeWeightAtMaximum ==
    ASSUME NEW p, IsPool(p), NEW d \in Nat, p.min_duration < p.max_duration,
           p.max_duration <= d
    PROVE  StakeWeight(p, d) = p.max_weight
<1> DEFINE span == p.max_duration - p.min_duration
           rise == p.max_weight - p.base_weight
<1>1. /\ span \in Nat \ {0} /\ rise \in Nat /\ p.base_weight \in Nat
      /\ p.max_weight = p.base_weight + rise
      /\ Least(d - p.min_duration, span) = span
  BY ScaleAssumption, SMT DEF IsPool, Least
<1>2. StakeWeight(p, d) = p.base_weight + (Normalized(span, span) * rise) \div SCALE_FACTOR_BASE
  BY <1>1, StakeWeightValue, SMT DEF IsPool
<1> HIDE DEF span, rise
<1>3. Normalized(span, span) = SCALE_FACTOR_BASE
  BY <1>1, ScaleAssumption, SMT DEF Normalized
<1>4. (SCALE_FACTOR_BASE * rise) \div SCALE_FACTOR_BASE = rise
  BY <1>1, ScaleAssumption, SMT
<1> QED BY <1>1, <1>2, <1>3, <1>4

\* A longer lockup never weighs less.
LEMMA StakeWeightMonotone ==
    ASSUME NEW p, IsPool(p), NEW d \in Nat, NEW e \in Nat, p.min_duration <= d, d <= e
    PROVE  StakeWeight(p, d) <= StakeWeight(p, e)
<1>1. CASE p.min_duration = p.max_duration
  BY <1>1, ScaleAssumption, SMT DEF StakeWeight, IsPool
<1>2. CASE p.min_duration < p.max_duration
  <2> DEFINE span == p.max_duration - p.min_duration
             u    == Least(d - p.min_duration, span)
             v    == Least(e - p.min_duration, span)
             x    == Normalized(u, span)
             y    == Normalized(v, span)
             rise == p.max_weight - p.base_weight
             addx == (x * rise) \div SCALE_FACTOR_BASE
             addy == (y * rise) \div SCALE_FACTOR_BASE
  <2>0. p.min_duration <= e
    BY SMT DEF IsPool
  <2>1. /\ span \in Nat \ {0} /\ u \in 0..span /\ v \in 0..span
        /\ StakeWeight(p, d) = p.base_weight + addx
        /\ StakeWeight(p, e) = p.base_weight + addy
    BY <1>2, <2>0, StakeWeightValue
  <2>2. rise \in Nat /\ p.base_weight \in Nat
    BY ScaleAssumption, SMT DEF IsPool
  <2>3. u <= v /\ u \in Nat /\ v \in Nat
    BY <2>1, SMT DEF Least, IsPool
  <2>4. x \in Nat /\ y \in Nat /\ x <= y
    <3> HIDE DEF span, u, v
    <3> QED BY <2>1, <2>3, NormalizedMonotone
  <2>5. addx \in Nat /\ addy \in Nat /\ addx <= addy
    <3> HIDE DEF x, y, rise
    <3> QED BY <2>2, <2>4, RiseMonotone
  <2> HIDE DEF addx, addy
  <2> QED BY <2>1, <2>2, <2>5, SMT
<1> QED BY <1>1, <1>2, SMT DEF IsPool

-----------------------------------------------------------------------------
\* A refresh promises no more than the vault received, over all the stake.
LEMMA AdditionalRewardsBound ==
    ASSUME NEW diff \in Nat, NEW stake \in Nat \ {0}
    PROVE  /\ AdditionalRewards(diff, stake) \in Nat
           /\ stake * AdditionalRewards(diff, stake) <= diff * SCALE_FACTOR_BASE_SQUARED
<1>1. diff * SCALE_FACTOR_BASE_SQUARED \in Nat
  BY SquareIsPositive, SMT
<1> QED BY <1>1, DivBounds DEF AdditionalRewards

\* A claim takes no more than what the receipt accrued.
LEMMA ClaimableBound ==
    ASSUME NEW rewards \in Nat, NEW claimed \in 0..rewards, NEW stake \in Nat
    PROVE  /\ ClaimableAmount(rewards, claimed, stake) \in Nat
           /\ SCALE_FACTOR_BASE_SQUARED * ClaimableAmount(rewards, claimed, stake)
                  <= stake * (rewards - claimed)
<1>1. (rewards - claimed) * stake \in Nat /\ (rewards - claimed) * stake = stake * (rewards - claimed)
  BY SMT
<1> QED BY <1>1, SquareIsPositive, DivBounds DEF ClaimableAmount

\* A claim grows with the accumulator.
LEMMA ClaimableMonotone ==
    ASSUME NEW rewards \in Nat, NEW more \in Nat, NEW claimed \in 0..rewards,
           NEW stake \in Nat, rewards <= more
    PROVE  ClaimableAmount(rewards, claimed, stake) <= ClaimableAmount(more, claimed, stake)
<1>1. /\ (rewards - claimed) * stake \in Nat /\ (more - claimed) * stake \in Nat
      /\ (rewards - claimed) * stake <= (more - claimed) * stake
  BY ProductMonotone, SMT
<1> QED BY <1>1, SquareIsPositive, DivMonotone DEF ClaimableAmount

=============================================================================
