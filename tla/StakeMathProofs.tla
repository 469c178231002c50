--------------------------- MODULE StakeMathProofs ---------------------------
(***************************************************************************)
(* The properties of the pool arithmetic, the program's and the client's,  *)
(* for every scale, width, radix and set of durations.                     *)
(***************************************************************************)
EXTENDS ClientMath, StakeMathTheorems

\* The inputs: an accepted pool, a duration it accepts, a u64 amount.
InputOK ==
    /\ IsPool(pool)
    /\ duration \in Durations
    /\ duration \in Nat
    /\ pool.min_duration <= duration
    /\ amount \in 0..U64_MAX

\* The walk through the inputs never leaves them.
THEOREM InputsOK == Spec => []InputOK
<1>1. Init => InputOK
  BY DurationsAssumption, WidthAssumption, SMT DEF Init, InputOK, ValidPools
<1>2. InputOK /\ [NextAmount \/ FirstAmount]_inputVars => InputOK'
  BY WidthAssumption, SMT DEF InputOK, NextAmount, FirstAmount, inputVars, IsPool
<1> QED BY <1>1, <1>2, PTL DEF Spec

\* A longer lockup never weighs less, in any pool InitializeStakePool accepts
\* (state.rs:266-304).
THEOREM LongerLocksWeighMore == Spec => []LongerNeverLighter
<1>1. InputOK => LongerNeverLighter
  <2> SUFFICES ASSUME InputOK, NEW d \in Durations, d >= duration
               PROVE  StakeWeight(pool, d) >= StakeWeight(pool, duration)
    BY DEF LongerNeverLighter, Weight
  <2>1. d \in Nat /\ duration \in Nat /\ duration <= d /\ IsPool(pool)
        /\ pool.min_duration <= duration /\ pool.min_duration <= d
    BY DurationsAssumption, SMT DEF InputOK, IsPool
  <2>2. StakeWeight(pool, duration) <= StakeWeight(pool, d)
    BY <2>1, StakeWeightMonotone
  <2>3. StakeWeight(pool, duration) \in Nat /\ StakeWeight(pool, d) \in Nat
    BY <2>1, StakeWeightInRange
  <2> QED BY <2>2, <2>3, SMT
<1> QED BY <1>1, InputsOK, PTL

\* The weight follows the line from base to max weight, below it by less than the
\* two truncations cost, and reaches max weight (state.rs:284-301).
THEOREM WeightsFollowLine == Spec => []WeightFollowsLine
<1>1. InputOK => WeightFollowsLine
  <2> SUFFICES ASSUME InputOK PROVE WeightFollowsLine
    OBVIOUS
  <2>1. ASSUME pool.max_duration - pool.min_duration > 0, duration >= pool.max_duration
        PROVE  StakeWeight(pool, duration) = pool.max_weight
    <3>1. pool.min_duration < pool.max_duration /\ pool.max_duration <= duration
      BY <2>1, SMT DEF InputOK, IsPool
    <3> QED BY <3>1, StakeWeightAtMaximum DEF InputOK
  <2> QED BY <2>1, StakeWeightFollowsLine DEF InputOK, WeightFollowsLine, Weight
<1> QED BY <1>1, InputsOK, PTL

\* The stake mint tokens of every deposit of a u64 amount fit a u64, and the
\* digit shift that makes them fit is the least (state.rs:44-60, 351-360).
THEOREM TokenAmountsFit == Spec => []TokenAmountFits
<1>1. InputOK => TokenAmountFits
  <2> SUFFICES ASSUME InputOK PROVE TokenAmountFits
    OBVIOUS
  <2>1. /\ pool.max_weight \in Nat
        /\ StakeWeight(pool, duration) \in 0..pool.max_weight
    BY StakeWeightInRange, SMT DEF InputOK, IsPool
  <2>2. TokenAmountFromStake(EffectiveStakeAmount(StakeWeight(pool, duration), amount),
                             pool.max_weight) <= U64_MAX
    BY <2>1, TokenAmountBounded DEF InputOK
  <2> DEFINE shift == DigitShiftByMaxScalar(pool.max_weight)
  <2>3. shift \in Nat /\ \A j \in 0..(shift - 1) : ~ ShiftFits(pool.max_weight, j)
    BY <2>1, DigitShiftFits
  <2>4. shift > 0 => ~ ShiftFits(pool.max_weight, shift - 1)
    <3> HIDE DEF shift
    <3>1. shift > 0 => shift - 1 \in 0..(shift - 1)
      BY <2>3, SMT
    <3> QED BY <2>3, <3>1
  <2> QED BY <2>2, <2>4 DEF TokenAmountFits, Weight
<1> QED BY <1>1, InputsOK, PTL

-----------------------------------------------------------------------------
\* For a lockup the pool offers the client's weight is the program's
\* (utils.ts:196-217, state.rs:266-304).
THEOREM ClientWeightsAgree == Spec => []ClientWeightAgrees
<1>1. InputOK => ClientWeightAgrees
  <2> SUFFICES ASSUME InputOK, duration <= pool.max_duration
               PROVE  ClientWeight(duration) = StakeWeight(pool, duration)
    BY DEF ClientWeightAgrees, Weight
  <2> DEFINE span == pool.max_duration - pool.min_duration
             over == duration - pool.min_duration
             rise == pool.max_weight - pool.base_weight
             norm == (over * SCALE_FACTOR_BASE) \div span
  <2>1. /\ span \in Nat /\ over \in 0..span /\ rise \in Nat
        /\ pool.min_duration \in Nat /\ pool.max_duration \in Nat
        /\ Least(over, span) = over
    BY ScaleAssumption, SMT DEF InputOK, IsPool, Least
  <2>2. CASE span = 0
    BY <2>2 DEF ClientWeight, CalculateStakeWeight, StakeWeight
  <2>3. CASE span # 0
    <3>1. Truncated(over * SCALE_FACTOR_BASE, span) = norm
      <4>1. over * SCALE_FACTOR_BASE >= 0
        BY <2>1, ScaleAssumption, SMT
      <4> QED BY <4>1 DEF Truncated
    <3>2. norm \in Nat
      BY <2>1, <2>3, NormalizedAtMostScale DEF Normalized
    <3>3. Truncated(norm * rise, SCALE_FACTOR_BASE) = (norm * rise) \div SCALE_FACTOR_BASE
      <4>1. norm * rise >= 0
        <5> HIDE DEF norm, rise
        <5> QED BY <2>1, <3>2, SMT
      <4> QED BY <4>1 DEF Truncated
    <3> QED BY <2>1, <2>3, <3>1, <3>3 DEF ClientWeight, CalculateStakeWeight, StakeWeight
  <2> QED BY <2>2, <2>3
<1> QED BY <1>1, InputsOK, PTL

\* The client's capped digit shift and the program's saturating subtraction give
\* the stake mint the same decimals (utils.ts:23-39, initialize_stake_pool.rs:48).
THEOREM ClientDecimalsAgree == Spec => []DecimalsAgree
<1>1. InputOK => DecimalsAgree
  <2> SUFFICES ASSUME InputOK, NEW decimals \in 0..MaxDecimals
               PROVE  decimals - GetDigitShift(pool.max_weight, decimals)
                          = StakeMintDecimals(decimals, pool.max_weight)
    BY DEF DecimalsAgree
  <2> DEFINE w     == pool.max_weight
             shift == DigitShiftByMaxScalar(w)
             P(k)  == /\ ShiftFits(w, k) \/ k = decimals
                      /\ \A j \in 0..(k - 1) : ~ ShiftFits(w, j)
             cap   == Least(shift, decimals)
  <2>1. w \in Nat /\ decimals \in Nat
    BY DecimalsAssumption, SMT DEF InputOK, IsPool
  <2>2. /\ shift \in Nat /\ ShiftFits(w, shift)
        /\ \A j \in 0..(shift - 1) : ~ ShiftFits(w, j)
    BY <2>1, DigitShiftFits
  <2> HIDE DEF w, shift
  <2>3. cap \in 0..decimals /\ P(cap)
    BY <2>1, <2>2, SMT DEF Least
  <2>4. ASSUME NEW k \in 0..decimals, P(k) PROVE k = cap
    <3>1. ~ (k < cap)
      <4> SUFFICES ASSUME k < cap PROVE FALSE
        OBVIOUS
      <4>1. k \in 0..(shift - 1) /\ k # decimals
        BY <2>1, <2>2, SMT DEF Least
      <4> QED BY <2>2, <2>4, <4>1
    <3>2. ~ (cap < k)
      <4> SUFFICES ASSUME cap < k PROVE FALSE
        OBVIOUS
      <4>1. shift \in 0..(k - 1)
        BY <2>1, <2>2, SMT DEF Least
      <4> QED BY <2>2, <2>4, <4>1
    <3> QED BY <2>1, <2>3, <3>1, <3>2, SMT
  <2>5. GetDigitShift(w, decimals) = cap
    <3> HIDE DEF cap
    <3>1. GetDigitShift(w, decimals) = CHOOSE k \in 0..decimals : P(k)
      BY DEF GetDigitShift
    <3> HIDE DEF P
    <3> QED BY <2>3, <2>4, <3>1
  <2>6. decimals - cap = Greatest(decimals - shift, 0)
    BY <2>1, <2>2, SMT DEF Least, Greatest
  <2> QED BY <2>5, <2>6 DEF StakeMintDecimals, w, shift
<1> QED BY <1>1, InputsOK, PTL

=============================================================================
