----------------------------- MODULE ClientMath -----------------------------
(***************************************************************************)
(* The arithmetic the SDK repeats (utils.ts) against the program's. The    *)
(* SDK computes with unbounded integers; its divisions truncate too.       *)
(***************************************************************************)
EXTENDS StakeMathProperties

CONSTANT MaxDecimals    \* decimals of the tokens staked: 0..MaxDecimals

ASSUME DecimalsAssumption == MaxDecimals \in Nat

\* A division that truncates toward zero, as BN's does.
Truncated(a, b) == IF a >= 0 THEN a \div b ELSE - ((- a) \div b)

\* Mutant: the shift may pass its cap by one.
GetDigitShiftLate(maxWeight, maxShift) ==
    IF maxShift = 0 THEN 0
    ELSE CHOOSE k \in 0..(maxShift + 1) :
            /\ ShiftFits(maxWeight, k) \/ k = maxShift + 1
            /\ \A j \in 0..(k - 1) : ~ ShiftFits(maxWeight, j)

\* getDigitShift: the loop stops at the first shift that fits, or at the cap.
GetDigitShift(maxWeight, maxShift) ==
    CHOOSE k \in 0..maxShift :
        /\ ShiftFits(maxWeight, k) \/ k = maxShift
        /\ \A j \in 0..(k - 1) : ~ ShiftFits(maxWeight, j)

\* Mutant: the product is divided once, at the end.
CalculateStakeWeightLate(minDuration, maxDuration, baseWeight, maxWeight, stakeDuration) ==
    IF maxDuration = minDuration THEN baseWeight
    ELSE Greatest(baseWeight
                  + Truncated((stakeDuration - minDuration) * (maxWeight - baseWeight),
                              maxDuration - minDuration),
                  baseWeight)

\* calculateStakeWeight.
CalculateStakeWeight(minDuration, maxDuration, baseWeight, maxWeight, stakeDuration) ==
    LET span       == maxDuration - minDuration
        normalized == Truncated((stakeDuration - minDuration) * SCALE_FACTOR_BASE, span)
    IN  IF span = 0 THEN baseWeight
        ELSE Greatest(baseWeight
                      + Truncated(normalized * (maxWeight - baseWeight), SCALE_FACTOR_BASE),
                      baseWeight)

ClientWeight(d) ==
    CalculateStakeWeight(pool.min_duration, pool.max_duration,
                         pool.base_weight, pool.max_weight, d)

\* The decimals InitializeStakePool gives the stake mint: checked_sub, or 0.
StakeMintDecimals(decimals, max_weight) ==
    Greatest(decimals - DigitShiftByMaxScalar(max_weight), 0)

-----------------------------------------------------------------------------
\* For every lockup the pool offers, the client computes the weight the program
\* will give, with the same truncations, unit for unit (utils.ts:196-217,
\* state.rs:266-304).
ClientWeightAgrees ==
    duration <= pool.max_duration => ClientWeight(duration) = Weight

\* With the decimals of the staked token as its cap, the client's digit shift
\* gives the decimals of the stake mint, also where the program's shift is larger
\* than there are decimals (utils.ts:23-39, initialize_stake_pool.rs:48).
DecimalsAgree ==
    \A decimals \in 0..MaxDecimals :
        decimals - GetDigitShift(pool.max_weight, decimals)
            = StakeMintDecimals(decimals, pool.max_weight)

=============================================================================
