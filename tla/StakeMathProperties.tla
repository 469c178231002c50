------------------------- MODULE StakeMathProperties -------------------------
(***************************************************************************)
(* The pool arithmetic against its reference definitions. The state is one *)
(* input of the functions; the steps only walk through the amounts.        *)
(***************************************************************************)
EXTENDS StakeMath

CONSTANT Durations      \* the durations pools are configured with

ASSUME DurationsAssumption == Durations \subseteq Nat

VARIABLES pool, duration, amount

inputVars == <<pool, duration, amount>>

\* The pools InitializeStakePool accepts.
ValidPools ==
    {p \in [base_weight : {SCALE_FACTOR_BASE}, max_weight : SCALE_FACTOR_BASE..U64_MAX,
            min_duration : Durations, max_duration : Durations] : IsPool(p)}

Init ==
    /\ pool \in ValidPools
    /\ duration \in Durations
    /\ pool.min_duration <= duration
    /\ amount = 0

NextAmount ==
    /\ amount < U64_MAX
    /\ amount' = amount + 1
    /\ UNCHANGED <<pool, duration>>

FirstAmount ==
    /\ amount = U64_MAX
    /\ amount' = 0
    /\ UNCHANGED <<pool, duration>>

Spec == Init /\ [][NextAmount \/ FirstAmount]_inputVars

-----------------------------------------------------------------------------
Weight == StakeWeight(pool, duration)

\* The weight is the line from base to max weight over the allowed durations
\* (state.rs:284-301): never above it, below it by less than the two truncations
\* cost, and max weight itself from the longest duration on (state.rs:127).
\* Compared without division, multiplied by the span.
WeightFollowsLine ==
    LET span == pool.max_duration - pool.min_duration
        rise == pool.max_weight - pool.base_weight
        line == pool.base_weight * span
                + Least(duration - pool.min_duration, span) * rise
    IN  /\ Weight * span <= line
        /\ span > 0 => line * SCALE_FACTOR_BASE
                         < (Weight + 1) * span * SCALE_FACTOR_BASE + rise * span
        /\ span > 0 /\ duration >= pool.max_duration => Weight = pool.max_weight

\* A longer lockup never weighs less (state.rs:266-304).
LongerNeverLighter ==
    \A d \in Durations : d >= duration => StakeWeight(pool, d) >= Weight

\* The digit shift is large enough: the stake mint tokens of any deposit of any
\* u64 amount fit a u64, so the try_into of state.rs:358 never panics; and it is
\* no larger than needed for all tokens at max_weight (state.rs:44-45).
TokenAmountFits ==
    LET stake  == EffectiveStakeAmount(Weight, amount)
        shift  == DigitShiftByMaxScalar(pool.max_weight)
    IN  /\ TokenAmountFromStake(stake, pool.max_weight) <= U64_MAX
        /\ shift > 0 => ~ ShiftFits(pool.max_weight, shift - 1)

=============================================================================
