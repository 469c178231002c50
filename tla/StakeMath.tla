------------------------------ MODULE StakeMath ------------------------------
(***************************************************************************)
(* The integer arithmetic of the staking program (state.rs and             *)
(* claim_base.rs): stake weights, effective stake, the number of stake     *)
(* mint tokens an effective stake is worth, and the reward accumulator.    *)
(* Every division truncates, as it does in the code; the widths of the     *)
(* machine integers are constants so that their limits can be reached on a *)
(* small instance.                                                         *)
(***************************************************************************)
EXTENDS Arithmetic

CONSTANTS
    SCALE_FACTOR_BASE,  \* the fixed-point unit of a weight (10^9 in the code)
    U64_MAX,            \* the largest token amount
    U128_MAX,           \* the largest accumulator and effective stake
    RADIX               \* the base of a digit shift (10 in the code)

ASSUME ScaleAssumption == SCALE_FACTOR_BASE \in Nat \ {0}
ASSUME RadixAssumption == RADIX \in Nat \ {0, 1}

\* What the code's own comment relies on (state.rs:245), and that the product
\* of two u64 fits a u128.
ASSUME WidthAssumption ==
    /\ U64_MAX \in Nat \ {0}
    /\ U128_MAX \in Nat
    /\ U64_MAX * (SCALE_FACTOR_BASE * SCALE_FACTOR_BASE) <= U128_MAX
    /\ U64_MAX * U64_MAX <= U128_MAX

SCALE_FACTOR_BASE_SQUARED == SCALE_FACTOR_BASE * SCALE_FACTOR_BASE

-----------------------------------------------------------------------------
\* Staking all u64 tokens at max_weight, shifted by k digits, fits a u64.
ShiftFits(max_weight, k) ==
    ((max_weight * U64_MAX) \div SCALE_FACTOR_BASE) \div Power(RADIX, k) <= U64_MAX

\* Mutant: one digit less.
DigitShiftTooSmall(max_weight) ==
    Greatest(0, (CHOOSE k \in 0..max_weight :
                     /\ ShiftFits(max_weight, k)
                     /\ \A j \in 0..(k - 1) : ~ ShiftFits(max_weight, j)) - 1)

\* The loop stops at the first shift that fits; max_weight digits always do.
DigitShiftByMaxScalar(max_weight) ==
    CHOOSE k \in 0..max_weight :
        /\ ShiftFits(max_weight, k)
        /\ \A j \in 0..(k - 1) : ~ ShiftFits(max_weight, j)

\* The pools that InitializeStakePool creates; p stands for a StakePool account.
IsPool(p) ==
    /\ p.base_weight = SCALE_FACTOR_BASE
    /\ p.max_weight \in Nat
    /\ SCALE_FACTOR_BASE <= p.max_weight
    /\ p.min_duration \in Nat
    /\ p.max_duration \in Nat
    /\ p.min_duration <= p.max_duration

\* Mutants: the line runs from 0 instead of min_duration; a duration beyond the
\* maximum weighs nothing extra.
StakeWeightFromZero(p, duration) ==
    IF p.max_duration = 0 THEN p.base_weight
    ELSE p.base_weight + (((Least(duration, p.max_duration) * SCALE_FACTOR_BASE)
                              \div p.max_duration)
                          * (p.max_weight - p.base_weight)) \div SCALE_FACTOR_BASE

StakeWeightNotClamped(p, duration) ==
    LET span == p.max_duration - p.min_duration
    IN  IF span = 0 \/ duration > p.max_duration THEN p.base_weight
        ELSE p.base_weight + ((((duration - p.min_duration) * SCALE_FACTOR_BASE) \div span)
                              * (p.max_weight - p.base_weight)) \div SCALE_FACTOR_BASE

StakeWeight(p, duration) ==
    LET span       == p.max_duration - p.min_duration
        exceeding  == Least(duration - p.min_duration, span)
        normalized == (exceeding * SCALE_FACTOR_BASE) \div span
        calculated == p.base_weight
                      + (normalized * (p.max_weight - p.base_weight))
                            \div SCALE_FACTOR_BASE
    IN  IF span = 0 THEN p.base_weight
                    ELSE Greatest(calculated, p.base_weight)

EffectiveStakeAmount(weight, amount) == amount * weight

TokenAmountFromStake(effective_stake, max_weight) ==
    (effective_stake \div SCALE_FACTOR_BASE)
        \div Power(RADIX, DigitShiftByMaxScalar(max_weight))

-----------------------------------------------------------------------------
\* Mutant: the division rounds up.
AdditionalRewardsUp(balance_diff, total_weighted_stake) ==
    (balance_diff * SCALE_FACTOR_BASE_SQUARED + total_weighted_stake - 1)
        \div total_weighted_stake

\* What a vault's growth by balance_diff adds to the accumulator.
AdditionalRewards(balance_diff, total_weighted_stake) ==
    (balance_diff * SCALE_FACTOR_BASE_SQUARED) \div total_weighted_stake

\* What a receipt can claim when the accumulator is at rewards and the receipt
\* has claimed up to claimed.
ClaimableAmount(rewards, claimed, effective_stake) ==
    ((rewards - claimed) * effective_stake) \div SCALE_FACTOR_BASE_SQUARED

=============================================================================
