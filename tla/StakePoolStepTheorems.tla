------------------------ MODULE StakePoolStepTheorems ------------------------
(***************************************************************************)
(* What a step of the pool does, from the invariant proved in              *)
(* StakePoolTheorems: accumulators never fall, no step of anybody else     *)
(* takes away what a receipt can claim, and each step is a step of the     *)
(* escrow and of the reward ledger that the pool implements, or none.      *)
(***************************************************************************)
EXTENDS StakePoolRefinement, StakePoolTheorems

\* A step leaves a taken slot to its vault. It puts the accumulator where a
\* refresh does (Deposit, ClaimAll, Withdraw), or leaves the slot and the stake
\* alone and takes nothing from a vault.
LEMMA PoolsOnlyRise ==
    ASSUME PoolInvariant, [Next]_vars, NEW i \in Slots, ~ IsEmpty(reward_pools[i])
    PROVE  /\ reward_pools'[i].reward_vault = reward_pools[i].reward_vault
           /\ \/ /\ reward_pools'[i] = reward_pools[i]
                 /\ total_weighted_stake' = total_weighted_stake
                 /\ \A m \in RewardMints : reward_vaults[m] <= reward_vaults'[m]
              \/ reward_pools'[i].rewards_per_effective_stake
                     = RefreshedPools[i].rewards_per_effective_stake
<1>0. /\ TypeOK /\ PoolsOK(RefreshedPools) /\ Behind(RefreshedPools, receipts)
      /\ Solvent(RefreshedPools, receipts, reward_vaults)
      /\ Follows(RefreshedPools, reward_pools)
  BY RefreshKeepsPools DEF PoolInvariant
<1>1. ASSUME NEW r \in Receipts, reward_pools' = PoolsAfterClaim(r, RefreshedPools)
      PROVE  /\ reward_pools'[i].reward_vault = reward_pools[i].reward_vault
             /\ reward_pools'[i].rewards_per_effective_stake
                    = RefreshedPools[i].rewards_per_effective_stake
  BY <1>0, <1>1, ClaimKeepsPools DEF Follows
<1>2. CASE AdminNext
  <2>1. ASSUME NEW a \in Accounts, NEW j \in Slots, NEW m \in RewardMints,
               AddRewardPool(a, j, m)
        PROVE  reward_pools'[i] = reward_pools[i]
    <3>1. j # i /\ reward_pools \in [Slots -> RewardPoolType]
      BY <1>0, <2>1 DEF AddRewardPool, TypeOK
    <3>2. reward_pools' = [reward_pools EXCEPT
              ![j] = [EmptyRewardPool EXCEPT !.reward_vault = m]]
      BY <2>1 DEF AddRewardPool
    <3> QED BY <3>1, <3>2
  <2>2. UNCHANGED <<total_weighted_stake, reward_vaults>>
    BY <1>2 DEF AdminNext, InitializeStakePool, AddRewardPool, SetFlags, TransferAuthority,
                DangerouslyMintStakeMint, poolVars, tokenVars
  <2>3. \/ UNCHANGED reward_pools
        \/ \E a \in Accounts, j \in Slots, m \in RewardMints : AddRewardPool(a, j, m)
    BY <1>2 DEF AdminNext, InitializeStakePool, SetFlags, TransferAuthority,
                DangerouslyMintStakeMint, poolVars
  <2>4. reward_pools'[i] = reward_pools[i]
    BY <2>1, <2>3
  <2>5. \A m \in RewardMints : reward_vaults[m] <= reward_vaults[m]
    BY <1>0, SMT DEF TypeOK
  <2> QED BY <2>2, <2>4, <2>5
<1>3. CASE StakerNext
  <2>1. ASSUME reward_pools' = RefreshedPools
        PROVE  /\ reward_pools'[i].reward_vault = reward_pools[i].reward_vault
               /\ reward_pools'[i].rewards_per_effective_stake
                      = RefreshedPools[i].rewards_per_effective_stake
    BY <1>0, <2>1 DEF Follows
  <2> QED BY <1>1, <1>3, <2>1 DEF StakerNext, Deposit, ClaimAll, Withdraw
<1>4. CASE EnvironmentNext \/ UNCHANGED vars
  <2>1. UNCHANGED <<reward_pools, total_weighted_stake>>
    BY <1>4 DEF EnvironmentNext, FundReward, TransferStakeMint, Tick, vars, poolVars
  <2>2. ASSUME NEW m \in RewardMints, NEW n \in Amounts, FundReward(m, n)
        PROVE  \A k \in RewardMints : reward_vaults[k] <= reward_vaults'[k]
    <3>1. n \in Nat /\ reward_vaults \in [RewardMints -> Nat]
      BY <1>0, InputAssumption, SMT DEF TypeOK
    <3>2. reward_vaults' = [reward_vaults EXCEPT ![m] = @ + n]
      BY <2>2 DEF FundReward
    <3> QED BY <3>1, <3>2, SMT
  <2>3. ASSUME UNCHANGED reward_vaults
        PROVE  \A k \in RewardMints : reward_vaults[k] <= reward_vaults'[k]
    <3>1. \A k \in RewardMints : reward_vaults[k] <= reward_vaults[k]
      BY <1>0, SMT DEF TypeOK
    <3> QED BY <2>3, <3>1
  <2>4. \/ UNCHANGED reward_vaults
        \/ \E m \in RewardMints, n \in Amounts : FundReward(m, n)
    <3>1. CASE UNCHANGED vars
      BY <3>1 DEF vars, tokenVars
    <3>2. CASE Tick
      BY <3>2 DEF Tick, tokenVars
    <3>3. CASE \E a, b \in Accounts, n \in Amounts : TransferStakeMint(a, b, n)
      BY <3>3 DEF TransferStakeMint
    <3> QED BY <1>4, <3>1, <3>2, <3>3 DEF EnvironmentNext
  <2> QED BY <2>1, <2>2, <2>3, <2>4
<1> QED BY <1>2, <1>3, <1>4 DEF Next

\* "Ever increasing accumulator" (state.rs:68), and a slot taken is never given
\* to another vault (add_reward_pool.rs:24).
THEOREM AccumulatorsNeverFall == Spec => AccumulatorNeverFalls
<1>1. ASSUME PoolInvariant, [Next]_vars, NEW i \in Slots, ~ IsEmpty(reward_pools[i])
      PROVE  /\ reward_pools'[i].reward_vault = reward_pools[i].reward_vault
             /\ reward_pools'[i].rewards_per_effective_stake
                    >= reward_pools[i].rewards_per_effective_stake
  <2>1. /\ reward_pools[i].rewards_per_effective_stake
               <= RefreshedPools[i].rewards_per_effective_stake
        /\ reward_pools[i].rewards_per_effective_stake \in Nat
        /\ RefreshedPools[i].rewards_per_effective_stake \in Nat
    BY <1>1, RefreshKeepsPools DEF PoolInvariant, TypeOK, PoolsOK, RewardPoolType, Follows
  <2>2. PoolInvariant /\ [Next]_vars /\ ~ IsEmpty(reward_pools[i])
    BY <1>1
  <2> QED BY <2>1, <2>2, PoolsOnlyRise, SMT
<1>2. PoolInvariant /\ [Next]_vars =>
          [\A i \in Slots : ~ IsEmpty(reward_pools[i]) =>
              /\ reward_pools'[i].reward_vault = reward_pools[i].reward_vault
              /\ reward_pools'[i].rewards_per_effective_stake
                     >= reward_pools[i].rewards_per_effective_stake]_vars
  BY <1>1
<1> QED BY <1>2, PoolIsInvariant, PTL DEF Spec, AccumulatorNeverFalls

-----------------------------------------------------------------------------
\* What a vault's growth adds to the accumulator grows with it.
LEMMA AdditionalRewardsMonotone ==
    ASSUME NEW diff \in Nat, NEW more \in Nat, diff <= more, NEW stake \in Nat \ {0}
    PROVE  AdditionalRewards(diff, stake) <= AdditionalRewards(more, stake)
<1>1. /\ diff * SCALE_FACTOR_BASE_SQUARED \in Nat /\ more * SCALE_FACTOR_BASE_SQUARED \in Nat
      /\ diff * SCALE_FACTOR_BASE_SQUARED <= more * SCALE_FACTOR_BASE_SQUARED
  BY SquareIsPositive, ProductMonotone, SMT
<1> QED BY <1>1, DivMonotone DEF AdditionalRewards

\* The facts of a refresh, in the state after a step too.
RefreshFacts ==
    /\ TypeOK
    /\ PoolsOK(RefreshedPools)
    /\ Behind(RefreshedPools, receipts)
    /\ Follows(RefreshedPools, reward_pools)
    /\ RewardSolvency

LEMMA RefreshFactsHold == PoolInvariant => RefreshFacts
BY RefreshKeepsPools DEF RefreshFacts, PoolInvariant

LEMMA RefreshFactsHoldNext == (PoolInvariant => RefreshFacts)'
BY RefreshFactsHold, PTL

\* After any step, a refresh takes a taken slot's accumulator at least as high
\* as it would have before the step.
LEMMA RefreshNeverPromisesLess ==
    ASSUME PoolInvariant, [Next]_vars, NEW i \in Slots, ~ IsEmpty(reward_pools[i])
    PROVE  RefreshedPools[i].rewards_per_effective_stake
               <= RefreshedPools'[i].rewards_per_effective_stake
<1>0. RefreshFacts /\ RefreshFacts'
  BY NextKeepsInvariant, RefreshFactsHold, RefreshFactsHoldNext
<1> DEFINE now   == RefreshedPools[i].rewards_per_effective_stake
           next  == RefreshedPools'[i].rewards_per_effective_stake
           pool  == reward_pools[i]
           m     == pool.reward_vault
<1>1. /\ now \in Nat /\ next \in Nat
      /\ reward_pools'[i].rewards_per_effective_stake <= next
      /\ pool \in RewardPoolType /\ m \in RewardMints
      /\ reward_vaults[m] \in Nat /\ pool.last_amount <= reward_vaults[m]
      /\ total_weighted_stake \in Nat
  BY <1>0 DEF RefreshFacts, PoolsOK, RewardPoolType, Follows, TypeOK, IsEmpty, RewardSolvency
<1>2. CASE reward_pools'[i].rewards_per_effective_stake = now
  BY <1>1, <1>2
<1>3. CASE /\ reward_pools'[i] = pool
           /\ total_weighted_stake' = total_weighted_stake
           /\ reward_vaults'[m] \in Nat /\ reward_vaults[m] <= reward_vaults'[m]
  <2>0. /\ RefreshedPools[i] = RefreshedPool(reward_pools[i])
        /\ RefreshedPools'[i] = RefreshedPool(reward_pools[i])'
    BY DEF RefreshedPools
  <2> DEFINE diff == reward_vaults[m] - pool.last_amount
             more == reward_vaults'[m] - pool.last_amount
             add  == AdditionalRewards(diff, total_weighted_stake)
             plus == AdditionalRewards(more, total_weighted_stake)
  <2>1. CASE now = pool.rewards_per_effective_stake
    BY <1>1, <1>3, <2>1
  <2>2. CASE /\ total_weighted_stake # 0
             /\ now = pool.rewards_per_effective_stake + add
             /\ reward_vaults[m] # pool.last_amount
    <3>1. /\ diff \in Nat /\ more \in Nat /\ diff <= more
          /\ total_weighted_stake \in Nat \ {0}
          /\ reward_vaults'[m] # pool.last_amount
      BY <1>1, <1>3, <2>2, SMT DEF RewardPoolType
    <3>2. add \in Nat /\ plus \in Nat /\ add <= plus
      <4> HIDE DEF diff, more
      <4> QED BY <3>1, AdditionalRewardsMonotone, AdditionalRewardsBound
    <3>3. next = pool.rewards_per_effective_stake + plus
      BY <1>3, <2>0, <2>2, <3>1 DEF RefreshedPool, IsEmpty, RewardPoolType
    <3> HIDE DEF add, plus, now, next
    <3> QED BY <1>1, <2>2, <3>2, <3>3, SMT DEF RewardPoolType, now, next
  <2> QED BY <1>1, <2>0, <2>1, <2>2 DEF RefreshedPool, RewardPoolType
<1>4. \/ reward_pools'[i].rewards_per_effective_stake = now
      \/ /\ reward_pools'[i] = pool
         /\ total_weighted_stake' = total_weighted_stake
         /\ reward_vaults'[m] \in Nat /\ reward_vaults[m] <= reward_vaults'[m]
  BY <1>0, <1>1, PoolsOnlyRise DEF RefreshFacts, TypeOK
<1> QED BY <1>2, <1>3, <1>4

\* What receipt r can claim, at the refreshed accumulator.
LEMMA EntitlementValue ==
    ASSUME RefreshFacts, NEW r \in Receipts, NEW i \in Slots
    PROVE  /\ Entitlement(r, i) =
                  IF IsEmpty(reward_pools[i]) THEN 0
                  ELSE ClaimableAmount(RefreshedPools[i].rewards_per_effective_stake,
                                       receipts[r].claimed_amounts[i],
                                       receipts[r].effective_stake)
           /\ Entitlement(r, i) \in Nat
           /\ RefreshedPools[i].rewards_per_effective_stake \in Nat
           /\ receipts[r].effective_stake \in Nat
           /\ receipts[r].claimed_amounts[i]
                  \in 0..RefreshedPools[i].rewards_per_effective_stake
<1> DEFINE rewards == RefreshedPools[i].rewards_per_effective_stake
           claimed == receipts[r].claimed_amounts[i]
           stake   == receipts[r].effective_stake
<1>1. rewards \in Nat /\ claimed \in Nat /\ stake \in Nat /\ claimed <= rewards
  BY DEF RefreshFacts, PoolsOK, RewardPoolType, TypeOK, ReceiptType, Behind
<1>2. IsEmpty(RefreshedPools[i]) <=> IsEmpty(reward_pools[i])
  BY DEF RefreshFacts, Follows, IsEmpty
<1>3. Entitlement(r, i) = IF IsEmpty(reward_pools[i]) THEN 0
                          ELSE ClaimableAmount(rewards, claimed, stake)
  BY <1>2, Zenon DEF Entitlement, Claimable
<1> HIDE DEF rewards, claimed, stake
<1>4. claimed \in 0..rewards
  BY <1>1, SMT
<1>5. ClaimableAmount(rewards, claimed, stake) \in Nat
  BY <1>1, <1>4, ClaimableBound
<1> QED BY <1>1, <1>3, <1>4, <1>5 DEF rewards, claimed, stake

LEMMA EntitlementValues ==
    \A r \in Receipts, i \in Slots :
        RefreshFacts =>
           /\ Entitlement(r, i) =
                  IF IsEmpty(reward_pools[i]) THEN 0
                  ELSE ClaimableAmount(RefreshedPools[i].rewards_per_effective_stake,
                                       receipts[r].claimed_amounts[i],
                                       receipts[r].effective_stake)
           /\ Entitlement(r, i) \in Nat
BY EntitlementValue

LEMMA EntitlementValuesNext ==
    (\A r \in Receipts, i \in Slots :
        RefreshFacts =>
           /\ Entitlement(r, i) =
                  IF IsEmpty(reward_pools[i]) THEN 0
                  ELSE ClaimableAmount(RefreshedPools[i].rewards_per_effective_stake,
                                       receipts[r].claimed_amounts[i],
                                       receipts[r].effective_stake)
           /\ Entitlement(r, i) \in Nat)'
BY EntitlementValues, PTL

\* No step that leaves a receipt alone lowers what it can claim from any slot
\* (state.rs:187-263, claim_base.rs:90-102).
THEOREM EntitlementsNeverFall == Spec => EntitlementNeverFalls
<1>1. ASSUME PoolInvariant, [Next]_vars, NEW r \in Receipts, NEW i \in Slots,
             receipts'[r] = receipts[r]
      PROVE  Entitlement(r, i)' >= Entitlement(r, i)
  <2>0. RefreshFacts /\ RefreshFacts'
    BY <1>1, NextKeepsInvariant, RefreshFactsHold, RefreshFactsHoldNext
  <2>1. Entitlement(r, i)' \in Nat /\ Entitlement(r, i) \in Nat
    BY <2>0, EntitlementValues, EntitlementValuesNext
  <2>2. CASE IsEmpty(reward_pools[i])
    BY <2>0, <2>1, <2>2, EntitlementValues, SMT
  <2>3. CASE ~ IsEmpty(reward_pools[i])
    <3> DEFINE now     == RefreshedPools[i].rewards_per_effective_stake
               next    == RefreshedPools'[i].rewards_per_effective_stake
               claimed == receipts[r].claimed_amounts[i]
               stake   == receipts[r].effective_stake
    <3>1. now <= next
      BY <1>1, <2>3, RefreshNeverPromisesLess
    <3>2. ~ IsEmpty(reward_pools'[i])
      BY <1>1, <2>3, PoolsOnlyRise DEF IsEmpty
    <3>3. /\ Entitlement(r, i) = ClaimableAmount(now, claimed, stake)
          /\ Entitlement(r, i)' = ClaimableAmount(next, claimed, stake)
      BY <1>1, <2>0, <2>3, <3>2, EntitlementValues, EntitlementValuesNext DEF IsEmpty
    <3>4. now \in Nat /\ next \in Nat /\ claimed \in 0..now /\ stake \in Nat
      <4>1. next \in Nat
        BY <2>0 DEF RefreshFacts, PoolsOK, RewardPoolType
      <4> QED BY <2>0, <4>1, EntitlementValue
    <3> HIDE DEF now, next, claimed, stake
    <3>5. ClaimableAmount(now, claimed, stake) <= ClaimableAmount(next, claimed, stake)
      BY <3>1, <3>4, ClaimableMonotone
    <3> QED BY <2>1, <3>3, <3>5, SMT
  <2> QED BY <2>2, <2>3
<1>2. PoolInvariant /\ [Next]_vars =>
          [\A r \in Receipts : receipts[r].open /\ receipts'[r] = receipts[r] =>
              \A i \in Slots : Entitlement(r, i)' >= Entitlement(r, i)]_vars
  BY <1>1
<1> QED BY <1>2, PoolIsInvariant, PTL DEF Spec, EntitlementNeverFalls

-----------------------------------------------------------------------------
\* Only Deposit opens a receipt.
LEMMA OnlyDepositOpens ==
    ASSUME TypeOK, [Next]_vars, NEW r \in Receipts, ~ receipts[r].open, receipts'[r].open
    PROVE  \E a \in Accounts, n \in Amounts, d \in LockupDurations : Deposit(a, r, n, d)
<1>0. receipts \in [Receipts -> ReceiptType]
  BY DEF TypeOK
<1>1. receipts' # receipts
  OBVIOUS
<1>2. ~ AdminNext
  BY <1>1 DEF AdminNext, InitializeStakePool, AddRewardPool, SetFlags, TransferAuthority,
              DangerouslyMintStakeMint
<1>3. ~ EnvironmentNext /\ ~ UNCHANGED vars
  BY <1>1 DEF EnvironmentNext, FundReward, TransferStakeMint, Tick, vars
<1>4. ASSUME NEW q \in Receipts, NEW kept \in SUBSET Slots, ClaimAll(q, kept) PROVE FALSE
  <2>1. receipts' = [receipts EXCEPT ![q] =
                        [receipts[q] EXCEPT !.claimed_amounts = ClaimedUpTo(q, RefreshedPools)]]
        /\ receipts[q].open
    BY <1>4 DEF ClaimAll
  <2> QED BY <1>0, <2>1
<1>5. ASSUME NEW q \in Receipts, NEW to \in Accounts \cup {Vault}, NEW kept \in SUBSET Slots,
             Withdraw(q, to, kept)
      PROVE  FALSE
  <2>1. receipts' = [receipts EXCEPT ![q] = NoReceipt] /\ receipts[q].open
    BY <1>5 DEF Withdraw
  <2> QED BY <1>0, <2>1 DEF NoReceipt
<1>6. ASSUME NEW a \in Accounts, NEW q \in Receipts, NEW n \in Amounts,
             NEW d \in LockupDurations, Deposit(a, q, n, d)
      PROVE  q = r
  <2>1. \E new : receipts' = [receipts EXCEPT ![q] = new]
    BY <1>6 DEF Deposit
  <2> QED BY <1>0, <2>1
<1>7. StakerNext
  BY <1>2, <1>3 DEF Next
<1> QED BY <1>4, <1>5, <1>6, <1>7 DEF StakerNext

\* A deposit leaves nothing to refresh when somebody was staked before it.
LEMMA DepositLeavesPoolsRefreshed ==
    ASSUME PoolInvariant, NEW a \in Accounts, NEW r \in Receipts, NEW n \in Amounts,
           NEW d \in LockupDurations, Deposit(a, r, n, d), total_weighted_stake > 0,
           NEW i \in Slots
    PROVE  /\ RefreshedPools'[i] = RefreshedPools[i]
           /\ receipts'[r].claimed_amounts[i] = RefreshedPools[i].rewards_per_effective_stake
<1>0. /\ RefreshFacts
      /\ reward_pools'[i] = RefreshedPools[i]
      /\ reward_vaults' = reward_vaults
      /\ receipts'[r].claimed_amounts[i] = RefreshedPools[i].rewards_per_effective_stake
  <2>1. receipts \in [Receipts -> ReceiptType]
    BY DEF PoolInvariant, TypeOK
  <2> QED BY <2>1, RefreshFactsHold DEF Deposit, ClaimedAmountsOf
<1>1. RefreshedPools[i] = RefreshedPool(reward_pools[i])
      /\ RefreshedPools'[i] = RefreshedPool(reward_pools[i])'
  BY DEF RefreshedPools
<1>2. CASE IsEmpty(reward_pools[i])
  <2>1. RefreshedPools[i] = reward_pools[i]
    BY <1>1, <1>2 DEF RefreshedPool
  <2>2. RefreshedPool(reward_pools[i])' = reward_pools'[i]
    BY <1>0, <1>2, <2>1 DEF RefreshedPool, IsEmpty
  <2> QED BY <1>0, <1>1, <2>2
<1>3. CASE ~ IsEmpty(reward_pools[i])
  <2>1. reward_pools[i] \in RewardPoolType /\ total_weighted_stake # 0
    BY <1>0, SMT DEF RefreshFacts, TypeOK
  <2>2. /\ RefreshedPools[i].last_amount = reward_vaults[reward_pools[i].reward_vault]
        /\ RefreshedPools[i].reward_vault = reward_pools[i].reward_vault
    BY <1>1, <1>3, <2>1 DEF RefreshedPool, RewardPoolType
  <2>3. RefreshedPool(reward_pools[i])' = reward_pools'[i]
    BY <1>0, <2>2 DEF RefreshedPool
  <2> QED BY <1>0, <1>1, <2>3
<1> QED BY <1>0, <1>2, <1>3

\* Nothing can be claimed from an accumulator the receipt has caught up with.
LEMMA CaughtUpClaimsNothing ==
    ASSUME NEW rewards \in Nat, NEW stake \in Nat
    PROVE  ClaimableAmount(rewards, rewards, stake) = 0
<1>1. (rewards - rewards) * stake = 0
  BY SMT
<1>2. 0 \div SCALE_FACTOR_BASE_SQUARED = 0
  BY SquareIsPositive, SMT
<1> QED BY <1>1, <1>2 DEF ClaimableAmount

\* "The latest accumulated rewards are attributed to all previous depositors and
\* not the deposit resulting from this instruction" (lib.rs:65-66).
THEOREM NewcomersTakeNothing == Spec => NewcomerTakesNothing
<1>1. ASSUME PoolInvariant, [Next]_vars, NEW r \in Receipts, NEW i \in Slots,
             ~ receipts[r].open, receipts'[r].open, total_weighted_stake > 0
      PROVE  Entitlement(r, i)' = 0
  <2>0. TypeOK /\ RefreshFacts'
    BY <1>1, NextKeepsInvariant, RefreshFactsHoldNext DEF PoolInvariant
  <2>1. PICK a \in Accounts, n \in Amounts, d \in LockupDurations : Deposit(a, r, n, d)
    BY <1>1, <2>0, OnlyDepositOpens
  <2>2. /\ RefreshedPools'[i] = RefreshedPools[i]
        /\ receipts'[r].claimed_amounts[i] = RefreshedPools[i].rewards_per_effective_stake
    BY <1>1, <2>1, DepositLeavesPoolsRefreshed
  <2> DEFINE rewards == RefreshedPools[i].rewards_per_effective_stake
             stake   == receipts'[r].effective_stake
  <2>3. rewards \in Nat /\ stake \in Nat
    BY <2>0, <2>2 DEF RefreshFacts, PoolsOK, RewardPoolType, TypeOK, ReceiptType
  <2>4. ClaimableAmount(rewards, rewards, stake) = 0
    <3> HIDE DEF rewards, stake
    <3> QED BY <2>3, CaughtUpClaimsNothing
  <2> QED BY <2>0, <2>2, <2>4, EntitlementValuesNext
<1>2. PoolInvariant /\ [Next]_vars =>
          [\A r \in Receipts :
              ~ receipts[r].open /\ receipts'[r].open /\ total_weighted_stake > 0 =>
                  \A i \in Slots : Entitlement(r, i)' = 0]_vars
  BY <1>1
<1> QED BY <1>2, PoolIsInvariant, PTL DEF Spec, NewcomerTakesNothing

-----------------------------------------------------------------------------
\* What the only staker of a pool gets of a vault's growth, up to truncation.
LEMMA OnlyStakerGetsGrowth ==
    ASSUME NEW growth \in Nat, NEW stake \in Nat \ {0}, NEW claimed \in Nat
    PROVE  ClaimableAmount(claimed + AdditionalRewards(growth, stake), claimed, stake)
               >= growth - 1 - stake \div SCALE_FACTOR_BASE_SQUARED
<1> DEFINE SQ  == SCALE_FACTOR_BASE_SQUARED
           add == AdditionalRewards(growth, stake)
           got == ClaimableAmount(claimed + add, claimed, stake)
           k   == stake \div SQ
<1>1. SQ \in Nat \ {0}
  BY SquareIsPositive
<1>2. add \in Nat /\ growth * SQ < stake * add + stake
  <2>1. growth * SQ \in Nat
    BY <1>1, SMT
  <2> QED BY <2>1, DivBounds DEF AdditionalRewards
<1>3. got \in Nat /\ add * stake < SQ * got + SQ
  <2> HIDE DEF add
  <2>1. (claimed + add) - claimed = add /\ add * stake \in Nat
    BY <1>2, SMT
  <2>2. got = (add * stake) \div SQ
    BY <2>1 DEF ClaimableAmount
  <2> QED BY <1>1, <2>1, <2>2, DivBounds
<1>4. k \in Nat /\ stake < SQ * k + SQ
  BY <1>1, DivBounds
<1> HIDE DEF SQ, add, got, k
<1>5. growth * SQ < (got + k + 2) * SQ
  BY <1>1, <1>2, <1>3, <1>4, SMT
<1>6. growth < got + k + 2
  BY <1>1, <1>3, <1>4, <1>5, SMT
<1> QED BY <1>3, <1>4, <1>6, SMT DEF got, k, add, SQ

\* The first depositor of an empty pool can claim what its vaults received since
\* the last refresh, up to truncation (state.rs:194-195).
THEOREM FirstDepositorsCollect == Spec => FirstDepositorCollects
<1>1. ASSUME PoolInvariant, [Next]_vars, NEW r \in Receipts, NEW i \in Slots,
             ~ receipts[r].open, receipts'[r].open, total_weighted_stake = 0,
             ~ IsEmpty(reward_pools[i]), receipts'[r].effective_stake > 0
      PROVE  Entitlement(r, i)' >= reward_vaults[reward_pools[i].reward_vault]
                                   - reward_pools[i].last_amount - 1
                                   - receipts'[r].effective_stake
                                         \div SCALE_FACTOR_BASE_SQUARED
  <2> DEFINE stake   == receipts'[r].effective_stake
             pool    == reward_pools[i]
             amount  == reward_vaults[pool.reward_vault]
             growth  == amount - pool.last_amount
             rewards == pool.rewards_per_effective_stake
             add     == AdditionalRewards(growth, stake)
  <2>0. TypeOK /\ RefreshFacts /\ RefreshFacts'
    BY <1>1, NextKeepsInvariant, RefreshFactsHold, RefreshFactsHoldNext DEF PoolInvariant
  <2>1. PICK a \in Accounts, n \in Amounts, d \in LockupDurations : Deposit(a, r, n, d)
    BY <1>1, <2>0, OnlyDepositOpens
  <2>2. RefreshedPools[i] = pool /\ RefreshedPools'[i] = RefreshedPool(reward_pools[i])'
    BY <1>1 DEF RefreshedPools, RefreshedPool
  <2>3. /\ reward_pools'[i] = pool
        /\ reward_vaults' = reward_vaults
        /\ stake = NewEffectiveStake(n, d)
        /\ total_weighted_stake' = total_weighted_stake + stake
        /\ receipts'[r].claimed_amounts[i] = rewards
    <3>1. receipts \in [Receipts -> ReceiptType]
      BY <2>0 DEF TypeOK
    <3> QED BY <2>1, <2>2, <3>1 DEF Deposit, ClaimedAmountsOf
  <2>4. /\ pool \in RewardPoolType /\ stake \in Nat \ {0} /\ total_weighted_stake' = stake
        /\ growth \in Nat /\ rewards \in Nat
    <3>1. stake \in Nat
      BY <2>0 DEF RefreshFacts, TypeOK, ReceiptType
    <3>2. /\ pool \in RewardPoolType /\ pool.reward_vault \in RewardMints
          /\ amount \in Nat /\ pool.last_amount \in Nat /\ pool.last_amount <= amount
      BY <1>1, <2>0 DEF RefreshFacts, TypeOK, RewardPoolType, IsEmpty, RewardSolvency
    <3> QED BY <1>1, <2>3, <3>1, <3>2, SMT DEF RewardPoolType
  <2>5. Entitlement(r, i)' = ClaimableAmount(RefreshedPools'[i].rewards_per_effective_stake,
                                             rewards, stake)
        /\ Entitlement(r, i)' \in Nat
    BY <1>1, <2>0, <2>3, EntitlementValuesNext DEF IsEmpty
  <2>6. CASE growth = 0
    <3>1. stake \div SCALE_FACTOR_BASE_SQUARED \in Nat
      BY <2>4, SquareIsPositive, DivBounds
    <3> HIDE DEF stake, growth
    <3> QED BY <2>5, <2>6, <3>1, SMT DEF growth, stake
  <2>7. CASE growth # 0
    <3>1. amount # pool.last_amount
      BY <2>4, <2>7, SMT DEF RewardPoolType
    <3>2. RefreshedPools'[i].rewards_per_effective_stake = rewards + add
      <4>1. RefreshedPool(reward_pools[i])' =
                [pool EXCEPT !.last_amount = amount, !.rewards_per_effective_stake = @ + add]
        BY <1>1, <2>3, <2>4, <3>1 DEF RefreshedPool, IsEmpty
      <4> HIDE DEF add
      <4> QED BY <2>2, <2>4, <4>1 DEF RewardPoolType
    <3>3. ClaimableAmount(rewards + add, rewards, stake)
              >= growth - 1 - stake \div SCALE_FACTOR_BASE_SQUARED
      BY <2>4, OnlyStakerGetsGrowth
    <3> QED BY <2>5, <3>2, <3>3
  <2> QED BY <2>6, <2>7
<1>2. PoolInvariant /\ [Next]_vars =>
          [\A r \in Receipts :
              ~ receipts[r].open /\ receipts'[r].open /\ total_weighted_stake = 0 =>
              \A i \in Slots : ~ IsEmpty(reward_pools[i]) =>
                  LET stake   == receipts'[r].effective_stake
                      arrived == reward_vaults[reward_pools[i].reward_vault]
                                 - reward_pools[i].last_amount
                  IN  stake > 0 =>
                        Entitlement(r, i)' >= arrived - 1 - stake \div SCALE_FACTOR_BASE_SQUARED
          ]_vars
  BY <1>1
<1> QED BY <1>2, PoolIsInvariant, PTL DEF Spec, FirstDepositorCollects

-----------------------------------------------------------------------------
\* The pool implements the escrow and the reward ledger, for every number of
\* receipts, slots, accounts and mints.

\* A pool begins as an empty escrow without terms.
LEMMA EscrowInit == Init => Deposits!Init
<1> SUFFICES ASSUME Init PROVE Deposits!Init
  OBVIOUS
<1>1. Purses \in [Accounts -> Nat]
  BY SupplyAssumption, KeyAssumption DEF Init, Purses
<1>2. tokens[Vault] = 0
  BY DEF Init
<1>3. Held = [r \in Receipts |-> Deposits!Nothing]
  <2>1. NoReceipt.deposit_timestamp + NoReceipt.lockup_duration = 0
    BY DEF NoReceipt
  <2> QED BY <2>1 DEF Init, Held, Deposits!Nothing, NoReceipt
<1>4. Terms = {} /\ clock = 0 /\ Hatch = FALSE
  BY DEF Init, Terms, Initialized, Hatch
<1> QED BY <1>1, <1>2, <1>3, <1>4 DEF Deposits!Init

\* What the escrow does not see.
LEMMA EscrowStutters ==
    ASSUME UNCHANGED <<tokens, config, clock>>, Held' = Held, Hatch' = Hatch
    PROVE  UNCHANGED Deposits!vars
BY DEF Deposits!vars, Purses, Terms, Initialized

LEMMA EscrowInitialize ==
    ASSUME PoolInvariant, NEW c \in PoolConfigs, NEW a \in Accounts, InitializeStakePool(c, a)
    PROVE  Deposits!SetTerms
<1>1. Terms = {}
  BY DEF InitializeStakePool, Terms
<1>2. Terms' # {}
  <2>1. c.min_duration \in Nat /\ c.max_duration \in Nat /\ c.min_duration <= c.max_duration
    BY InputAssumption DEF InitializeStakePool
  <2>2. config'.base_weight = SCALE_FACTOR_BASE
        /\ config'.min_duration = c.min_duration /\ config'.max_duration = c.max_duration
    BY DEF InitializeStakePool
  <2>3. Initialized'
    BY <2>2, ScaleAssumption DEF Initialized, NoConfig
  <2>4. c.min_duration \in c.min_duration..c.max_duration
    BY <2>1
  <2> QED BY <2>2, <2>3, <2>4 DEF Terms
<1>3. UNCHANGED <<Purses, tokens[Vault], Held, clock, Hatch>>
  BY DEF InitializeStakePool, tokenVars, Purses, Held, Hatch
<1> QED BY <1>1, <1>2, <1>3 DEF Deposits!SetTerms

LEMMA EscrowDeposit ==
    ASSUME PoolInvariant, NEW a \in Accounts, NEW r \in Receipts, NEW n \in Amounts,
           NEW d \in LockupDurations, Deposit(a, r, n, d)
    PROVE  \E lock \in Terms : Deposits!Put(a, r, n, lock)
<1>0. /\ TypeOK /\ ConfigValid /\ Initialized
      /\ n \in Nat /\ d \in Nat /\ a # Vault
  BY InputAssumption, KeyAssumption DEF PoolInvariant, Deposit
<1>1. ClampedDuration(d) \in Terms
  <2>1. config.min_duration \in Nat /\ config.max_duration \in Nat
        /\ config.min_duration <= config.max_duration /\ config.min_duration <= d
    BY <1>0 DEF ConfigValid, IsPool, Deposit
  <2> QED BY <1>0, <2>1 DEF ClampedDuration, Least, Terms
<1>2. ~ Held[r].open /\ n <= Purses[a]
  BY DEF Deposit, Held, Purses
<1>3. /\ Purses' = [Purses EXCEPT ![a] = @ - n]
      /\ tokens[Vault]' = tokens[Vault] + n
  <2>1. tokens' = [tokens EXCEPT ![a] = @ - n, ![Vault] = @ + n]
    BY <1>0 DEF Deposit, Transfer
  <2>2. tokens \in [Accounts \cup {Vault} -> Nat] /\ a \in Accounts /\ Vault \notin Accounts
    BY <1>0, KeyAssumption DEF TypeOK
  <2>3. tokens[Vault]' = tokens[Vault] + n
    BY <1>0, <2>1, <2>2
  <2>4. tokens'[a] = tokens[a] - n /\ \A b \in Accounts \ {a} : tokens'[b] = tokens[b]
    BY <1>0, <2>1, <2>2
  <2>5. Purses' = [Purses EXCEPT ![a] = @ - n]
    BY <2>2, <2>4 DEF Purses
  <2> QED BY <2>3, <2>5
<1>4. Held' = [Held EXCEPT ![r] = [open |-> TRUE, amount |-> n,
                                   until |-> clock + ClampedDuration(d)]]
  BY <1>0 DEF Held, Deposit, TypeOK
<1>5. UNCHANGED <<Terms, clock, Hatch>>
  BY DEF Deposit, Terms, Initialized, Hatch
<1> QED BY <1>1, <1>2, <1>3, <1>4, <1>5 DEF Deposits!Put

LEMMA EscrowWithdraw ==
    ASSUME PoolInvariant, NEW r \in Receipts, NEW to \in Accounts \cup {Vault},
           NEW kept \in SUBSET Slots, Withdraw(r, to, kept)
    PROVE  Deposits!LeaveBehind(r) \/ \E a \in Accounts : Deposits!Take(r, a)
<1>0. TypeOK
  BY DEF PoolInvariant
<1>1. Deposits!MayTake(r)
  BY DEF Withdraw, Unlocked, Deposits!MayTake, Held, Hatch
<1>2. Held' = [Held EXCEPT ![r] = Deposits!Nothing]
  <2>1. receipts' = [receipts EXCEPT ![r] = NoReceipt]
    BY DEF Withdraw
  <2>2. NoReceipt.deposit_timestamp + NoReceipt.lockup_duration = 0
        /\ NoReceipt.open = FALSE /\ NoReceipt.deposit_amount = 0
    BY DEF NoReceipt
  <2> QED BY <1>0, <2>1, <2>2 DEF Held, Deposits!Nothing, TypeOK
<1>3. UNCHANGED <<Terms, clock, Hatch>>
  BY DEF Withdraw, Terms, Initialized, Hatch
<1>4. CASE to = Vault
  <2>1. UNCHANGED <<Purses, tokens[Vault]>>
    BY <1>4 DEF Withdraw, Transfer, Purses
  <2> QED BY <1>1, <1>2, <1>3, <2>1 DEF Deposits!LeaveBehind
<1>5. CASE to # Vault
  <2>1. tokens' = [tokens EXCEPT ![Vault] = @ - Held[r].amount, ![to] = @ + Held[r].amount]
    BY <1>5 DEF Withdraw, Transfer, Refund, Held
  <2>2. /\ Purses' = [Purses EXCEPT ![to] = @ + Held[r].amount]
        /\ tokens[Vault]' = tokens[Vault] - Held[r].amount
    BY <1>0, <1>5, <2>1, KeyAssumption DEF Purses, TypeOK
  <2> QED BY <1>1, <1>2, <1>3, <1>5, <2>2 DEF Deposits!Take
<1> QED BY <1>4, <1>5

LEMMA EscrowStep == PoolInvariant /\ [Next]_vars => [Deposits!Next]_(Deposits!vars)
<1> SUFFICES ASSUME PoolInvariant, [Next]_vars
             PROVE  Deposits!Next \/ UNCHANGED Deposits!vars
  OBVIOUS
<1>1. ASSUME NEW c \in PoolConfigs, NEW a \in Accounts, InitializeStakePool(c, a)
      PROVE  Deposits!Next
  BY <1>1, EscrowInitialize DEF Deposits!Next
<1>2. ASSUME NEW a \in Accounts, NEW f \in FlagChoices, SetFlags(a, f)
      PROVE  Deposits!Next \/ UNCHANGED Deposits!vars
  <2>1. UNCHANGED <<tokens, config, clock>> /\ Held' = Held
    BY <1>2 DEF SetFlags, tokenVars, Held
  <2>2. CASE Hatch' = Hatch
    BY <2>1, <2>2, EscrowStutters
  <2>3. CASE Hatch' = ~ Hatch
    BY <2>1, <2>3 DEF Deposits!Next, Deposits!SetHatch, Purses, Terms, Initialized
  <2> QED BY <2>2, <2>3 DEF Hatch
<1>3. ASSUME NEW r \in Receipts, NEW kept \in SUBSET Slots, ClaimAll(r, kept)
      PROVE  UNCHANGED Deposits!vars
  <2>1. Held' = Held
    BY <1>3 DEF ClaimAll, Held, PoolInvariant, TypeOK, ReceiptType
  <2> QED BY <1>3, <2>1, EscrowStutters DEF ClaimAll, Hatch
<1>4. ASSUME \/ \E a \in Accounts, i \in Slots, m \in RewardMints : AddRewardPool(a, i, m)
             \/ \E a, b \in Accounts : TransferAuthority(a, b)
             \/ \E a, b \in Accounts, n \in Amounts : DangerouslyMintStakeMint(a, b, n)
             \/ \E m \in RewardMints, n \in Amounts : FundReward(m, n)
             \/ \E a, b \in Accounts, n \in Amounts : TransferStakeMint(a, b, n)
      PROVE  UNCHANGED Deposits!vars
  <2>1. UNCHANGED <<tokens, config, clock, receipts, flags>>
    BY <1>4 DEF AddRewardPool, TransferAuthority, DangerouslyMintStakeMint, FundReward,
                TransferStakeMint, tokenVars, poolVars
  <2> QED BY <2>1, EscrowStutters DEF Held, Hatch
<1>5. CASE Tick
  BY <1>5 DEF Tick, poolVars, tokenVars, Deposits!Next, Deposits!Pass, Purses, Held, Terms,
              Initialized, Hatch
<1>6. CASE UNCHANGED vars
  BY <1>6, EscrowStutters DEF vars, poolVars, tokenVars, Held, Hatch
<1>7. ASSUME NEW a \in Accounts, NEW r \in Receipts, NEW n \in Amounts,
             NEW d \in LockupDurations, Deposit(a, r, n, d)
      PROVE  Deposits!Next
  BY <1>7, EscrowDeposit DEF Deposits!Next
<1>8. ASSUME NEW r \in Receipts, NEW to \in Accounts \cup {Vault}, NEW kept \in SUBSET Slots,
             Withdraw(r, to, kept)
      PROVE  Deposits!Next
  BY <1>8, EscrowWithdraw DEF Deposits!Next
<1> QED
  BY <1>1, <1>2, <1>3, <1>4, <1>5, <1>6, <1>7, <1>8
     DEF Next, AdminNext, StakerNext, EnvironmentNext

\* Every deposit is held for its lockup, within the terms of the pool, and paid
\* back once and whole, in every pool (deposit.rs:94-140, withdraw.rs:49-139).
THEOREM EscrowIsKept == Spec => KeepsEscrow
BY EscrowInit, EscrowStep, PoolIsInvariant, PTL DEF Spec, KeepsEscrow, Deposits!Spec

-----------------------------------------------------------------------------
\* The ledger's total is the pool's, and entering what has arrived is what a
\* refresh does: the accumulator rises by the ledger's increase.
LEMMA LedgerRefresh ==
    ASSUME PoolInvariant, NEW i \in Slots
    PROVE  /\ Rewards!Increase(i) \in Nat
           /\ RefreshedPools[i].rewards_per_effective_stake
                  = reward_pools[i].rewards_per_effective_stake + Rewards!Increase(i)
           /\ RefreshedPools[i].last_amount = Rewards!Counted[i]
<1> DEFINE pool == reward_pools[i]
           last == pool.last_amount
<1>0. TypeOK /\ EmptySlotsZero /\ RewardSolvency /\ StakeAccounting
  BY DEF PoolInvariant
<1>1. Rewards!TotalStake = total_weighted_stake
  BY <1>0, Zenon DEF Rewards!TotalStake, Rewards!Total, Total, Stakes, StakeAccounting
<1>2. total_weighted_stake \in Nat /\ pool \in RewardPoolType
      /\ SCALE_FACTOR_BASE_SQUARED \in Nat \ {0}
  BY <1>0, SquareIsPositive DEF TypeOK
<1>3. RefreshedPools[i] = RefreshedPool(pool)
  BY DEF RefreshedPools
<1>4. LastAmounts[i] = last /\ last \in Nat /\ pool.rewards_per_effective_stake \in Nat
  BY <1>2 DEF LastAmounts, RewardPoolType
<1>5. CASE total_weighted_stake = 0
  <2>1. Rewards!Increase(i) = 0 /\ Rewards!Counted[i] = last
    BY <1>1, <1>4, <1>5 DEF Rewards!Increase, Rewards!Counted
  <2>2. RefreshedPool(pool) = pool
    BY <1>5 DEF RefreshedPool
  <2> QED BY <1>3, <1>4, <2>1, <2>2
<1>6. CASE total_weighted_stake # 0 /\ Balances[i] = last
  <2>1. (Balances[i] - LastAmounts[i]) * SCALE_FACTOR_BASE_SQUARED = 0
    BY <1>2, <1>4, <1>6, SMT
  <2>2. 0 \div total_weighted_stake = 0
    BY <1>2, <1>6, SMT
  <2>3. Rewards!Increase(i) = 0 /\ Rewards!Counted[i] = last
    BY <1>1, <1>6, <2>1, <2>2 DEF Rewards!Increase, Rewards!Counted
  <2>4. RefreshedPool(pool) = pool
    BY <1>6 DEF RefreshedPool, Balances
  <2> QED BY <1>3, <1>4, <2>3, <2>4
<1>7. CASE total_weighted_stake # 0 /\ Balances[i] # last
  <2>1. ~ IsEmpty(pool)
    BY <1>0, <1>7 DEF EmptySlotsZero, EmptyRewardPool, Balances
  <2> DEFINE amount == reward_vaults[pool.reward_vault]
             add    == AdditionalRewards(amount - last, total_weighted_stake)
  <2>2. Balances[i] = amount /\ amount \in Nat /\ last <= amount
    BY <1>0, <1>2, <2>1 DEF Balances, IsEmpty, RewardPoolType, TypeOK, RewardSolvency
  <2>3. Rewards!Increase(i) = add /\ Rewards!Counted[i] = amount
    BY <1>1, <1>4, <1>7, <2>2 DEF Rewards!Increase, Rewards!Counted, AdditionalRewards
  <2>4. add \in Nat
    <3>1. amount - last \in Nat
      BY <1>4, <2>2, SMT
    <3> QED BY <1>2, <1>7, <3>1, AdditionalRewardsBound
  <2>5. RefreshedPool(pool) = [pool EXCEPT !.last_amount = amount,
                                           !.rewards_per_effective_stake = @ + add]
    BY <1>7, <2>1, <2>2 DEF RefreshedPool
  <2> HIDE DEF add, amount
  <2> QED BY <1>2, <1>3, <2>3, <2>4, <2>5 DEF RewardPoolType
<1> QED BY <1>5, <1>6, <1>7

\* The credit of a receipt in the brought-up-to-date ledger, and what is due.
LEMMA LedgerCredit ==
    ASSUME PoolInvariant, NEW r \in Receipts, NEW i \in Slots
    PROVE  /\ Rewards!Credited[r][i]
                  = StakeOf(r) * (RefreshedPools[i].rewards_per_effective_stake
                                      - receipts[r].claimed_amounts[i])
           /\ Rewards!Due(r, i) = Claimable(r, RefreshedPools)[i]
<1> DEFINE stake == StakeOf(r)
           mark  == receipts[r].claimed_amounts[i]
           acc   == reward_pools[i].rewards_per_effective_stake
           new   == RefreshedPools[i].rewards_per_effective_stake
           inc   == Rewards!Increase(i)
<1>0. /\ TypeOK /\ PoolsOK(RefreshedPools) /\ Behind(RefreshedPools, receipts)
  BY RefreshKeepsPools DEF PoolInvariant
<1>1. stake \in Nat /\ mark \in Nat /\ acc \in Nat
  BY <1>0 DEF TypeOK, ReceiptType, RewardPoolType, StakeOf
<1>2. inc \in Nat /\ new = acc + inc
  BY LedgerRefresh
<1>3. Rewards!Credited[r][i] = stake * (acc - mark) + stake * inc
  BY DEF Rewards!Credited, Rewards!Receipts, Receipts, Credits, Accrued, Stakes
<1>4. mark <= new
  BY <1>0 DEF Behind
<1> DEFINE due == Rewards!Due(r, i)
<1>5. due = Rewards!Credited[r][i] \div SCALE_FACTOR_BASE_SQUARED
  BY DEF Rewards!Due
<1>6. Claimable(r, RefreshedPools)[i]
          = IF IsEmpty(RefreshedPools[i]) THEN 0 ELSE ClaimableAmount(new, mark, stake)
  BY DEF Claimable, StakeOf
<1>7. IsEmpty(RefreshedPools[i]) => new = 0
  BY <1>0 DEF PoolsOK, EmptyRewardPool
<1>8. ClaimableAmount(new, mark, stake) = ((new - mark) * stake) \div SCALE_FACTOR_BASE_SQUARED
  BY DEF ClaimableAmount
<1> HIDE DEF stake, mark, acc, new, inc, due
<1>9. Rewards!Credited[r][i] = stake * (new - mark) /\ (new - mark) * stake = stake * (new - mark)
  BY <1>1, <1>2, <1>3, SMT
<1>10. new = 0 => due = 0
  <2>1. 0 \div SCALE_FACTOR_BASE_SQUARED = 0
    BY SquareIsPositive, SMT
  <2>2. new = 0 => stake * (new - mark) = 0
    BY <1>1, <1>2, <1>4, SMT
  <2> QED BY <1>5, <1>9, <2>1, <2>2
<1>11. due = Claimable(r, RefreshedPools)[i]
  BY <1>5, <1>6, <1>7, <1>8, <1>9, <1>10
<1> QED BY <1>9, <1>11 DEF stake, mark, new, due

\* When pools are refreshed and perhaps claimed from, and only receipt r changes
\* and is left without credit, the ledger has been brought up to date and r settled.
LEMMA LedgerSettles ==
    ASSUME PoolInvariant, NEW r \in Receipts, NEW new \in ReceiptType,
           receipts' = [receipts EXCEPT ![r] = new],
           \A i \in Slots : reward_pools'[i].rewards_per_effective_stake
                                = RefreshedPools[i].rewards_per_effective_stake,
           \A i \in Slots : new.effective_stake = 0
                            \/ new.claimed_amounts[i]
                                   = RefreshedPools[i].rewards_per_effective_stake
    PROVE  Credits' = [Rewards!Credited EXCEPT ![r] = Rewards!Nothing]
<1>0. TypeOK /\ PoolsOK(RefreshedPools)
  BY RefreshKeepsPools DEF PoolInvariant
<1> DEFINE after == [Rewards!Credited EXCEPT ![r] = Rewards!Nothing]
<1>1. ASSUME NEW q \in Receipts, NEW i \in Slots PROVE Credits'[q][i] = after[q][i]
  <2>1. Credits'[q][i] = receipts'[q].effective_stake
                             * (RefreshedPools[i].rewards_per_effective_stake
                                    - receipts'[q].claimed_amounts[i])
    BY DEF Credits, Accrued, StakeOf
  <2>2. CASE q = r
    <3>1. receipts'[q] = new /\ after[q][i] = 0
      BY <1>0, <2>2 DEF TypeOK, Rewards!Credited, Rewards!Receipts, Receipts, Rewards!Nothing
    <3>2. /\ RefreshedPools[i].rewards_per_effective_stake \in Nat
          /\ new.effective_stake \in Nat /\ new.claimed_amounts[i] \in Nat
      BY <1>0 DEF PoolsOK, RewardPoolType, ReceiptType
    <3>3. new.effective_stake * (RefreshedPools[i].rewards_per_effective_stake
                                     - new.claimed_amounts[i]) = 0
      BY <3>2, SMT
    <3> QED BY <2>1, <3>1, <3>3
  <2>3. CASE q # r
    <3>1. receipts'[q] = receipts[q] /\ after[q][i] = Rewards!Credited[q][i]
      BY <1>0, <2>3 DEF TypeOK, Rewards!Credited, Rewards!Receipts, Receipts
    <3> QED BY <2>1, <3>1, LedgerCredit DEF StakeOf
  <2> QED BY <2>2, <2>3
<1>2. Credits' = [q \in Receipts |-> [i \in Slots |-> Credits'[q][i]]]
  BY DEF Credits
<1>3. after = [q \in Receipts |-> [i \in Slots |-> after[q][i]]]
  BY DEF Rewards!Credited, Rewards!Receipts, Receipts, Rewards!Nothing
<1> HIDE DEF after
<1>4. Credits' = after
  BY <1>1, <1>2, <1>3
<1> QED BY <1>4 DEF after

\* A refresh, and what is claimed after it, keep the slots' vaults.
LEMMA VaultsOfSlots ==
    ASSUME PoolInvariant, NEW i \in Slots
    PROVE  /\ RefreshedPools[i].reward_vault = reward_pools[i].reward_vault
           /\ IsEmpty(RefreshedPools[i]) <=> IsEmpty(reward_pools[i])
BY RefreshKeepsPools DEF Follows, IsEmpty

LEMMA LedgerJoin ==
    ASSUME PoolInvariant, NEW a \in Accounts, NEW r \in Receipts, NEW n \in Amounts,
           NEW d \in LockupDurations, Deposit(a, r, n, d)
    PROVE  Rewards!Join(r)
<1> DEFINE new == [open              |-> TRUE,
                   lockup_duration   |-> ClampedDuration(d),
                   deposit_timestamp |-> clock,
                   deposit_amount    |-> n,
                   effective_stake   |-> NewEffectiveStake(n, d),
                   claimed_amounts   |-> ClaimedAmountsOf(RefreshedPools)]
<1>0. /\ TypeOK /\ ConfigValid /\ ClosedReceiptsEmpty /\ PoolsOK(RefreshedPools)
      /\ Initialized /\ config.min_duration <= d /\ ~ receipts[r].open
      /\ receipts' = [receipts EXCEPT ![r] = new]
      /\ reward_pools' = RefreshedPools /\ UNCHANGED reward_vaults
  BY RefreshKeepsPools DEF PoolInvariant, Deposit
<1>1. new \in ReceiptType
  <2>1. clock \in Nat
    BY <1>0, SizeAssumption DEF TypeOK
  <2>2. ClaimedAmountsOf(RefreshedPools) \in [Slots -> Nat]
    BY <1>0 DEF ClaimedAmountsOf, PoolsOK, RewardPoolType
  <2>3. NewEffectiveStake(n, d) \in Nat /\ ClampedDuration(d) \in Nat /\ n \in Nat
    BY <1>0, NewEffectiveStakeNat
  <2> QED BY <2>1, <2>2, <2>3 DEF ReceiptType
<1>2. \A i \in Slots : new.claimed_amounts[i] = RefreshedPools[i].rewards_per_effective_stake
  BY DEF ClaimedAmountsOf
<1>3. new.effective_stake \in Nat
  BY <1>1 DEF ReceiptType
<1> HIDE DEF new
<1>4. Stakes[r] = 0
  BY <1>0 DEF ClosedReceiptsEmpty, NoReceipt, Stakes, StakeOf
<1>5. Stakes'[r] \in Nat /\ Stakes' = [Stakes EXCEPT ![r] = Stakes'[r]]
  BY <1>0, <1>3 DEF Stakes, StakeOf, TypeOK
<1>6. Credits' = [Rewards!Credited EXCEPT ![r] = Rewards!Nothing]
  BY <1>0, <1>1, <1>2, LedgerSettles
<1>7. LastAmounts' = Rewards!Counted
  <2>1. Rewards!Counted = [i \in Slots |-> Rewards!Counted[i]]
    BY DEF Rewards!Counted, LastAmounts, Balances
  <2>2. \A i \in Slots : LastAmounts'[i] = Rewards!Counted[i]
    BY <1>0, LedgerRefresh DEF LastAmounts
  <2>3. LastAmounts' = [i \in Slots |-> LastAmounts'[i]]
    BY DEF LastAmounts
  <2> QED BY <2>1, <2>2, <2>3
<1>8. Balances' = Balances
  BY <1>0, VaultsOfSlots DEF Balances, IsEmpty
<1> QED BY <1>4, <1>5, <1>6, <1>7, <1>8 DEF Rewards!Join

\* The half that ClaimAll and Withdraw share: new is what becomes of the receipt.
LEMMA LedgerPay ==
    ASSUME PoolInvariant, NEW r \in Receipts, NEW kept \in SUBSET Slots,
           NEW new \in ReceiptType,
           receipts' = [receipts EXCEPT ![r] = new],
           reward_pools' = PoolsAfterClaim(r, RefreshedPools),
           reward_vaults' = VaultsAfterClaim(r, RefreshedPools, kept),
           \A i \in Slots : new.effective_stake = 0
                            \/ new.claimed_amounts[i]
                                   = RefreshedPools[i].rewards_per_effective_stake
    PROVE  Rewards!Pay(r, kept)
<1>0. /\ TypeOK /\ PoolsOK(RefreshedPools) /\ Behind(RefreshedPools, receipts)
      /\ Solvent(RefreshedPools, receipts, reward_vaults)
  BY RefreshKeepsPools DEF PoolInvariant
<1>1. \A i \in Slots :
         /\ reward_pools'[i].reward_vault = RefreshedPools[i].reward_vault
         /\ reward_pools'[i].rewards_per_effective_stake
                = RefreshedPools[i].rewards_per_effective_stake
         /\ reward_pools'[i].last_amount
                = RefreshedPools[i].last_amount - Claimable(r, RefreshedPools)[i]
  BY <1>0, ClaimKeepsPools
<1>2. Credits' = [Rewards!Credited EXCEPT ![r] = Rewards!Nothing]
  BY <1>1, LedgerSettles
<1>3. LastAmounts' = [i \in Slots |-> Rewards!Counted[i] - Rewards!Due(r, i)]
  BY <1>1, LedgerRefresh, LedgerCredit DEF LastAmounts
<1>4. ASSUME NEW i \in Slots
      PROVE  Balances'[i] = IF i \in kept THEN Balances[i] ELSE Balances[i] - Rewards!Due(r, i)
  <2>0. reward_pools'[i].reward_vault = reward_pools[i].reward_vault
    BY <1>1, VaultsOfSlots
  <2>1. CASE IsEmpty(reward_pools[i])
    <3>1. Rewards!Due(r, i) = 0
      BY <1>0, <2>1, VaultsOfSlots, LedgerCredit, ClaimIsCovered
    <3> QED BY <2>0, <2>1, <3>1 DEF Balances, IsEmpty
  <2>2. CASE ~ IsEmpty(reward_pools[i])
    <3> DEFINE m    == reward_pools[i].reward_vault
               paid == PaidFrom(m, r, RefreshedPools, kept)
    <3>1. m \in RewardMints /\ reward_vaults[m] \in Nat
      BY <1>0, <2>2 DEF TypeOK, RewardPoolType, IsEmpty
    <3>2. Balances[i] = reward_vaults[m] /\ Balances'[i] = reward_vaults'[m]
      BY <2>0, <2>2 DEF Balances, IsEmpty
    <3>3. reward_vaults'[m] = reward_vaults[m] - paid
      BY <3>1 DEF VaultsAfterClaim
    <3>4. paid = IF i \in kept THEN 0 ELSE Claimable(r, RefreshedPools)[i]
      BY <1>0, <2>2, VaultsOfSlots, PaidFromOneSlot
    <3>5. Rewards!Due(r, i) = Claimable(r, RefreshedPools)[i]
      BY LedgerCredit
    <3>6. reward_vaults[m] - 0 = reward_vaults[m]
      BY <3>1, SMT
    <3> HIDE DEF m, paid
    <3> QED BY <3>2, <3>3, <3>4, <3>5, <3>6
  <2> QED BY <2>1, <2>2
<1>5. Balances' = [i \in Slots |-> IF i \in kept THEN Balances[i]
                                   ELSE Balances[i] - Rewards!Due(r, i)]
  BY <1>4 DEF Balances
<1> QED BY <1>2, <1>3, <1>5 DEF Rewards!Pay

LEMMA LedgerClaim ==
    ASSUME PoolInvariant, NEW r \in Receipts, NEW kept \in SUBSET Slots, ClaimAll(r, kept)
    PROVE  Rewards!Claim(r, kept)
<1> DEFINE upto == ClaimedUpTo(r, RefreshedPools)
           new  == [receipts[r] EXCEPT !.claimed_amounts = upto]
<1>0. /\ TypeOK /\ PoolsOK(RefreshedPools) /\ Behind(RefreshedPools, receipts)
  BY RefreshKeepsPools DEF PoolInvariant
<1>1. upto \in [Slots -> Nat]
  BY <1>0 DEF ClaimedUpTo, TypeOK, ReceiptType, PoolsOK, RewardPoolType
<1>2. new \in ReceiptType /\ new.effective_stake = receipts[r].effective_stake
      /\ new.claimed_amounts = upto
  BY <1>0, <1>1 DEF TypeOK, ReceiptType
<1>3. \A i \in Slots : upto[i] = RefreshedPools[i].rewards_per_effective_stake
  <2> SUFFICES ASSUME NEW i \in Slots, IsEmpty(RefreshedPools[i])
               PROVE  receipts[r].claimed_amounts[i]
                          = RefreshedPools[i].rewards_per_effective_stake
    BY DEF ClaimedUpTo
  <2>1. RefreshedPools[i].rewards_per_effective_stake = 0
    BY <1>0 DEF PoolsOK, EmptyRewardPool
  <2>2. receipts[r].claimed_amounts[i] \in Nat /\ receipts[r].claimed_amounts[i] <= 0
    BY <1>0, <2>1 DEF TypeOK, ReceiptType, Behind
  <2> QED BY <2>1, <2>2, SMT
<1>4. receipts' = [receipts EXCEPT ![r] = new]
  BY DEF ClaimAll
<1>5. Stakes' = Stakes
  BY <1>0, <1>2, <1>4 DEF Stakes, StakeOf, TypeOK
<1> HIDE DEF new, upto
<1>6. Rewards!Pay(r, kept)
  BY <1>2, <1>3, <1>4, LedgerPay DEF ClaimAll
<1> QED BY <1>5, <1>6 DEF Rewards!Claim

LEMMA LedgerLeave ==
    ASSUME PoolInvariant, NEW r \in Receipts, NEW to \in Accounts \cup {Vault},
           NEW kept \in SUBSET Slots, Withdraw(r, to, kept)
    PROVE  Rewards!Leave(r, kept)
<1>0. TypeOK /\ receipts' = [receipts EXCEPT ![r] = NoReceipt]
  BY DEF PoolInvariant, Withdraw
<1>1. NoReceipt \in ReceiptType /\ NoReceipt.effective_stake = 0
  BY DEF NoReceipt, ReceiptType
<1>2. Rewards!Pay(r, kept)
  BY <1>0, <1>1, LedgerPay DEF Withdraw
<1>3. Stakes' = [Stakes EXCEPT ![r] = 0]
  BY <1>0, <1>1 DEF Stakes, StakeOf, TypeOK
<1> QED BY <1>2, <1>3 DEF Rewards!Leave

\* Tokens arrive where a vault is created or funded; no two slots share one.
LEMMA LedgerArrive ==
    ASSUME PoolInvariant,
           \/ \E a \in Accounts, i \in Slots, m \in RewardMints : AddRewardPool(a, i, m)
           \/ \E m \in RewardMints, n \in Amounts : FundReward(m, n)
    PROVE  \E i \in Slots : Rewards!Arrive(i)
<1>0. TypeOK /\ EmptySlotsZero /\ VaultsDistinct
  BY DEF PoolInvariant
<1>1. ASSUME NEW a \in Accounts, NEW i \in Slots, NEW m \in RewardMints, AddRewardPool(a, i, m)
      PROVE  Rewards!Arrive(i)
  <2> DEFINE new == [EmptyRewardPool EXCEPT !.reward_vault = m]
  <2>1. reward_pools' = [reward_pools EXCEPT ![i] = new] /\ reward_pools[i] = EmptyRewardPool
    BY <1>0, <1>1 DEF AddRewardPool, EmptySlotsZero
  <2>2. new.rewards_per_effective_stake = 0 /\ new.last_amount = 0 /\ new.reward_vault = m
        /\ EmptyRewardPool.rewards_per_effective_stake = 0 /\ EmptyRewardPool.last_amount = 0
    BY DEF EmptyRewardPool
  <2> HIDE DEF new
  <2>3. \A j \in Slots :
           /\ reward_pools'[j].rewards_per_effective_stake
                  = reward_pools[j].rewards_per_effective_stake
           /\ reward_pools'[j].last_amount = reward_pools[j].last_amount
           /\ j # i => reward_pools'[j] = reward_pools[j]
    BY <1>0, <2>1, <2>2 DEF TypeOK
  <2>4. UNCHANGED <<receipts, reward_vaults>>
    BY <1>1 DEF AddRewardPool, tokenVars
  <2>5. UNCHANGED <<Stakes, Credits, LastAmounts>>
    BY <2>3, <2>4 DEF Stakes, Credits, Accrued, StakeOf, LastAmounts
  <2>6. Balances' = [Balances EXCEPT ![i] = Balances'[i]]
    BY <2>3, <2>4 DEF Balances
  <2>7. Balances[i] = 0 /\ Balances'[i] \in Nat
    <3>1. IsEmpty(EmptyRewardPool) /\ reward_pools'[i] = new
      BY <1>0, <2>1 DEF IsEmpty, EmptyRewardPool, TypeOK
    <3>2. reward_vaults[m] \in Nat
      BY <1>0 DEF TypeOK
    <3> QED BY <2>1, <2>2, <2>4, <3>1, <3>2 DEF Balances
  <2> QED BY <2>5, <2>6, <2>7 DEF Rewards!Arrive
<1>2. ASSUME NEW m \in RewardMints, NEW n \in Amounts, FundReward(m, n)
      PROVE  \E i \in Slots : Rewards!Arrive(i)
  <2>1. PICK i \in Slots : reward_pools[i].reward_vault = m
    BY <1>2 DEF FundReward, VaultExists
  <2>2. m # NoKey
    BY KeyAssumption
  <2>3. \A j \in Slots : j # i => reward_pools[j].reward_vault # m
    BY <1>0, <2>1, <2>2 DEF VaultsDistinct, IsEmpty
  <2>4. reward_vaults' = [reward_vaults EXCEPT ![m] = @ + n]
        /\ UNCHANGED <<receipts, reward_pools>>
    BY <1>2 DEF FundReward, poolVars
  <2>5. UNCHANGED <<Stakes, Credits, LastAmounts>>
    BY <2>4 DEF Stakes, Credits, Accrued, StakeOf, LastAmounts
  <2>6. \A j \in Slots : j # i => Balances'[j] = Balances[j]
    BY <1>0, <2>3, <2>4 DEF Balances, IsEmpty, TypeOK, RewardPoolType
  <2>7. Balances[i] <= Balances'[i]
    <3>1. reward_vaults[m] \in Nat /\ n \in Nat
      BY <1>0, InputAssumption DEF TypeOK
    <3>2. Balances[i] = reward_vaults[m] /\ Balances'[i] = reward_vaults[m] + n
      BY <1>0, <2>1, <2>2, <2>4 DEF Balances, IsEmpty, TypeOK
    <3> QED BY <3>1, <3>2, SMT
  <2>8. Balances' = [Balances EXCEPT ![i] = Balances'[i]]
    BY <2>6 DEF Balances
  <2> QED BY <2>5, <2>7, <2>8 DEF Rewards!Arrive
<1> QED BY <1>1, <1>2

LEMMA LedgerInit == Init => Rewards!Init
<1> SUFFICES ASSUME Init PROVE Rewards!Init
  OBVIOUS
<1>1. Stakes = [r \in Rewards!Receipts |-> 0]
  BY DEF Init, Stakes, StakeOf, NoReceipt, Rewards!Receipts, Receipts
<1>2. Credits = [r \in Rewards!Receipts |-> Rewards!Nothing]
  <2>1. ASSUME NEW r \in Receipts, NEW i \in Slots PROVE Accrued(r, i) = 0
    <3>1. receipts[r].effective_stake = 0 /\ receipts[r].claimed_amounts[i] = 0
          /\ reward_pools[i].rewards_per_effective_stake = 0
      BY DEF Init, NoReceipt, EmptyRewardPool
    <3> QED BY <3>1, SMT DEF Accrued, StakeOf
  <2> QED BY <2>1 DEF Credits, Rewards!Receipts, Receipts, Rewards!Nothing
<1>3. LastAmounts = Rewards!Nothing /\ Balances = Rewards!Nothing
  BY DEF Init, LastAmounts, Balances, EmptyRewardPool, IsEmpty, Rewards!Nothing
<1> QED BY <1>1, <1>2, <1>3 DEF Rewards!Init

LEMMA LedgerStep == PoolInvariant /\ [Next]_vars => [Rewards!Next]_(Rewards!vars)
<1> SUFFICES ASSUME PoolInvariant, [Next]_vars
             PROVE  Rewards!Next \/ UNCHANGED Rewards!vars
  OBVIOUS
<1>1. ASSUME UNCHANGED <<receipts, reward_pools, reward_vaults>>
      PROVE  UNCHANGED Rewards!vars
  BY <1>1 DEF Rewards!vars, Stakes, Credits, Accrued, StakeOf, LastAmounts, Balances
<1>2. ASSUME \/ \E c \in PoolConfigs, a \in Accounts : InitializeStakePool(c, a)
             \/ \E a \in Accounts, f \in FlagChoices : SetFlags(a, f)
             \/ \E a, b \in Accounts : TransferAuthority(a, b)
             \/ \E a, b \in Accounts, n \in Amounts : DangerouslyMintStakeMint(a, b, n)
             \/ \E a, b \in Accounts, n \in Amounts : TransferStakeMint(a, b, n)
             \/ Tick
             \/ UNCHANGED vars
      PROVE  UNCHANGED Rewards!vars
  BY <1>1, <1>2 DEF InitializeStakePool, SetFlags, TransferAuthority, DangerouslyMintStakeMint,
                    TransferStakeMint, Tick, poolVars, tokenVars, vars
<1>3. ASSUME \/ \E a \in Accounts, i \in Slots, m \in RewardMints : AddRewardPool(a, i, m)
             \/ \E m \in RewardMints, n \in Amounts : FundReward(m, n)
      PROVE  Rewards!Next
  BY <1>3, LedgerArrive DEF Rewards!Next
<1>4. ASSUME NEW a \in Accounts, NEW r \in Receipts, NEW n \in Amounts,
             NEW d \in LockupDurations, Deposit(a, r, n, d)
      PROVE  Rewards!Next
  BY <1>4, LedgerJoin DEF Rewards!Next, Rewards!Receipts, Receipts
<1>5. ASSUME NEW r \in Receipts, NEW kept \in SUBSET Slots, ClaimAll(r, kept)
      PROVE  Rewards!Next
  BY <1>5, LedgerClaim DEF Rewards!Next, Rewards!Receipts, Receipts
<1>6. ASSUME NEW r \in Receipts, NEW to \in Accounts \cup {Vault}, NEW kept \in SUBSET Slots,
             Withdraw(r, to, kept)
      PROVE  Rewards!Next
  BY <1>6, LedgerLeave DEF Rewards!Next, Rewards!Receipts, Receipts
<1> QED BY <1>2, <1>3, <1>4, <1>5, <1>6 DEF Next, AdminNext, StakerNext, EnvironmentNext

\* The accumulator and the receipts' marks pay every receipt what a ledger would
\* that enters every arrival to every receipt, in every pool (state.rs:206-262,
\* deposit.rs:133, claim_base.rs:56-135).
THEOREM RewardLedgerIsKept == Spec => KeepsRewardLedger
BY LedgerInit, LedgerStep, PoolIsInvariant, PTL DEF Spec, KeepsRewardLedger, Rewards!Spec

=============================================================================
