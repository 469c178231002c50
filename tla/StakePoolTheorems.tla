-------------------------- MODULE StakePoolTheorems --------------------------
(***************************************************************************)
(* The pool's invariants, for every number of receipts, slots, accounts    *)
(* and mints and every width of the machine integers. First PoolInvariant: *)
(* one lemma per action; the two halves every reward instruction shares,   *)
(* the refresh and the claim, are lemmas of their own. Then, on top of it, *)
(* the stake mint's: while deposits never skip the mint there are enough   *)
(* tokens to burn for every open receipt, and while withdrawals never skip *)
(* the burn and the authority mints none there is room for every deposit.  *)
(***************************************************************************)
EXTENDS StakePoolProperties, StakeMathTheorems

\* RewardSolvency, of any pools, receipts and vaults rather than of the state's.
Shares(rs, pools, i) ==
    [r \in Receipts |->
        rs[r].effective_stake
            * (pools[i].rewards_per_effective_stake - rs[r].claimed_amounts[i])]

SolventAt(pools, rs, vaults, i) ==
    /\ pools[i].last_amount <= vaults[pools[i].reward_vault]
    /\ Total(Shares(rs, pools, i), NumReceipts)
           <= pools[i].last_amount * SCALE_FACTOR_BASE_SQUARED

Solvent(pools, rs, vaults) ==
    \A i \in Slots : ~ IsEmpty(pools[i]) => SolventAt(pools, rs, vaults, i)

\* What the pools' side of PoolInvariant says, of any pools.
PoolsOK(pools) ==
    /\ pools \in [Slots -> RewardPoolType]
    /\ \A i \in Slots : IsEmpty(pools[i]) => pools[i] = EmptyRewardPool
    /\ \A i, j \in Slots :
          ~ IsEmpty(pools[i]) /\ pools[i].reward_vault = pools[j].reward_vault => i = j

Behind(pools, rs) ==
    \A r \in Receipts, i \in Slots :
        rs[r].claimed_amounts[i] <= pools[i].rewards_per_effective_stake

\* The refreshed and the claimed pools keep the slots' vaults, and their
\* accumulators only rise.
Follows(new, old) ==
    \A i \in Slots :
        /\ new[i].reward_vault = old[i].reward_vault
        /\ old[i].rewards_per_effective_stake <= new[i].rewards_per_effective_stake

LEMMA InvariantParts ==
    /\ TypeOK /\ EmptySlotsZero /\ VaultsDistinct => PoolsOK(reward_pools)
    /\ ReceiptsBehindPools <=> Behind(reward_pools, receipts)
    /\ RewardSolvency <=> Solvent(reward_pools, receipts, reward_vaults)
BY DEF TypeOK, EmptySlotsZero, VaultsDistinct, PoolsOK, ReceiptsBehindPools, Behind,
       RewardSolvency, Solvent, SolventAt, Accrued, StakeOf, Shares

\* The share of a receipt is a natural number.
LEMMA SharesNat ==
    ASSUME NEW pools, PoolsOK(pools), NEW rs \in [Receipts -> ReceiptType],
           Behind(pools, rs), NEW i \in Slots
    PROVE  \A r \in 1..NumReceipts :
               /\ Shares(rs, pools, i)[r] \in Nat
               /\ Shares(rs, pools, i)[r] = rs[r].effective_stake
                      * (pools[i].rewards_per_effective_stake - rs[r].claimed_amounts[i])
<1> SUFFICES ASSUME NEW r \in Receipts
             PROVE  rs[r].effective_stake
                        * (pools[i].rewards_per_effective_stake - rs[r].claimed_amounts[i]) \in Nat
  BY DEF Shares, Receipts
<1>1. rs[r].effective_stake \in Nat /\ rs[r].claimed_amounts[i] \in Nat
  BY DEF ReceiptType
<1>2. pools[i].rewards_per_effective_stake \in Nat
  BY DEF PoolsOK, RewardPoolType
<1>3. rs[r].claimed_amounts[i] <= pools[i].rewards_per_effective_stake
  BY DEF Behind
<1> QED BY <1>1, <1>2, <1>3, SMT

-----------------------------------------------------------------------------
\* One slot's refresh: the accumulator rises by add and last_amount by diff,
\* the vault's growth, and add over all the stake is no more than diff.
LEMMA RefreshStep ==
    ASSUME TypeOK, PoolsOK(reward_pools), RewardSolvency, NEW i \in Slots
    PROVE  \E add \in Nat, diff \in Nat :
               /\ RefreshedPools[i] =
                      [reward_vault |-> reward_pools[i].reward_vault,
                       rewards_per_effective_stake |->
                           reward_pools[i].rewards_per_effective_stake + add,
                       last_amount |-> reward_pools[i].last_amount + diff]
               /\ total_weighted_stake * add <= diff * SCALE_FACTOR_BASE_SQUARED
               /\ IsEmpty(reward_pools[i]) => add = 0 /\ diff = 0
               /\ ~ IsEmpty(reward_pools[i]) =>
                      reward_pools[i].last_amount + diff
                          <= reward_vaults[reward_pools[i].reward_vault]
<1> DEFINE pool   == reward_pools[i]
           amount == reward_vaults[pool.reward_vault]
           grown  == ~ (total_weighted_stake = 0 \/ IsEmpty(pool) \/ amount = pool.last_amount)
           diff   == amount - pool.last_amount
           add    == AdditionalRewards(diff, total_weighted_stake)
<1>0. RefreshedPools[i] = RefreshedPool(pool)
  BY DEF RefreshedPools
<1>1. pool \in RewardPoolType
  BY DEF TypeOK
<1>2. pool = [reward_vault |-> pool.reward_vault,
              rewards_per_effective_stake |-> pool.rewards_per_effective_stake,
              last_amount |-> pool.last_amount]
  BY <1>1 DEF RewardPoolType
<1>3. ~ IsEmpty(pool) => amount \in Nat /\ pool.last_amount <= amount
  BY <1>1 DEF IsEmpty, RewardPoolType, TypeOK, RewardSolvency
<1>4. SCALE_FACTOR_BASE_SQUARED \in Nat /\ total_weighted_stake \in Nat
  BY SquareIsPositive DEF TypeOK
<1>5. CASE ~ grown
  <2>1. RefreshedPool(pool) = pool
    BY <1>5 DEF RefreshedPool
  <2>2. pool.rewards_per_effective_stake + 0 = pool.rewards_per_effective_stake
        /\ pool.last_amount + 0 = pool.last_amount
    BY <1>1, SMT DEF RewardPoolType
  <2>3. total_weighted_stake * 0 <= 0 * SCALE_FACTOR_BASE_SQUARED
    BY <1>4, SMT
  <2> HIDE DEF pool
  <2> QED BY <1>0, <1>2, <1>3, <2>1, <2>2, <2>3 DEF pool
<1>6. CASE grown
  <2>1. ~ IsEmpty(pool) /\ amount \in Nat /\ pool.last_amount \in Nat
        /\ pool.last_amount <= amount /\ total_weighted_stake \in Nat \ {0}
    BY <1>1, <1>3, <1>4, <1>6 DEF RewardPoolType
  <2>2. diff \in Nat /\ pool.last_amount + diff = amount
    BY <2>1, SMT
  <2>3. add \in Nat /\ total_weighted_stake * add <= diff * SCALE_FACTOR_BASE_SQUARED
    BY <2>1, <2>2, AdditionalRewardsBound
  <2>4. RefreshedPool(pool) = [reward_vault |-> pool.reward_vault,
                               rewards_per_effective_stake |->
                                   pool.rewards_per_effective_stake + add,
                               last_amount |-> amount]
    BY <1>1, <1>6 DEF RefreshedPool, RewardPoolType
  <2>5. RefreshedPools[i] = [reward_vault |-> pool.reward_vault,
                             rewards_per_effective_stake |->
                                 pool.rewards_per_effective_stake + add,
                             last_amount |-> pool.last_amount + diff]
    BY <1>0, <2>2, <2>4
  <2>6. pool.last_amount + diff <= amount
    BY <2>1, <2>2, SMT
  <2> HIDE DEF add, diff, grown
  <2> QED BY <2>1, <2>2, <2>3, <2>5, <2>6
<1> QED BY <1>5, <1>6

\* The refreshed pools are pools, their accumulators have not fallen, and what
\* the receipts have accrued in them is still covered by last_amount.
LEMMA RefreshKeepsPools ==
    ASSUME PoolInvariant
    PROVE  /\ PoolsOK(RefreshedPools)
           /\ Follows(RefreshedPools, reward_pools)
           /\ Behind(RefreshedPools, receipts)
           /\ Solvent(RefreshedPools, receipts, reward_vaults)
<1>0. /\ TypeOK /\ PoolsOK(reward_pools) /\ RewardSolvency /\ StakeAccounting
      /\ Behind(reward_pools, receipts) /\ Solvent(reward_pools, receipts, reward_vaults)
  BY InvariantParts DEF PoolInvariant
<1>1. ASSUME NEW i \in Slots
      PROVE  /\ RefreshedPools[i] \in RewardPoolType
             /\ RefreshedPools[i].reward_vault = reward_pools[i].reward_vault
             /\ reward_pools[i].rewards_per_effective_stake
                    <= RefreshedPools[i].rewards_per_effective_stake
             /\ IsEmpty(reward_pools[i]) => RefreshedPools[i] = EmptyRewardPool
  <2>1. reward_pools[i] \in RewardPoolType
        /\ (IsEmpty(reward_pools[i]) => reward_pools[i] = EmptyRewardPool)
    BY <1>0 DEF PoolsOK
  <2>2. PICK add \in Nat, diff \in Nat :
            /\ RefreshedPools[i] =
                   [reward_vault |-> reward_pools[i].reward_vault,
                    rewards_per_effective_stake |->
                        reward_pools[i].rewards_per_effective_stake + add,
                    last_amount |-> reward_pools[i].last_amount + diff]
            /\ IsEmpty(reward_pools[i]) => add = 0 /\ diff = 0
    BY <1>0, RefreshStep
  <2> QED BY <2>1, <2>2, SMT DEF RewardPoolType, EmptyRewardPool
<1>2. PoolsOK(RefreshedPools)
  <2>1. RefreshedPools \in [Slots -> RewardPoolType]
    BY <1>1 DEF RefreshedPools
  <2> QED BY <1>0, <1>1, <2>1 DEF PoolsOK, IsEmpty
<1>3. Follows(RefreshedPools, reward_pools)
  BY <1>1 DEF Follows
<1>4. Behind(RefreshedPools, receipts)
  <2> SUFFICES ASSUME NEW r \in Receipts, NEW i \in Slots
               PROVE  receipts[r].claimed_amounts[i]
                          <= RefreshedPools[i].rewards_per_effective_stake
    BY DEF Behind
  <2>1. receipts[r].claimed_amounts[i] \in Nat
        /\ receipts[r].claimed_amounts[i] <= reward_pools[i].rewards_per_effective_stake
        /\ reward_pools[i].rewards_per_effective_stake \in Nat
        /\ RefreshedPools[i].rewards_per_effective_stake \in Nat
    BY <1>0, <1>1 DEF TypeOK, ReceiptType, RewardPoolType, Behind
  <2> QED BY <1>1, <2>1, SMT
<1>5. ASSUME NEW i \in Slots, ~ IsEmpty(RefreshedPools[i])
      PROVE  SolventAt(RefreshedPools, receipts, reward_vaults, i)
  <2>1. PICK add \in Nat, diff \in Nat :
               /\ RefreshedPools[i] =
                      [reward_vault |-> reward_pools[i].reward_vault,
                       rewards_per_effective_stake |->
                           reward_pools[i].rewards_per_effective_stake + add,
                       last_amount |-> reward_pools[i].last_amount + diff]
               /\ total_weighted_stake * add <= diff * SCALE_FACTOR_BASE_SQUARED
               /\ ~ IsEmpty(reward_pools[i]) =>
                      reward_pools[i].last_amount + diff
                          <= reward_vaults[reward_pools[i].reward_vault]
    BY <1>0, RefreshStep
  <2>2. ~ IsEmpty(reward_pools[i])
    BY <1>1, <1>5 DEF IsEmpty
  <2> DEFINE f == Shares(receipts, reward_pools, i)
             g == [r \in Receipts |-> StakeOf(r)]
             h == Shares(receipts, RefreshedPools, i)
  <2>3. \A r \in 1..NumReceipts : f[r] \in Int /\ g[r] \in Int /\ h[r] = f[r] + add * g[r]
    <3> SUFFICES ASSUME NEW r \in Receipts
                 PROVE  f[r] \in Int /\ g[r] \in Int /\ h[r] = f[r] + add * g[r]
      BY DEF Receipts
    <3>1. receipts[r].effective_stake \in Nat /\ receipts[r].claimed_amounts[i] \in Nat
          /\ reward_pools[i].rewards_per_effective_stake \in Nat
      BY <1>0 DEF TypeOK, ReceiptType, RewardPoolType
    <3>0. RefreshedPools[i].rewards_per_effective_stake
              = reward_pools[i].rewards_per_effective_stake + add
      BY <2>1
    <3>2. f[r] = receipts[r].effective_stake
                 * (reward_pools[i].rewards_per_effective_stake - receipts[r].claimed_amounts[i])
      BY Zenon DEF Shares
    <3>3. h[r] = receipts[r].effective_stake
                 * (RefreshedPools[i].rewards_per_effective_stake - receipts[r].claimed_amounts[i])
      BY Zenon DEF Shares
    <3>4. g[r] = receipts[r].effective_stake
      BY DEF StakeOf
    <3> HIDE DEF f, g, h
    <3> QED BY <3>0, <3>1, <3>2, <3>3, <3>4, SMT
  <2>4. Total(h, NumReceipts) = Total(f, NumReceipts) + add * Total(g, NumReceipts)
    <3> HIDE DEF f, g, h
    <3> QED BY <2>3, SizeAssumption, TotalLinear, SMT
  <2>5. Total(f, NumReceipts) \in Int
    <3> HIDE DEF f, g, h
    <3> QED BY <2>3, SizeAssumption, TotalInt
  <2>6. Total(f, NumReceipts) <= reward_pools[i].last_amount * SCALE_FACTOR_BASE_SQUARED
    BY <1>0, <2>2 DEF Solvent, SolventAt
  <2>7. Total(g, NumReceipts) = total_weighted_stake
    BY <1>0 DEF StakeAccounting
  <2>8. total_weighted_stake \in Nat /\ reward_pools[i].last_amount \in Nat
        /\ SCALE_FACTOR_BASE_SQUARED \in Nat
    BY <1>0, SquareIsPositive DEF TypeOK, RewardPoolType
  <2>9. Total(h, NumReceipts)
            <= (reward_pools[i].last_amount + diff) * SCALE_FACTOR_BASE_SQUARED
    <3> HIDE DEF f, g, h
    <3> QED BY <2>1, <2>4, <2>5, <2>6, <2>7, <2>8, SMT
  <2> QED BY <2>1, <2>2, <2>9 DEF SolventAt
<1> QED BY <1>2, <1>3, <1>4, <1>5 DEF Solvent

-----------------------------------------------------------------------------
\* A receipt's claim from a slot is covered by what it accrued there, and so
\* by the slot's last_amount.
LEMMA ClaimIsCovered ==
    ASSUME TypeOK, NEW pools, PoolsOK(pools), Behind(pools, receipts),
           Solvent(pools, receipts, reward_vaults),
           NEW r \in Receipts, NEW i \in Slots
    PROVE  /\ Claimable(r, pools)[i] \in Nat
           /\ IsEmpty(pools[i]) => Claimable(r, pools)[i] = 0
           /\ ~ IsEmpty(pools[i]) =>
                 /\ SCALE_FACTOR_BASE_SQUARED * Claimable(r, pools)[i]
                        <= Shares(receipts, pools, i)[r]
                 /\ Claimable(r, pools)[i] <= pools[i].last_amount
<1> DEFINE stake   == receipts[r].effective_stake
           claimed == receipts[r].claimed_amounts[i]
           rewards == pools[i].rewards_per_effective_stake
           last    == pools[i].last_amount
           c       == ClaimableAmount(rewards, claimed, stake)
           share   == Shares(receipts, pools, i)[r]
<1>1. stake \in Nat /\ claimed \in Nat
  BY DEF TypeOK, ReceiptType
<1>2. rewards \in Nat /\ last \in Nat
  BY DEF PoolsOK, RewardPoolType
<1>3. claimed \in 0..rewards
  <2>1. claimed <= rewards
    BY DEF Behind
  <2> QED BY <1>1, <1>2, <2>1, SMT
<1>4. c \in Nat /\ SCALE_FACTOR_BASE_SQUARED * c <= stake * (rewards - claimed)
  BY <1>1, <1>2, <1>3, ClaimableBound
<1>5. Claimable(r, pools)[i] = IF IsEmpty(pools[i]) THEN 0 ELSE c
  BY DEF Claimable
<1>6. share = stake * (rewards - claimed) /\ share \in Nat
  <2>1. share = stake * (rewards - claimed)
    BY Zenon DEF Shares
  <2> QED BY <1>1, <1>2, <1>3, <2>1, SMT
<1>7. ASSUME ~ IsEmpty(pools[i]) PROVE c <= last
  <2> DEFINE f == Shares(receipts, pools, i)
  <2>1. \A q \in 1..NumReceipts : f[q] \in Nat
    BY SharesNat DEF TypeOK
  <2>2. r \in 1..NumReceipts /\ NumReceipts \in Nat
    BY SizeAssumption DEF Receipts
  <2>3. Total(f, NumReceipts) \in Nat /\ share <= Total(f, NumReceipts)
    <3> HIDE DEF f
    <3>1. f[r] <= Total(f, NumReceipts) /\ Total(f, NumReceipts) \in Nat
      BY <2>1, <2>2, TotalBoundsTerm, TotalNat
    <3> QED BY <3>1 DEF f
  <2>4. Total(f, NumReceipts) <= last * SCALE_FACTOR_BASE_SQUARED
    BY <1>7 DEF Solvent, SolventAt
  <2> HIDE DEF c, share, last, f
  <2>5. SCALE_FACTOR_BASE_SQUARED * c <= last * SCALE_FACTOR_BASE_SQUARED
    BY <1>2, <1>4, <1>6, <2>3, <2>4, SquareIsPositive, SMT DEF c, last
  <2> QED BY <1>2, <1>4, <2>5, SquareIsPositive, SMT DEF c, last
<1> HIDE DEF c, share, last, stake, claimed, rewards
<1> QED BY <1>4, <1>5, <1>6, <1>7 DEF share, last, stake, claimed, rewards

\* A vault is the vault of one slot: what leaves it is that slot's claim, or
\* nothing when the claimant keeps the rewards there.
LEMMA PaidFromOneSlot ==
    ASSUME TypeOK, NEW pools, PoolsOK(pools), Behind(pools, receipts),
           Solvent(pools, receipts, reward_vaults),
           NEW r \in Receipts, NEW kept \in SUBSET Slots
    PROVE  /\ \A i \in Slots : ~ IsEmpty(pools[i]) =>
                  PaidFrom(pools[i].reward_vault, r, pools, kept)
                      = IF i \in kept THEN 0 ELSE Claimable(r, pools)[i]
           /\ \A m \in RewardMints :
                  (\A i \in Slots : pools[i].reward_vault # m) =>
                      PaidFrom(m, r, pools, kept) = 0
<1> DEFINE paid(m) == [i \in Slots |->
                          IF pools[i].reward_vault = m /\ i \notin kept
                          THEN Claimable(r, pools)[i] ELSE 0]
<1>0. MAX_REWARD_POOLS \in Nat /\ Slots = 1..MAX_REWARD_POOLS
  BY SizeAssumption DEF Slots
<1>1. ASSUME NEW i \in Slots, ~ IsEmpty(pools[i])
      PROVE  Total(paid(pools[i].reward_vault), MAX_REWARD_POOLS)
                 = IF i \in kept THEN 0 ELSE Claimable(r, pools)[i]
  <2> DEFINE f == paid(pools[i].reward_vault)
  <2>1. f[i] = (IF i \in kept THEN 0 ELSE Claimable(r, pools)[i]) /\ f[i] \in Int
    BY ClaimIsCovered, SMT
  <2>2. \A j \in 1..MAX_REWARD_POOLS : j # i => f[j] = 0
    BY <1>0, <1>1 DEF PoolsOK
  <2> HIDE DEF f
  <2>3. Total(f, MAX_REWARD_POOLS) = f[i]
    BY <1>0, <2>1, <2>2, TotalSingle
  <2> QED BY <2>1, <2>3 DEF f
<1>2. ASSUME NEW m \in RewardMints, \A i \in Slots : pools[i].reward_vault # m
      PROVE  Total(paid(m), MAX_REWARD_POOLS) = 0
  <2> DEFINE f == paid(m)
  <2>1. \A j \in 1..MAX_REWARD_POOLS : f[j] = 0
    BY <1>0, <1>2
  <2> HIDE DEF f
  <2>2. Total(f, MAX_REWARD_POOLS) = 0
    BY <1>0, <2>1, TotalZero
  <2> QED BY <2>2 DEF f
<1> QED BY <1>1, <1>2 DEF PaidFrom

\* After a claim no vault has gone below zero or gained, and every slot's vault
\* has lost at most the claim from that slot.
LEMMA ClaimKeepsVaults ==
    ASSUME TypeOK, NEW pools, PoolsOK(pools), Behind(pools, receipts),
           Solvent(pools, receipts, reward_vaults),
           NEW r \in Receipts, NEW kept \in SUBSET Slots
    PROVE  LET vaults == VaultsAfterClaim(r, pools, kept)
           IN  /\ vaults \in [RewardMints -> Nat]
               /\ \A m \in RewardMints : vaults[m] <= reward_vaults[m]
               /\ \A i \in Slots : ~ IsEmpty(pools[i]) =>
                     reward_vaults[pools[i].reward_vault] - Claimable(r, pools)[i]
                         <= vaults[pools[i].reward_vault]
<1> DEFINE vaults == VaultsAfterClaim(r, pools, kept)
<1>1. ASSUME NEW i \in Slots, ~ IsEmpty(pools[i])
      PROVE  /\ pools[i].reward_vault \in RewardMints
             /\ pools[i].last_amount <= reward_vaults[pools[i].reward_vault]
             /\ pools[i].last_amount \in Nat
             /\ reward_vaults[pools[i].reward_vault] \in Nat
  BY <1>1 DEF PoolsOK, RewardPoolType, IsEmpty, Solvent, SolventAt, TypeOK
<1>2. ASSUME NEW i \in Slots, ~ IsEmpty(pools[i])
      PROVE  /\ PaidFrom(pools[i].reward_vault, r, pools, kept) \in Nat
             /\ PaidFrom(pools[i].reward_vault, r, pools, kept) <= Claimable(r, pools)[i]
             /\ Claimable(r, pools)[i] \in Nat
             /\ Claimable(r, pools)[i] <= reward_vaults[pools[i].reward_vault]
  <2>1. Claimable(r, pools)[i] \in Nat /\ Claimable(r, pools)[i] <= pools[i].last_amount
    BY <1>2, ClaimIsCovered
  <2>2. PaidFrom(pools[i].reward_vault, r, pools, kept)
            = IF i \in kept THEN 0 ELSE Claimable(r, pools)[i]
    BY <1>2, PaidFromOneSlot
  <2> QED BY <1>1, <1>2, <2>1, <2>2, SMT
<1>3. ASSUME NEW m \in RewardMints
      PROVE  /\ reward_vaults[m] \in Nat
             /\ reward_vaults[m] - PaidFrom(m, r, pools, kept) \in Nat
             /\ reward_vaults[m] - PaidFrom(m, r, pools, kept) <= reward_vaults[m]
  <2>0. reward_vaults[m] \in Nat
    BY DEF TypeOK
  <2>1. CASE \E i \in Slots : pools[i].reward_vault = m
    <3>1. PICK i \in Slots : pools[i].reward_vault = m
      BY <2>1
    <3>2. ~ IsEmpty(pools[i])
      BY <3>1, KeyAssumption DEF IsEmpty
    <3> QED BY <1>2, <2>0, <3>1, <3>2, SMT
  <2>2. CASE \A i \in Slots : pools[i].reward_vault # m
    <3>1. PaidFrom(m, r, pools, kept) = 0
      BY <2>2, PaidFromOneSlot
    <3> QED BY <2>0, <3>1, SMT
  <2> QED BY <2>1, <2>2
<1>4. ASSUME NEW m \in RewardMints
      PROVE  vaults[m] = reward_vaults[m] - PaidFrom(m, r, pools, kept)
  BY DEF VaultsAfterClaim
<1>5. vaults \in [RewardMints -> Nat]
  BY <1>3 DEF VaultsAfterClaim
<1>6. ASSUME NEW i \in Slots, ~ IsEmpty(pools[i])
      PROVE  reward_vaults[pools[i].reward_vault] - Claimable(r, pools)[i]
                 <= vaults[pools[i].reward_vault]
  <2>1. vaults[pools[i].reward_vault] = reward_vaults[pools[i].reward_vault]
                                        - PaidFrom(pools[i].reward_vault, r, pools, kept)
    BY <1>1, <1>4, <1>6
  <2> QED BY <1>1, <1>2, <1>6, <2>1, SMT
<1> HIDE DEF vaults
<1>7. \A m \in RewardMints : vaults[m] <= reward_vaults[m]
  BY <1>3, <1>4
<1> QED BY <1>5, <1>6, <1>7 DEF vaults

\* After a claim the slots are still slots, with the same vaults and accumulators.
LEMMA ClaimKeepsPools ==
    ASSUME TypeOK, NEW pools, PoolsOK(pools), Behind(pools, receipts),
           Solvent(pools, receipts, reward_vaults), NEW r \in Receipts
    PROVE  LET after == PoolsAfterClaim(r, pools)
           IN  /\ PoolsOK(after)
               /\ \A i \in Slots :
                     /\ after[i].reward_vault = pools[i].reward_vault
                     /\ after[i].rewards_per_effective_stake
                            = pools[i].rewards_per_effective_stake
                     /\ after[i].last_amount = pools[i].last_amount - Claimable(r, pools)[i]
<1> DEFINE after == PoolsAfterClaim(r, pools)
<1>1. ASSUME NEW i \in Slots
      PROVE  /\ after[i] \in RewardPoolType
             /\ after[i].reward_vault = pools[i].reward_vault
             /\ after[i].rewards_per_effective_stake = pools[i].rewards_per_effective_stake
             /\ after[i].last_amount = pools[i].last_amount - Claimable(r, pools)[i]
             /\ IsEmpty(after[i]) => after[i] = EmptyRewardPool
  <2> DEFINE c == Claimable(r, pools)[i]
  <2>1. /\ pools[i] \in RewardPoolType
        /\ IsEmpty(pools[i]) => pools[i] = EmptyRewardPool
    BY DEF PoolsOK
  <2>2. c \in Nat /\ (IsEmpty(pools[i]) => c = 0) /\ (~ IsEmpty(pools[i]) => c <= pools[i].last_amount)
    BY ClaimIsCovered
  <2>3. after[i] = [pools[i] EXCEPT !.last_amount = pools[i].last_amount - c]
    BY DEF PoolsAfterClaim
  <2> HIDE DEF after, c
  <2>4. after[i] = [reward_vault |-> pools[i].reward_vault,
                    rewards_per_effective_stake |-> pools[i].rewards_per_effective_stake,
                    last_amount |-> pools[i].last_amount - c]
    BY <2>1, <2>3 DEF RewardPoolType
  <2>5. pools[i].last_amount - c \in Nat
    BY <2>1, <2>2, SMT DEF RewardPoolType, EmptyRewardPool
  <2> QED BY <2>1, <2>2, <2>4, <2>5, SMT DEF RewardPoolType, EmptyRewardPool, IsEmpty, c
<1>2. after \in [Slots -> RewardPoolType]
  BY <1>1 DEF PoolsAfterClaim
<1> HIDE DEF after
<1>3. PoolsOK(after)
  BY <1>1, <1>2 DEF PoolsOK, IsEmpty
<1> QED BY <1>1, <1>3 DEF after

\* Pools stay solvent through a claim when the claimant is left with no share:
\* its receipt has caught up with every accumulator, or has no stake any more.
LEMMA ClaimKeepsSolvent ==
    ASSUME TypeOK, NEW pools, PoolsOK(pools), Behind(pools, receipts),
           Solvent(pools, receipts, reward_vaults),
           NEW r \in Receipts, NEW kept \in SUBSET Slots,
           NEW rs \in [Receipts -> ReceiptType],
           \A q \in Receipts : q # r => rs[q] = receipts[q],
           \A i \in Slots : ~ IsEmpty(pools[i]) =>
               \/ rs[r].effective_stake = 0
               \/ rs[r].claimed_amounts[i] = pools[i].rewards_per_effective_stake
    PROVE  Solvent(PoolsAfterClaim(r, pools), rs, VaultsAfterClaim(r, pools, kept))
<1> DEFINE after  == PoolsAfterClaim(r, pools)
           vaults == VaultsAfterClaim(r, pools, kept)
<1> SUFFICES ASSUME NEW i \in Slots, ~ IsEmpty(after[i])
             PROVE  SolventAt(after, rs, vaults, i)
  BY DEF Solvent
<1> DEFINE c    == Claimable(r, pools)[i]
           last == pools[i].last_amount
           f    == Shares(receipts, pools, i)
           g    == Shares(rs, after, i)
<1>1. /\ after[i].reward_vault = pools[i].reward_vault
      /\ after[i].rewards_per_effective_stake = pools[i].rewards_per_effective_stake
      /\ after[i].last_amount = last - c
      /\ ~ IsEmpty(pools[i])
  BY ClaimKeepsPools DEF IsEmpty
<1>2. /\ c \in Nat /\ last \in Nat
      /\ SCALE_FACTOR_BASE_SQUARED * c <= f[r]
      /\ c <= last
  BY <1>1, ClaimIsCovered DEF PoolsOK, RewardPoolType
<1>3. last - c <= vaults[pools[i].reward_vault]
  <2>1. /\ reward_vaults[pools[i].reward_vault] - c <= vaults[pools[i].reward_vault]
        /\ vaults \in [RewardMints -> Nat]
    BY <1>1, ClaimKeepsVaults
  <2>2. /\ pools[i].reward_vault \in RewardMints
        /\ last <= reward_vaults[pools[i].reward_vault]
        /\ reward_vaults[pools[i].reward_vault] \in Nat
    BY <1>1 DEF PoolsOK, RewardPoolType, IsEmpty, Solvent, SolventAt, TypeOK
  <2>3. vaults[pools[i].reward_vault] \in Nat
    BY <2>1, <2>2
  <2> HIDE DEF c, last, vaults
  <2> QED BY <1>2, <2>1, <2>2, <2>3, SMT
<1>4. \A q \in 1..NumReceipts : f[q] \in Nat
  BY SharesNat DEF TypeOK
<1>5. ASSUME NEW q \in 1..NumReceipts PROVE g[q] = IF q = r THEN 0 ELSE f[q]
  <2>0. q \in Receipts
    BY DEF Receipts
  <2>1. g[q] = rs[q].effective_stake
                   * (after[i].rewards_per_effective_stake - rs[q].claimed_amounts[i])
    BY <2>0, Zenon DEF Shares
  <2>2. f[q] = receipts[q].effective_stake
                   * (pools[i].rewards_per_effective_stake - receipts[q].claimed_amounts[i])
    BY <2>0, Zenon DEF Shares
  <2>3. CASE q # r
    BY <1>1, <2>0, <2>1, <2>2, <2>3
  <2>4. CASE q = r
    <3>1. rs[r].effective_stake \in Nat /\ rs[r].claimed_amounts[i] \in Nat
          /\ pools[i].rewards_per_effective_stake \in Nat
      BY DEF ReceiptType, PoolsOK, RewardPoolType
    <3>2. rs[r].effective_stake
              * (pools[i].rewards_per_effective_stake - rs[r].claimed_amounts[i]) = 0
      BY <1>1, <3>1, SMT
    <3> QED BY <1>1, <2>1, <2>4, <3>2
  <2> QED BY <2>3, <2>4
<1>6. Total(g, NumReceipts) = Total(f, NumReceipts) - f[r] /\ Total(f, NumReceipts) \in Nat
      /\ f[r] \in Nat
  <2>1. NumReceipts \in Nat /\ r \in 1..NumReceipts
    BY SizeAssumption DEF Receipts
  <2>2. /\ \A q \in 1..NumReceipts : f[q] \in Int /\ g[q] \in Int
        /\ \A q \in 1..NumReceipts : q # r => g[q] = f[q]
        /\ g[r] = 0
    <3> HIDE DEF f, g
    <3> QED BY <1>4, <1>5, <2>1, SMT
  <2> HIDE DEF f, g
  <2>3. Total(g, NumReceipts) = Total(f, NumReceipts) + (g[r] - f[r])
    BY ONLY <2>1, <2>2, TotalUpdate
  <2>4. Total(f, NumReceipts) \in Nat
    BY ONLY <1>4, <2>1, TotalNat
  <2> QED BY <1>4, <2>1, <2>2, <2>3, <2>4, SMT
<1>7. Total(f, NumReceipts) <= last * SCALE_FACTOR_BASE_SQUARED
  BY <1>1 DEF Solvent, SolventAt
<1>8. Total(g, NumReceipts) <= (last - c) * SCALE_FACTOR_BASE_SQUARED
  <2> HIDE DEF f, g, c, last
  <2> QED BY <1>2, <1>6, <1>7, SquareIsPositive, SMT
<1> HIDE DEF after, vaults, c, last
<1> QED BY <1>1, <1>3, <1>8 DEF SolventAt

-----------------------------------------------------------------------------
THEOREM InitInvariant == Init => PoolInvariant
<1> SUFFICES ASSUME Init PROVE PoolInvariant
  OBVIOUS
<1>0. NumReceipts \in Nat /\ MaxTime \in Nat
  BY SizeAssumption
<1>1. TypeOK
  <2>1. tokens \in [Accounts \cup {Vault} -> Nat] /\ unsent \in [RewardMints -> Nat]
    BY SupplyAssumption DEF Init
  <2>2. NoConfig \in [base_weight : Nat, max_weight : Nat, min_duration : Nat, max_duration : Nat]
    BY DEF NoConfig
  <2>3. EmptyRewardPool \in RewardPoolType
    BY DEF EmptyRewardPool, RewardPoolType
  <2>4. NoReceipt \in ReceiptType
    BY DEF NoReceipt, ReceiptType
  <2> QED BY <1>0, <2>1, <2>2, <2>3, <2>4, SMT DEF Init, TypeOK
<1>2. ConfigValid /\ ClosedReceiptsEmpty /\ EmptySlotsZero /\ VaultsDistinct
  BY DEF Init, ConfigValid, Initialized, ClosedReceiptsEmpty, EmptySlotsZero, VaultsDistinct,
         IsEmpty, EmptyRewardPool
<1>3. ReceiptsBehindPools
  BY DEF Init, ReceiptsBehindPools, EmptyRewardPool, NoReceipt
<1>4. VaultsWithinSupply
  BY SupplyAssumption, SMT DEF Init, VaultsWithinSupply
<1>5. StakeAccounting
  <2> DEFINE f == [r \in Receipts |-> StakeOf(r)]
  <2>1. \A r \in 1..NumReceipts : f[r] = 0
    BY DEF Init, StakeOf, NoReceipt, Receipts
  <2> HIDE DEF f
  <2>2. Total(f, NumReceipts) = 0
    BY ONLY <1>0, <2>1, TotalZero
  <2> QED BY <2>2 DEF f, StakeAccounting, Init
<1>6. PrincipalBacked
  <2> DEFINE f == [r \in Receipts |-> PrincipalOf(r)]
  <2>1. \A r \in 1..NumReceipts : f[r] = 0
    BY DEF Init, PrincipalOf, NoReceipt, Receipts
  <2> HIDE DEF f
  <2>2. Total(f, NumReceipts) = 0
    BY ONLY <1>0, <2>1, TotalZero
  <2>3. tokens[Vault] = 0
    BY DEF Init
  <2> QED BY <2>2, <2>3, SMT DEF f, PrincipalBacked
<1>7. RewardSolvency
  BY DEF Init, RewardSolvency, IsEmpty, EmptyRewardPool
<1> QED BY <1>1, <1>2, <1>3, <1>4, <1>5, <1>6, <1>7 DEF PoolInvariant

\* A step that leaves these variables alone only has its types to answer for.
LEMMA FrameKeepsInvariant ==
    ASSUME PoolInvariant, TypeOK',
           UNCHANGED <<config, total_weighted_stake, reward_pools, receipts, tokens,
                       reward_vaults, unsent>>
    PROVE  PoolInvariant'
<1>1. ConfigValid' /\ ClosedReceiptsEmpty' /\ EmptySlotsZero' /\ VaultsDistinct'
      /\ ReceiptsBehindPools' /\ VaultsWithinSupply'
  BY DEF PoolInvariant, ConfigValid, Initialized, ClosedReceiptsEmpty, EmptySlotsZero,
         VaultsDistinct, ReceiptsBehindPools, VaultsWithinSupply
<1>2. StakeAccounting' /\ PrincipalBacked'
  BY DEF PoolInvariant, StakeAccounting, PrincipalBacked, StakeOf, PrincipalOf
<1>3. RewardSolvency'
  BY DEF PoolInvariant, RewardSolvency, Accrued, StakeOf
<1> QED BY <1>1, <1>2, <1>3 DEF PoolInvariant

\* The steps of the authority and of the environment that only have types to
\* answer for.
LEMMA SettingsKeepInvariant ==
    ASSUME PoolInvariant,
           \/ \E a \in Accounts, f \in FlagChoices : SetFlags(a, f)
           \/ \E a, b \in Accounts : TransferAuthority(a, b)
           \/ \E a, b \in Accounts, n \in Amounts : DangerouslyMintStakeMint(a, b, n)
           \/ \E a, b \in Accounts, n \in Amounts : TransferStakeMint(a, b, n)
           \/ Tick
           \/ UNCHANGED vars
    PROVE  PoolInvariant'
<1>0. Amounts \subseteq Nat /\ FlagChoices \subseteq SUBSET AllFlags
  BY InputAssumption, SMT
<1>1. ASSUME NEW a \in Accounts, NEW f \in FlagChoices, SetFlags(a, f) PROVE PoolInvariant'
  BY <1>0, <1>1, FrameKeepsInvariant DEF SetFlags, tokenVars, PoolInvariant, TypeOK
<1>2. ASSUME NEW a \in Accounts, NEW b \in Accounts, TransferAuthority(a, b)
      PROVE  PoolInvariant'
  BY <1>2, FrameKeepsInvariant DEF TransferAuthority, tokenVars, PoolInvariant, TypeOK
<1>3. ASSUME NEW a \in Accounts, NEW b \in Accounts, NEW n \in Amounts,
             DangerouslyMintStakeMint(a, b, n)
      PROVE  PoolInvariant'
  <2>1. TypeOK'
    BY <1>0, <1>3, SMT DEF DangerouslyMintStakeMint, MintTo, poolVars, PoolInvariant, TypeOK
  <2> QED BY <1>3, <2>1, FrameKeepsInvariant DEF DangerouslyMintStakeMint, poolVars
<1>4. ASSUME NEW a \in Accounts, NEW b \in Accounts, NEW n \in Amounts,
             TransferStakeMint(a, b, n)
      PROVE  PoolInvariant'
  <2>1. TypeOK'
    BY <1>0, <1>4, SMT DEF TransferStakeMint, Transfer, poolVars, PoolInvariant, TypeOK
  <2> QED BY <1>4, <2>1, FrameKeepsInvariant DEF TransferStakeMint, poolVars
<1>5. CASE Tick
  <2>1. TypeOK'
    BY <1>5, SizeAssumption, SMT DEF Tick, poolVars, tokenVars, PoolInvariant, TypeOK
  <2> QED BY <1>5, <2>1, FrameKeepsInvariant DEF Tick, poolVars, tokenVars
<1>6. CASE UNCHANGED vars
  <2>1. TypeOK'
    BY <1>6 DEF vars, poolVars, tokenVars, PoolInvariant, TypeOK
  <2> QED BY <1>6, <2>1, FrameKeepsInvariant DEF vars, poolVars, tokenVars
<1> QED BY <1>1, <1>2, <1>3, <1>4, <1>5, <1>6

LEMMA InitializeKeepsInvariant ==
    ASSUME PoolInvariant, NEW c \in PoolConfigs, NEW a \in Accounts, InitializeStakePool(c, a)
    PROVE  PoolInvariant'
<1>0. /\ c.max_weight \in Nat /\ c.min_duration \in Nat /\ c.max_duration \in Nat
      /\ SCALE_FACTOR_BASE \in Nat
  BY InputAssumption, ScaleAssumption, SMT
<1>1. TypeOK'
  BY <1>0 DEF InitializeStakePool, PoolInvariant, TypeOK, tokenVars
<1>2. ConfigValid'
  BY <1>0, SMT DEF InitializeStakePool, ConfigValid, IsPool
<1>3. ClosedReceiptsEmpty' /\ EmptySlotsZero' /\ VaultsDistinct'
      /\ ReceiptsBehindPools' /\ VaultsWithinSupply'
  BY DEF InitializeStakePool, tokenVars, PoolInvariant, ClosedReceiptsEmpty, EmptySlotsZero,
         VaultsDistinct, ReceiptsBehindPools, VaultsWithinSupply
<1>4. StakeAccounting' /\ PrincipalBacked' /\ RewardSolvency'
  BY DEF InitializeStakePool, tokenVars, PoolInvariant, StakeAccounting, PrincipalBacked,
         RewardSolvency, Accrued, StakeOf, PrincipalOf
<1> QED BY <1>1, <1>2, <1>3, <1>4 DEF PoolInvariant

\* A new slot starts where every receipt has already caught up with it: the
\* slot was empty, and so its accumulator and every claimed amount are zero.
LEMMA AddRewardPoolKeepsInvariant ==
    ASSUME PoolInvariant, NEW a \in Accounts, NEW i \in Slots, NEW m \in RewardMints,
           AddRewardPool(a, i, m)
    PROVE  PoolInvariant'
<1> DEFINE new == [reward_vault |-> m, rewards_per_effective_stake |-> 0, last_amount |-> 0]
<1>0. /\ TypeOK /\ Solvent(reward_pools, receipts, reward_vaults)
      /\ PoolsOK(reward_pools) /\ Behind(reward_pools, receipts)
  BY InvariantParts DEF PoolInvariant
<1>1. /\ reward_pools' = [reward_pools EXCEPT ![i] = new]
      /\ IsEmpty(reward_pools[i]) /\ ~ VaultExists(m)
      /\ UNCHANGED <<config, authority, flags, total_weighted_stake, receipts, tokens,
                     reward_vaults, unsent, lp, stake_mint_supply, clock>>
  <2>1. [EmptyRewardPool EXCEPT !.reward_vault = m] = new
    BY DEF EmptyRewardPool
  <2> HIDE DEF new
  <2> QED BY <2>1 DEF AddRewardPool, tokenVars
<1>2. reward_pools[i] = EmptyRewardPool
  BY <1>0, <1>1 DEF PoolsOK
<1>3. new \in RewardPoolType /\ ~ IsEmpty(new)
  BY KeyAssumption DEF RewardPoolType, IsEmpty
<1>4. reward_pools' \in [Slots -> RewardPoolType]
  BY <1>0, <1>1, <1>3 DEF TypeOK
<1>5. \A j \in Slots : reward_pools'[j] = IF j = i THEN new ELSE reward_pools[j]
  BY <1>0, <1>1 DEF TypeOK
<1>6. PoolsOK(reward_pools')
  BY <1>0, <1>1, <1>3, <1>4, <1>5 DEF PoolsOK, IsEmpty, VaultExists
<1>7. Behind(reward_pools', receipts)
  BY <1>0, <1>2, <1>5 DEF Behind, EmptyRewardPool
<1>8. Solvent(reward_pools', receipts, reward_vaults)
  <2> SUFFICES ASSUME NEW j \in Slots, ~ IsEmpty(reward_pools'[j])
               PROVE  SolventAt(reward_pools', receipts, reward_vaults, j)
    BY DEF Solvent
  <2>1. CASE j # i
    BY <1>0, <1>5, <2>1 DEF Solvent, SolventAt, Shares, IsEmpty
  <2>2. CASE j = i
    <3> DEFINE f == Shares(receipts, reward_pools', i)
    <3>0. NumReceipts \in Nat
      BY SizeAssumption
    <3>1. ASSUME NEW r \in 1..NumReceipts PROVE f[r] = 0
      <4>0. r \in Receipts
        BY DEF Receipts
      <4>1. receipts[r].claimed_amounts[i] \in Nat /\ receipts[r].claimed_amounts[i] <= 0
            /\ receipts[r].effective_stake \in Nat
        BY <1>0, <1>2, <4>0 DEF TypeOK, ReceiptType, Behind, EmptyRewardPool
      <4>2. f[r] = receipts[r].effective_stake
                     * (reward_pools'[i].rewards_per_effective_stake
                        - receipts[r].claimed_amounts[i])
        BY <4>0, Zenon DEF Shares
      <4>3. reward_pools'[i].rewards_per_effective_stake = 0
        BY <1>5
      <4> HIDE DEF f
      <4> QED BY <4>1, <4>2, <4>3, SMT
    <3> HIDE DEF f
    <3>2. Total(f, NumReceipts) = 0
      BY ONLY <3>0, <3>1, TotalZero
    <3>3. reward_pools'[i].last_amount = 0 /\ reward_pools'[i].reward_vault = m
          /\ reward_vaults[m] \in Nat
      BY <1>0, <1>5 DEF TypeOK
    <3> QED BY <2>2, <3>2, <3>3, SquareIsPositive, SMT DEF f, SolventAt
  <2> QED BY <2>1, <2>2
<1>9. TypeOK'
  BY <1>0, <1>1, <1>4 DEF TypeOK
<1>10. EmptySlotsZero' /\ VaultsDistinct'
  BY <1>6 DEF PoolsOK, EmptySlotsZero, VaultsDistinct
<1>11. ReceiptsBehindPools'
  BY <1>1, <1>7 DEF Behind, ReceiptsBehindPools
<1>12. RewardSolvency'
  BY <1>1, <1>8 DEF Solvent, SolventAt, Shares, RewardSolvency, Accrued, StakeOf
<1>13. ConfigValid' /\ ClosedReceiptsEmpty' /\ VaultsWithinSupply'
       /\ StakeAccounting' /\ PrincipalBacked'
  BY <1>1 DEF PoolInvariant, ConfigValid, Initialized, ClosedReceiptsEmpty, VaultsWithinSupply,
         StakeAccounting, PrincipalBacked, StakeOf, PrincipalOf
<1> QED BY <1>9, <1>10, <1>11, <1>12, <1>13 DEF PoolInvariant

LEMMA FundRewardKeepsInvariant ==
    ASSUME PoolInvariant, NEW m \in RewardMints, NEW n \in Amounts, FundReward(m, n)
    PROVE  PoolInvariant'
<1>0. n \in Nat
  BY InputAssumption, SMT
<1>1. TypeOK'
  BY <1>0, SMT DEF FundReward, poolVars, PoolInvariant, TypeOK
<1>2. VaultsWithinSupply'
  BY <1>0, SMT DEF FundReward, PoolInvariant, TypeOK, VaultsWithinSupply
<1>3. ConfigValid' /\ ClosedReceiptsEmpty' /\ EmptySlotsZero' /\ VaultsDistinct'
      /\ ReceiptsBehindPools' /\ StakeAccounting' /\ PrincipalBacked'
  BY DEF FundReward, poolVars, PoolInvariant, ConfigValid, Initialized, ClosedReceiptsEmpty,
         EmptySlotsZero, VaultsDistinct, ReceiptsBehindPools, StakeAccounting, PrincipalBacked,
         StakeOf, PrincipalOf
<1>4. ASSUME NEW k \in RewardMints PROVE reward_vaults[k] <= reward_vaults'[k]
  BY <1>0, SMT DEF FundReward, PoolInvariant, TypeOK
<1>5. ASSUME NEW i \in Slots, ~ IsEmpty(reward_pools[i])
      PROVE  reward_pools[i].last_amount <= reward_vaults'[reward_pools[i].reward_vault]
  <2>1. /\ reward_pools[i].reward_vault \in RewardMints
        /\ reward_pools[i].last_amount \in Nat
        /\ reward_pools[i].last_amount <= reward_vaults[reward_pools[i].reward_vault]
    BY <1>5 DEF PoolInvariant, TypeOK, RewardPoolType, IsEmpty, RewardSolvency
  <2>2. /\ reward_vaults[reward_pools[i].reward_vault] \in Nat
        /\ reward_vaults'[reward_pools[i].reward_vault] \in Nat
    BY <1>1, <2>1 DEF PoolInvariant, TypeOK
  <2> QED BY <1>4, <2>1, <2>2, SMT
<1>6. RewardSolvency'
  BY <1>5 DEF FundReward, poolVars, PoolInvariant, RewardSolvency, Accrued, StakeOf
<1> QED BY <1>1, <1>2, <1>3, <1>6 DEF PoolInvariant

-----------------------------------------------------------------------------
\* A receipt that changes alone changes the totals by its own difference.
LEMMA StakeChanges ==
    ASSUME NEW rs \in [Receipts -> ReceiptType], NEW new \in [Receipts -> ReceiptType],
           NEW r \in Receipts, \A q \in Receipts : q # r => new[q] = rs[q]
    PROVE  /\ Total([q \in Receipts |-> new[q].effective_stake], NumReceipts)
                  = Total([q \in Receipts |-> rs[q].effective_stake], NumReceipts)
                    + (new[r].effective_stake - rs[r].effective_stake)
           /\ Total([q \in Receipts |-> new[q].deposit_amount], NumReceipts)
                  = Total([q \in Receipts |-> rs[q].deposit_amount], NumReceipts)
                    + (new[r].deposit_amount - rs[r].deposit_amount)
<1> DEFINE f == [q \in Receipts |-> rs[q].effective_stake]
           g == [q \in Receipts |-> new[q].effective_stake]
           h == [q \in Receipts |-> rs[q].deposit_amount]
           k == [q \in Receipts |-> new[q].deposit_amount]
<1>1. NumReceipts \in Nat /\ Receipts = 1..NumReceipts /\ r \in 1..NumReceipts
  BY SizeAssumption DEF Receipts
<1>2. ASSUME NEW q \in Receipts
      PROVE  /\ rs[q].effective_stake \in Int /\ new[q].effective_stake \in Int
             /\ rs[q].deposit_amount \in Int /\ new[q].deposit_amount \in Int
  BY SMT DEF ReceiptType
<1>3. /\ \A q \in 1..NumReceipts : f[q] \in Int /\ g[q] \in Int
      /\ \A q \in 1..NumReceipts : q # r => g[q] = f[q]
      /\ \A q \in 1..NumReceipts : h[q] \in Int /\ k[q] \in Int
      /\ \A q \in 1..NumReceipts : q # r => k[q] = h[q]
  BY <1>1, <1>2
<1>4. /\ f[r] = rs[r].effective_stake /\ g[r] = new[r].effective_stake
      /\ h[r] = rs[r].deposit_amount /\ k[r] = new[r].deposit_amount
  OBVIOUS
<1> HIDE DEF f, g, h, k
<1>5. Total(g, NumReceipts) = Total(f, NumReceipts) + (g[r] - f[r])
  BY ONLY <1>1, <1>3, TotalUpdate
<1>6. Total(k, NumReceipts) = Total(h, NumReceipts) + (k[r] - h[r])
  BY ONLY <1>1, <1>3, TotalUpdate
<1> QED BY <1>4, <1>5, <1>6 DEF f, g, h, k

\* The effective stake of a deposit the pool accepts.
LEMMA NewEffectiveStakeNat ==
    ASSUME TypeOK, ConfigValid, Initialized, NEW n \in Amounts, NEW d \in LockupDurations,
           config.min_duration <= d
    PROVE  /\ NewEffectiveStake(n, d) \in Nat
           /\ ClampedDuration(d) \in Nat
           /\ n \in Nat
<1>1. n \in Nat /\ d \in Nat /\ IsPool(config)
  BY InputAssumption, SMT DEF ConfigValid
<1>2. ClampedDuration(d) \in Nat /\ config.min_duration <= ClampedDuration(d)
  BY <1>1, SMT DEF ClampedDuration, Least, IsPool
<1>3. StakeWeight(config, ClampedDuration(d)) \in Nat
  BY <1>1, <1>2, StakeWeightInRange
<1> QED BY <1>1, <1>2, <1>3, SMT DEF NewEffectiveStake, EffectiveStakeAmount

\* A new receipt has caught up with the refreshed accumulators: it takes no
\* share of what was distributed before it.
LEMMA DepositKeepsInvariant ==
    ASSUME PoolInvariant, NEW a \in Accounts, NEW r \in Receipts, NEW n \in Amounts,
           NEW d \in LockupDurations, Deposit(a, r, n, d)
    PROVE  PoolInvariant'
<1> DEFINE stake == NewEffectiveStake(n, d)
           new   == [open                |-> TRUE,
                     lockup_duration     |-> ClampedDuration(d),
                     deposit_timestamp   |-> clock,
                     deposit_amount      |-> n,
                     effective_stake     |-> stake,
                     claimed_amounts     |-> ClaimedAmountsOf(RefreshedPools)]
<1>0. /\ TypeOK /\ ConfigValid /\ ClosedReceiptsEmpty
      /\ StakeAccounting /\ PrincipalBacked
      /\ PoolsOK(RefreshedPools) /\ Behind(RefreshedPools, receipts)
      /\ Solvent(RefreshedPools, receipts, reward_vaults)
  BY RefreshKeepsPools DEF PoolInvariant
<1>1. /\ receipts' = [receipts EXCEPT ![r] = new]
      /\ reward_pools' = RefreshedPools
      /\ total_weighted_stake' = total_weighted_stake + stake
      /\ tokens' = Transfer(tokens, a, Vault, n)
      /\ n <= tokens[a]
      /\ ~ receipts[r].open
      /\ Initialized /\ config.min_duration <= d
      /\ UNCHANGED <<config, authority, flags, reward_vaults, unsent, clock>>
  BY DEF Deposit
<1>2. stake \in Nat /\ ClampedDuration(d) \in Nat /\ n \in Nat
  BY <1>0, <1>1, NewEffectiveStakeNat
<1>3. new \in ReceiptType
  <2>1. clock \in Nat
    BY <1>0, SizeAssumption, SMT DEF TypeOK
  <2>2. ClaimedAmountsOf(RefreshedPools) \in [Slots -> Nat]
    BY <1>0 DEF PoolsOK, RewardPoolType, ClaimedAmountsOf
  <2> QED BY <1>2, <2>1, <2>2 DEF ReceiptType
<1>4. /\ receipts' \in [Receipts -> ReceiptType]
      /\ receipts'[r] = new
      /\ \A q \in Receipts : q # r => receipts'[q] = receipts[q]
  <2> HIDE DEF new
  <2> QED BY <1>0, <1>1, <1>3 DEF TypeOK
<1>5. receipts[r].effective_stake = 0 /\ receipts[r].deposit_amount = 0
  BY <1>0, <1>1 DEF ClosedReceiptsEmpty, NoReceipt
<1>6. /\ receipts'[r].effective_stake = stake /\ receipts'[r].deposit_amount = n
      /\ receipts'[r].open
      /\ \A i \in Slots : receipts'[r].claimed_amounts[i]
                              = RefreshedPools[i].rewards_per_effective_stake
  BY <1>4 DEF ClaimedAmountsOf
<1>7. /\ tokens' \in [Accounts \cup {Vault} -> Nat]
      /\ tokens'[Vault] = tokens[Vault] + n
  <2>1. a # Vault /\ a \in Accounts \cup {Vault} /\ Vault \in Accounts \cup {Vault}
    BY KeyAssumption
  <2>2. tokens' = [tokens EXCEPT ![a] = @ - n, ![Vault] = @ + n]
    BY <1>1, <2>1 DEF Transfer
  <2>3. /\ tokens \in [Accounts \cup {Vault} -> Nat]
        /\ tokens[a] \in Nat /\ tokens[Vault] \in Nat
    BY <1>0, <2>1 DEF TypeOK
  <2> QED BY <1>1, <1>2, <2>1, <2>2, <2>3, SMT
<1> HIDE DEF stake, new
<1>8. TypeOK'
  <2>1. total_weighted_stake' \in Nat
    BY <1>0, <1>1, <1>2, SMT DEF TypeOK
  <2>2. lp' \in [Accounts -> Nat] /\ stake_mint_supply' \in Nat
    <3>1. CASE UNCHANGED <<lp, stake_mint_supply>>
      BY <1>0, <3>1 DEF TypeOK
    <3>2. CASE \E k \in Nat : MintTo(ReceiptOwner[r], k)
      <4>1. PICK k \in Nat : MintTo(ReceiptOwner[r], k)
        BY <3>2
      <4>2. ReceiptOwner[r] \in Accounts
        BY SizeAssumption
      <4> QED BY <1>0, <4>1, <4>2, SMT DEF MintTo, TypeOK
    <3>3. \/ UNCHANGED <<lp, stake_mint_supply>>
          \/ \E k \in Nat : MintTo(ReceiptOwner[r], k)
      <4>1. TokenAmountFromStake(stake, config.max_weight) \in Nat
        BY <1>0, <1>2, TokenAmountNat DEF TypeOK
      <4> QED BY <4>1 DEF Deposit, NewStakeTokens, stake
    <3> QED BY <3>1, <3>2, <3>3
  <2>3. reward_pools' \in [Slots -> RewardPoolType]
    BY <1>0, <1>1 DEF PoolsOK
  <2> QED BY <1>0, <1>1, <1>4, <1>7, <2>1, <2>2, <2>3 DEF TypeOK
<1>9. ClosedReceiptsEmpty'
  BY <1>0, <1>4, <1>6 DEF ClosedReceiptsEmpty
<1>10. EmptySlotsZero' /\ VaultsDistinct'
  BY <1>0, <1>1 DEF PoolsOK, EmptySlotsZero, VaultsDistinct
<1>11. ReceiptsBehindPools'
  <2> SUFFICES ASSUME NEW q \in Receipts, NEW i \in Slots
               PROVE  receipts'[q].claimed_amounts[i]
                          <= RefreshedPools[i].rewards_per_effective_stake
    BY <1>1 DEF ReceiptsBehindPools
  <2>1. RefreshedPools[i].rewards_per_effective_stake \in Nat
    BY <1>0 DEF PoolsOK, RewardPoolType
  <2>2. CASE q = r
    BY <1>6, <2>1, <2>2, SMT
  <2>3. CASE q # r
    BY <1>0, <1>4, <2>3 DEF Behind
  <2> QED BY <2>2, <2>3
<1>12. StakeAccounting' /\ PrincipalBacked'
  <2>0. receipts \in [Receipts -> ReceiptType]
    BY <1>0 DEF TypeOK
  <2> DEFINE f == Total([q \in Receipts |-> receipts[q].effective_stake], NumReceipts)
             g == Total([q \in Receipts |-> receipts'[q].effective_stake], NumReceipts)
             h == Total([q \in Receipts |-> receipts[q].deposit_amount], NumReceipts)
             k == Total([q \in Receipts |-> receipts'[q].deposit_amount], NumReceipts)
  <2>1. g = f + (stake - 0) /\ k = h + (n - 0)
    <3>1. /\ g = f + (receipts'[r].effective_stake - receipts[r].effective_stake)
          /\ k = h + (receipts'[r].deposit_amount - receipts[r].deposit_amount)
      BY ONLY <1>4, <2>0, r \in Receipts, StakeChanges
    <3> QED BY <1>5, <1>6, <3>1
  <2>2. f = total_weighted_stake /\ h <= tokens[Vault]
    BY <1>0 DEF StakeAccounting, PrincipalBacked, StakeOf, PrincipalOf
  <2>3. h \in Int
    <3> DEFINE p == [q \in Receipts |-> receipts[q].deposit_amount]
    <3>1. NumReceipts \in Nat /\ \A q \in 1..NumReceipts : p[q] \in Int
      BY <2>0, SizeAssumption, SMT DEF Receipts, ReceiptType
    <3> HIDE DEF p
    <3>2. Total(p, NumReceipts) \in Int
      BY ONLY <3>1, TotalInt
    <3> QED BY <3>2 DEF p
  <2>4. tokens[Vault] \in Nat /\ total_weighted_stake \in Nat
    BY <1>0 DEF TypeOK
  <2> HIDE DEF f, g, h, k
  <2>5. g = total_weighted_stake' /\ k <= tokens'[Vault]
    BY <1>1, <1>2, <1>7, <2>1, <2>2, <2>3, <2>4, SMT
  <2> QED BY <2>5 DEF g, k, StakeAccounting, PrincipalBacked, StakeOf, PrincipalOf
<1>13. Solvent(RefreshedPools, receipts', reward_vaults)
  <2> SUFFICES ASSUME NEW i \in Slots, ~ IsEmpty(RefreshedPools[i])
               PROVE  SolventAt(RefreshedPools, receipts', reward_vaults, i)
    BY DEF Solvent
  <2> DEFINE f == Shares(receipts, RefreshedPools, i)
             g == Shares(receipts', RefreshedPools, i)
  <2>1. \A q \in 1..NumReceipts : f[q] \in Nat
    BY <1>0, SharesNat DEF TypeOK
  <2>2. ASSUME NEW q \in 1..NumReceipts PROVE g[q] = f[q]
    <3>0. q \in Receipts
      BY DEF Receipts
    <3>1. /\ f[q] = receipts[q].effective_stake
                * (RefreshedPools[i].rewards_per_effective_stake
                   - receipts[q].claimed_amounts[i])
          /\ g[q] = receipts'[q].effective_stake
                * (RefreshedPools[i].rewards_per_effective_stake
                   - receipts'[q].claimed_amounts[i])
      BY <3>0, Zenon DEF Shares
    <3>2. CASE q # r
      BY <1>4, <3>0, <3>1, <3>2
    <3>3. CASE q = r
      <4>1. RefreshedPools[i].rewards_per_effective_stake \in Nat
            /\ receipts[r].claimed_amounts[i] \in Nat
        BY <1>0 DEF PoolsOK, RewardPoolType, TypeOK, ReceiptType
      <4>2. f[q] = 0 /\ g[q] = 0
        <5> HIDE DEF f, g
        <5> QED BY <1>2, <1>5, <1>6, <3>1, <3>3, <4>1, SMT
      <4> QED BY <4>2
    <3> QED BY <3>2, <3>3
  <2>3. NumReceipts \in Nat /\ \A q \in 1..NumReceipts : f[q] \in Int /\ g[q] = f[q]
    BY <2>1, <2>2, SizeAssumption, SMT
  <2> HIDE DEF f, g
  <2>4. Total(g, NumReceipts) = Total(f, NumReceipts)
    BY ONLY <2>3, TotalEqual
  <2> QED BY <1>0, <2>4 DEF f, g, Solvent, SolventAt
<1>14. RewardSolvency'
  BY <1>1, <1>13 DEF Solvent, SolventAt, Shares, RewardSolvency, Accrued, StakeOf
<1>15. ConfigValid' /\ VaultsWithinSupply'
  BY <1>1 DEF PoolInvariant, ConfigValid, Initialized, VaultsWithinSupply
<1> QED BY <1>8, <1>9, <1>10, <1>11, <1>12, <1>14, <1>15 DEF PoolInvariant

-----------------------------------------------------------------------------
\* What a claim does to the reward side, when receipt r becomes new: the types,
\* the slots and the vaults stay what PoolInvariant says of them.
LEMMA ClaimKeepsRewards ==
    ASSUME PoolInvariant, NEW r \in Receipts, NEW kept \in SUBSET Slots,
           NEW new \in ReceiptType,
           receipts' = [receipts EXCEPT ![r] = new],
           reward_pools' = PoolsAfterClaim(r, RefreshedPools),
           reward_vaults' = VaultsAfterClaim(r, RefreshedPools, kept),
           UNCHANGED unsent,
           \A i \in Slots : new.claimed_amounts[i]
                                <= RefreshedPools[i].rewards_per_effective_stake,
           \A i \in Slots : ~ IsEmpty(RefreshedPools[i]) =>
               \/ new.effective_stake = 0
               \/ new.claimed_amounts[i] = RefreshedPools[i].rewards_per_effective_stake
    PROVE  /\ receipts' \in [Receipts -> ReceiptType]
           /\ \A q \in Receipts : receipts'[q] = IF q = r THEN new ELSE receipts[q]
           /\ reward_pools' \in [Slots -> RewardPoolType]
           /\ reward_vaults' \in [RewardMints -> Nat]
           /\ EmptySlotsZero' /\ VaultsDistinct'
           /\ ReceiptsBehindPools' /\ VaultsWithinSupply' /\ RewardSolvency'
<1>0. /\ TypeOK /\ VaultsWithinSupply
      /\ PoolsOK(RefreshedPools) /\ Behind(RefreshedPools, receipts)
      /\ Solvent(RefreshedPools, receipts, reward_vaults)
  BY RefreshKeepsPools DEF PoolInvariant
<1>1. /\ receipts' \in [Receipts -> ReceiptType]
      /\ \A q \in Receipts : receipts'[q] = IF q = r THEN new ELSE receipts[q]
  BY <1>0 DEF TypeOK
<1>2. /\ PoolsOK(reward_pools')
      /\ \A i \in Slots : reward_pools'[i].rewards_per_effective_stake
                              = RefreshedPools[i].rewards_per_effective_stake
  BY <1>0, ClaimKeepsPools
<1>3. /\ reward_vaults' \in [RewardMints -> Nat]
      /\ \A m \in RewardMints : reward_vaults'[m] <= reward_vaults[m]
  BY <1>0, ClaimKeepsVaults
<1>4. reward_pools' \in [Slots -> RewardPoolType] /\ EmptySlotsZero' /\ VaultsDistinct'
  BY <1>2 DEF PoolsOK, EmptySlotsZero, VaultsDistinct
<1>5. ReceiptsBehindPools'
  BY <1>0, <1>1, <1>2 DEF ReceiptsBehindPools, Behind
<1>6. VaultsWithinSupply'
  <2> SUFFICES ASSUME NEW m \in RewardMints
               PROVE  reward_vaults'[m] + unsent[m] <= RewardSupply[m]
    BY DEF VaultsWithinSupply
  <2>1. /\ reward_vaults[m] + unsent[m] <= RewardSupply[m]
        /\ reward_vaults'[m] <= reward_vaults[m]
        /\ reward_vaults'[m] \in Nat /\ reward_vaults[m] \in Nat /\ unsent[m] \in Nat
        /\ RewardSupply[m] \in Nat
    BY <1>0, <1>3, SupplyAssumption DEF TypeOK, VaultsWithinSupply
  <2> QED BY <2>1, SMT
<1>7. RewardSolvency'
  <2>1. Solvent(PoolsAfterClaim(r, RefreshedPools), receipts',
                VaultsAfterClaim(r, RefreshedPools, kept))
    <3>1. /\ \A q \in Receipts : q # r => receipts'[q] = receipts[q]
          /\ \A i \in Slots : ~ IsEmpty(RefreshedPools[i]) =>
                 \/ receipts'[r].effective_stake = 0
                 \/ receipts'[r].claimed_amounts[i]
                        = RefreshedPools[i].rewards_per_effective_stake
      BY <1>1
    <3> QED BY <1>0, <1>1, <3>1, ClaimKeepsSolvent
  <2> QED BY <2>1 DEF Solvent, SolventAt, Shares, RewardSolvency, Accrued, StakeOf
<1> QED BY <1>1, <1>3, <1>4, <1>5, <1>6, <1>7

LEMMA ClaimAllKeepsInvariant ==
    ASSUME PoolInvariant, NEW r \in Receipts, NEW kept \in SUBSET Slots, ClaimAll(r, kept)
    PROVE  PoolInvariant'
<1> DEFINE upto == ClaimedUpTo(r, RefreshedPools)
           new  == [receipts[r] EXCEPT !.claimed_amounts = upto]
<1>0. /\ TypeOK /\ PoolsOK(RefreshedPools) /\ Behind(RefreshedPools, receipts)
  BY RefreshKeepsPools DEF PoolInvariant
<1>1. /\ receipts' = [receipts EXCEPT ![r] = new]
      /\ reward_pools' = PoolsAfterClaim(r, RefreshedPools)
      /\ reward_vaults' = VaultsAfterClaim(r, RefreshedPools, kept)
      /\ receipts[r].open
      /\ UNCHANGED <<config, authority, flags, total_weighted_stake,
                     tokens, unsent, lp, stake_mint_supply, clock>>
  BY DEF ClaimAll
<1>2. receipts[r] \in ReceiptType
  BY <1>0 DEF TypeOK
<1>3. /\ upto \in [Slots -> Nat]
      /\ \A i \in Slots : ~ IsEmpty(RefreshedPools[i]) =>
             upto[i] = RefreshedPools[i].rewards_per_effective_stake
      /\ \A i \in Slots : upto[i] <= RefreshedPools[i].rewards_per_effective_stake
  <2>1. ASSUME NEW i \in Slots
        PROVE  /\ RefreshedPools[i].rewards_per_effective_stake \in Nat
               /\ receipts[r].claimed_amounts[i] \in Nat
               /\ receipts[r].claimed_amounts[i]
                      <= RefreshedPools[i].rewards_per_effective_stake
    BY <1>0, <1>2 DEF PoolsOK, RewardPoolType, ReceiptType, Behind
  <2> QED BY <2>1, SMT DEF ClaimedUpTo
<1> HIDE DEF upto
<1>4. /\ new \in ReceiptType /\ new.claimed_amounts = upto
      /\ new.open /\ new.effective_stake = receipts[r].effective_stake
      /\ new.deposit_amount = receipts[r].deposit_amount
  BY <1>1, <1>2, <1>3 DEF ReceiptType
<1> HIDE DEF new
<1>5. /\ receipts' \in [Receipts -> ReceiptType]
      /\ \A q \in Receipts : receipts'[q] = IF q = r THEN new ELSE receipts[q]
      /\ reward_pools' \in [Slots -> RewardPoolType]
      /\ reward_vaults' \in [RewardMints -> Nat]
      /\ EmptySlotsZero' /\ VaultsDistinct'
      /\ ReceiptsBehindPools' /\ VaultsWithinSupply' /\ RewardSolvency'
  BY <1>1, <1>3, <1>4, ClaimKeepsRewards
<1>6. TypeOK'
  BY <1>0, <1>1, <1>5 DEF TypeOK
<1>7. ConfigValid' /\ ClosedReceiptsEmpty'
  BY <1>1, <1>4, <1>5 DEF PoolInvariant, ConfigValid, Initialized, ClosedReceiptsEmpty
<1>8. StakeAccounting' /\ PrincipalBacked'
  <2>1. ASSUME NEW q \in Receipts
        PROVE  /\ receipts'[q].effective_stake = receipts[q].effective_stake
               /\ receipts'[q].deposit_amount = receipts[q].deposit_amount
    BY <1>4, <1>5
  <2>2. /\ [q \in Receipts |-> receipts'[q].effective_stake]
               = [q \in Receipts |-> receipts[q].effective_stake]
        /\ [q \in Receipts |-> receipts'[q].deposit_amount]
               = [q \in Receipts |-> receipts[q].deposit_amount]
    BY <2>1
  <2> QED BY <1>1, <2>2
          DEF PoolInvariant, StakeAccounting, PrincipalBacked, StakeOf, PrincipalOf
<1> QED BY <1>5, <1>6, <1>7, <1>8 DEF PoolInvariant

LEMMA WithdrawKeepsInvariant ==
    ASSUME PoolInvariant, NEW r \in Receipts, NEW to \in Accounts \cup {Vault},
           NEW kept \in SUBSET Slots, Withdraw(r, to, kept)
    PROVE  PoolInvariant'
<1>0. /\ TypeOK /\ StakeAccounting /\ PrincipalBacked /\ ClosedReceiptsEmpty
      /\ PoolsOK(RefreshedPools)
  BY RefreshKeepsPools DEF PoolInvariant
<1>1. /\ receipts' = [receipts EXCEPT ![r] = NoReceipt]
      /\ reward_pools' = PoolsAfterClaim(r, RefreshedPools)
      /\ reward_vaults' = VaultsAfterClaim(r, RefreshedPools, kept)
      /\ total_weighted_stake' = total_weighted_stake - receipts[r].effective_stake
      /\ receipts[r].effective_stake <= total_weighted_stake
      /\ tokens' = Transfer(tokens, Vault, to, receipts[r].deposit_amount)
      /\ receipts[r].deposit_amount <= tokens[Vault]
      /\ UNCHANGED <<config, authority, flags, unsent, clock>>
  BY DEF Withdraw, TotalWithout, Refund
<1>2. receipts[r] \in ReceiptType
  BY <1>0 DEF TypeOK
<1>3. /\ NoReceipt \in ReceiptType /\ ~ NoReceipt.open
      /\ NoReceipt.effective_stake = 0 /\ NoReceipt.deposit_amount = 0
      /\ \A i \in Slots : NoReceipt.claimed_amounts[i]
                              <= RefreshedPools[i].rewards_per_effective_stake
  BY <1>0 DEF NoReceipt, ReceiptType, PoolsOK, RewardPoolType
<1>4. /\ receipts' \in [Receipts -> ReceiptType]
      /\ \A q \in Receipts : receipts'[q] = IF q = r THEN NoReceipt ELSE receipts[q]
      /\ reward_pools' \in [Slots -> RewardPoolType]
      /\ reward_vaults' \in [RewardMints -> Nat]
      /\ EmptySlotsZero' /\ VaultsDistinct'
      /\ ReceiptsBehindPools' /\ VaultsWithinSupply' /\ RewardSolvency'
  BY <1>1, <1>3, ClaimKeepsRewards
<1>5. /\ tokens' \in [Accounts \cup {Vault} -> Nat]
      /\ tokens'[Vault] \in Nat
      /\ tokens'[Vault] >= tokens[Vault] - receipts[r].deposit_amount
  <2>1. /\ tokens \in [Accounts \cup {Vault} -> Nat] /\ tokens[Vault] \in Nat
        /\ tokens[to] \in Nat /\ receipts[r].deposit_amount \in Nat
    BY <1>0, <1>2 DEF TypeOK, ReceiptType
  <2>2. CASE to = Vault
    BY <1>1, <2>1, <2>2, SMT DEF Transfer
  <2>3. CASE to # Vault
    <3> DEFINE n == receipts[r].deposit_amount
    <3>1. tokens' = [tokens EXCEPT ![Vault] = @ - n, ![to] = @ + n]
      BY <1>1, <2>3 DEF Transfer
    <3>2. n \in Nat /\ n <= tokens[Vault]
      BY <1>1, <2>1
    <3> HIDE DEF n
    <3>3. tokens' \in [Accounts \cup {Vault} -> Nat] /\ tokens'[Vault] = tokens[Vault] - n
      BY <2>1, <2>3, <3>1, <3>2, SMT
    <3> QED BY <2>1, <3>2, <3>3, SMT DEF n
  <2> QED BY <2>2, <2>3
<1>6. TypeOK'
  <2>1. total_weighted_stake' \in Nat
    BY <1>0, <1>1, <1>2, SMT DEF TypeOK, ReceiptType
  <2>2. lp' \in [Accounts -> Nat] /\ stake_mint_supply' \in Nat
    <3>1. CASE UNCHANGED <<lp, stake_mint_supply>>
      BY <1>0, <3>1 DEF TypeOK
    <3>2. CASE CanBurn(r) /\ BurnFrom(ReceiptOwner[r], TokenAmount(r))
      <4>1. ReceiptOwner[r] \in Accounts
        BY SizeAssumption
      <4>2. TokenAmount(r) \in Nat
        BY <1>0, <1>2, TokenAmountNat DEF TokenAmount, TypeOK, ReceiptType
      <4> QED BY <1>0, <3>2, <4>1, <4>2, SMT DEF CanBurn, BurnFrom, TypeOK
    <3> QED BY <3>1, <3>2 DEF Withdraw
  <2> QED BY <1>0, <1>1, <1>4, <1>5, <2>1, <2>2 DEF TypeOK
<1>7. ConfigValid' /\ ClosedReceiptsEmpty'
  BY <1>1, <1>4 DEF PoolInvariant, ConfigValid, Initialized, ClosedReceiptsEmpty
<1>8. StakeAccounting' /\ PrincipalBacked'
  <2>0. receipts \in [Receipts -> ReceiptType]
    BY <1>0 DEF TypeOK
  <2> DEFINE f == Total([q \in Receipts |-> receipts[q].effective_stake], NumReceipts)
             g == Total([q \in Receipts |-> receipts'[q].effective_stake], NumReceipts)
             h == Total([q \in Receipts |-> receipts[q].deposit_amount], NumReceipts)
             k == Total([q \in Receipts |-> receipts'[q].deposit_amount], NumReceipts)
  <2>1. /\ \A q \in Receipts : q # r => receipts'[q] = receipts[q]
        /\ receipts'[r].effective_stake = 0 /\ receipts'[r].deposit_amount = 0
    BY <1>3, <1>4
  <2>2. /\ g = f + (receipts'[r].effective_stake - receipts[r].effective_stake)
        /\ k = h + (receipts'[r].deposit_amount - receipts[r].deposit_amount)
    BY ONLY <1>4, <2>0, <2>1, r \in Receipts, StakeChanges
  <2>3. f = total_weighted_stake /\ h <= tokens[Vault]
    BY <1>0 DEF StakeAccounting, PrincipalBacked, StakeOf, PrincipalOf
  <2>4. h \in Int
    <3> DEFINE p == [q \in Receipts |-> receipts[q].deposit_amount]
    <3>1. NumReceipts \in Nat /\ \A q \in 1..NumReceipts : p[q] \in Int
      BY <2>0, SizeAssumption, SMT DEF Receipts, ReceiptType
    <3> HIDE DEF p
    <3>2. Total(p, NumReceipts) \in Int
      BY ONLY <3>1, TotalInt
    <3> QED BY <3>2 DEF p
  <2>5. /\ tokens[Vault] \in Nat /\ total_weighted_stake \in Nat
        /\ receipts[r].deposit_amount \in Nat /\ receipts[r].effective_stake \in Nat
    BY <1>0, <1>2 DEF TypeOK, ReceiptType
  <2> HIDE DEF f, g, h, k
  <2>6. g = total_weighted_stake' /\ k <= tokens'[Vault]
    BY <1>1, <1>5, <2>1, <2>2, <2>3, <2>4, <2>5, SMT
  <2> QED BY <2>6 DEF g, k, StakeAccounting, PrincipalBacked, StakeOf, PrincipalOf
<1> QED BY <1>4, <1>6, <1>7, <1>8 DEF PoolInvariant

-----------------------------------------------------------------------------
LEMMA NextKeepsInvariant == PoolInvariant /\ [Next]_vars => PoolInvariant'
<1> SUFFICES ASSUME PoolInvariant, [Next]_vars PROVE PoolInvariant'
  OBVIOUS
<1>1. CASE AdminNext
  BY <1>1, InitializeKeepsInvariant, AddRewardPoolKeepsInvariant, SettingsKeepInvariant
     DEF AdminNext
<1>2. CASE StakerNext
  BY <1>2, DepositKeepsInvariant, ClaimAllKeepsInvariant, WithdrawKeepsInvariant
     DEF StakerNext
<1>3. CASE EnvironmentNext
  BY <1>3, FundRewardKeepsInvariant, SettingsKeepInvariant DEF EnvironmentNext
<1>4. CASE UNCHANGED vars
  BY <1>4, SettingsKeepInvariant
<1> QED BY <1>1, <1>2, <1>3, <1>4 DEF Next

\* The inductive invariant of the pool holds in every reachable state.
THEOREM PoolIsInvariant == Spec => []PoolInvariant
BY InitInvariant, NextKeepsInvariant, PTL DEF Spec

\* Every account and balance keeps its type; in particular nothing the program
\* subtracts from ever goes below zero (withdraw.rs:104-113, claim_base.rs:132).
THEOREM TypesHold == Spec => []TypeOK
<1>1. PoolInvariant => TypeOK
  BY DEF PoolInvariant
<1> QED BY <1>1, PoolIsInvariant, PTL

\* The pool's total is the sum of the open receipts' effective stakes, however
\* many receipts there are (deposit.rs:135-139, withdraw.rs:104-113).
THEOREM TotalIsTheReceipts == Spec => []StakeAccounting
<1>1. PoolInvariant => StakeAccounting
  BY DEF PoolInvariant
<1> QED BY <1>1, PoolIsInvariant, PTL

\* The vault holds every open receipt's principal (withdraw.rs:49-65).
THEOREM PrincipalIsBacked == Spec => []PrincipalBacked
<1>1. PoolInvariant => PrincipalBacked
  BY DEF PoolInvariant
<1> QED BY <1>1, PoolIsInvariant, PTL

\* The reward vaults cover everything the receipts have accrued, at any widths
\* and any truncation (state.rs:230-260, claim_base.rs:90-132).
THEOREM RewardsAreSolvent == Spec => []RewardSolvency
<1>1. PoolInvariant => RewardSolvency
  BY DEF PoolInvariant
<1> QED BY <1>1, PoolIsInvariant, PTL

-----------------------------------------------------------------------------
\* While the refresh does not overflow, no step of a receipt's own claim or
\* withdrawal fails on arithmetic or on a short balance (withdraw.rs:104-112,
\* claim_base.rs:90-102, 132).
THEOREM NoReceiptIsStuck == Spec => []ReceiptsNeverStuck
<1>1. PoolInvariant => ReceiptsNeverStuck
  <2> SUFFICES ASSUME PoolInvariant, NEW r \in Receipts
               PROVE  /\ StakeOf(r) <= total_weighted_stake
                      /\ PrincipalOf(r) <= tokens[Vault]
                      /\ ClaimSucceeds(r, RefreshedPools)
    BY DEF ReceiptsNeverStuck
  <2>0. /\ TypeOK /\ StakeAccounting /\ PrincipalBacked /\ VaultsWithinSupply
        /\ PoolsOK(RefreshedPools) /\ Behind(RefreshedPools, receipts)
        /\ Solvent(RefreshedPools, receipts, reward_vaults)
    BY RefreshKeepsPools DEF PoolInvariant
  <2>1. NumReceipts \in Nat /\ Receipts = 1..NumReceipts /\ r \in 1..NumReceipts
    BY SizeAssumption DEF Receipts
  <2>2. StakeOf(r) <= total_weighted_stake
    <3> DEFINE f == [q \in Receipts |-> StakeOf(q)]
    <3>1. \A q \in 1..NumReceipts : f[q] \in Nat
      BY <2>0, <2>1 DEF TypeOK, ReceiptType, StakeOf
    <3>2. f[r] = StakeOf(r)
      OBVIOUS
    <3>3. Total(f, NumReceipts) = total_weighted_stake
      BY <2>0 DEF StakeAccounting
    <3> HIDE DEF f
    <3>4. f[r] <= Total(f, NumReceipts)
      BY ONLY <2>1, <3>1, TotalBoundsTerm
    <3> QED BY <3>2, <3>3, <3>4
  <2>3. PrincipalOf(r) <= tokens[Vault]
    <3> DEFINE f == [q \in Receipts |-> PrincipalOf(q)]
    <3>1. \A q \in 1..NumReceipts : f[q] \in Nat
      BY <2>0, <2>1 DEF TypeOK, ReceiptType, PrincipalOf
    <3>2. f[r] = PrincipalOf(r) /\ PrincipalOf(r) \in Nat
      BY <2>0 DEF TypeOK, ReceiptType, PrincipalOf
    <3>3. Total(f, NumReceipts) <= tokens[Vault] /\ tokens[Vault] \in Nat
      BY <2>0 DEF PrincipalBacked, TypeOK
    <3> HIDE DEF f
    <3>4. f[r] <= Total(f, NumReceipts) /\ Total(f, NumReceipts) \in Nat
      BY ONLY <2>1, <3>1, TotalBoundsTerm, TotalNat
    <3> QED BY <3>2, <3>3, <3>4, SMT
  <2>4. ClaimSucceeds(r, RefreshedPools)
    <3> SUFFICES ASSUME NEW i \in Slots, ~ IsEmpty(RefreshedPools[i])
                 PROVE  LET pool == RefreshedPools[i]
                            c    == Claimable(r, RefreshedPools)[i]
                        IN  /\ receipts[r].claimed_amounts[i]
                                   <= pool.rewards_per_effective_stake
                            /\ c <= U64_MAX
                            /\ c <= pool.last_amount
                            /\ PaidFrom(pool.reward_vault, r, RefreshedPools, {})
                                   <= reward_vaults[pool.reward_vault]
      BY DEF ClaimSucceeds
    <3> DEFINE m    == RefreshedPools[i].reward_vault
               last == RefreshedPools[i].last_amount
               c    == Claimable(r, RefreshedPools)[i]
    <3>1. receipts[r].claimed_amounts[i] <= RefreshedPools[i].rewards_per_effective_stake
      BY <2>0 DEF Behind
    <3>2. c \in Nat /\ c <= last
      BY <2>0, ClaimIsCovered
    <3>3. m \in RewardMints /\ last \in Nat /\ last <= reward_vaults[m]
      BY <2>0 DEF PoolsOK, RewardPoolType, IsEmpty, Solvent, SolventAt
    <3>4. /\ reward_vaults[m] + unsent[m] <= RewardSupply[m] /\ RewardSupply[m] <= U64_MAX
          /\ reward_vaults[m] \in Nat /\ unsent[m] \in Nat
          /\ RewardSupply[m] \in Nat /\ U64_MAX \in Nat
      BY <2>0, <3>3, SupplyAssumption, WidthAssumption DEF VaultsWithinSupply, TypeOK
    <3>5. PaidFrom(m, r, RefreshedPools, {}) = c
      BY <2>0, PaidFromOneSlot
    <3> HIDE DEF m, last, c
    <3>6. c <= U64_MAX /\ c <= reward_vaults[m]
      BY <3>2, <3>3, <3>4, SMT
    <3> QED BY <3>1, <3>2, <3>5, <3>6 DEF m, last, c
  <2> QED BY <2>2, <2>3, <2>4
<1> QED BY <1>1, PoolIsInvariant, PTL

-----------------------------------------------------------------------------
\* DEPOSIT_IGNORES_LP is never among the flags the authority sets.
DepositsMint == \A f \in FlagChoices : DEPOSIT_IGNORES_LP \notin f

\* The stake mint tokens that the withdrawals of these receipts burn.
Burnt(rs, max_weight) ==
    [r \in Receipts |-> TokenAmountFromStake(rs[r].effective_stake, max_weight)]

\* What makes StakeMintCoversReceipts inductive: deposits mint, and the digit
\* shift they mint with is settled before there is a receipt.
StakeMintInvariant ==
    /\ PoolInvariant
    /\ DEPOSIT_IGNORES_LP \notin flags
    /\ ~ Initialized => \A r \in Receipts : receipts[r].effective_stake = 0
    /\ Total(Burnt(receipts, config.max_weight), NumReceipts) <= stake_mint_supply

-----------------------------------------------------------------------------
LEMMA NoStakeNoTokens ==
    ASSUME NEW max_weight \in Nat
    PROVE  TokenAmountFromStake(0, max_weight) = 0
<1> DEFINE P == Power(RADIX, DigitShiftByMaxScalar(max_weight))
<1>1. P \in Nat \ {0}
  BY DigitShiftFits, RadixAssumption, PowerExceedsExponent, SMT
<1> HIDE DEF P
<1>2. 0 \div SCALE_FACTOR_BASE = 0 /\ 0 \div P = 0
  BY <1>1, ScaleAssumption, SMT
<1> QED BY <1>2 DEF TokenAmountFromStake, P

LEMMA BurntNat ==
    ASSUME NEW rs \in [Receipts -> ReceiptType], NEW max_weight \in Nat
    PROVE  /\ NumReceipts \in Nat
           /\ \A r \in 1..NumReceipts : Burnt(rs, max_weight)[r] \in Nat
           /\ Total(Burnt(rs, max_weight), NumReceipts) \in Nat
<1>1. NumReceipts \in Nat /\ Receipts = 1..NumReceipts
  BY SizeAssumption DEF Receipts
<1>2. \A r \in 1..NumReceipts : Burnt(rs, max_weight)[r] \in Nat
  BY <1>1, TokenAmountNat DEF Burnt, ReceiptType
<1>3. Total(Burnt(rs, max_weight), NumReceipts) \in Nat
  BY ONLY <1>1, <1>2, TotalNat
<1> QED BY <1>1, <1>2, <1>3

\* A receipt that changes alone changes the sum by its own difference.
LEMMA BurntChanges ==
    ASSUME NEW rs \in [Receipts -> ReceiptType], NEW new \in [Receipts -> ReceiptType],
           NEW max_weight \in Nat, NEW r \in Receipts,
           \A q \in Receipts : q # r => new[q] = rs[q]
    PROVE  Total(Burnt(new, max_weight), NumReceipts)
               = Total(Burnt(rs, max_weight), NumReceipts)
                 + (TokenAmountFromStake(new[r].effective_stake, max_weight)
                    - TokenAmountFromStake(rs[r].effective_stake, max_weight))
<1> DEFINE f == Burnt(rs, max_weight)
           g == Burnt(new, max_weight)
<1>1. NumReceipts \in Nat /\ Receipts = 1..NumReceipts /\ r \in 1..NumReceipts
  BY SizeAssumption DEF Receipts
<1>2. \A q \in 1..NumReceipts : f[q] \in Int /\ g[q] \in Int
  BY BurntNat, SMT
<1>3. \A q \in 1..NumReceipts : q # r => g[q] = f[q]
  BY <1>1 DEF Burnt
<1>4. /\ f[r] = TokenAmountFromStake(rs[r].effective_stake, max_weight)
      /\ g[r] = TokenAmountFromStake(new[r].effective_stake, max_weight)
  BY DEF Burnt
<1> HIDE DEF f, g
<1>5. Total(g, NumReceipts) = Total(f, NumReceipts) + (g[r] - f[r])
  BY <1>1, <1>2, <1>3, TotalUpdate, Zenon
<1> QED BY <1>4, <1>5 DEF f, g

-----------------------------------------------------------------------------
LEMMA StakeMintInit == Init => StakeMintInvariant
<1> SUFFICES ASSUME Init PROVE StakeMintInvariant
  OBVIOUS
<1>1. PoolInvariant
  BY InitInvariant
<1>2. \A r \in Receipts : receipts[r].effective_stake = 0
  BY DEF Init, NoReceipt
<1>3. config.max_weight = 0 /\ stake_mint_supply = 0 /\ flags = {}
  BY DEF Init, NoConfig
<1>4. Total(Burnt(receipts, config.max_weight), NumReceipts) = 0
  <2>1. NumReceipts \in Nat /\ Receipts = 1..NumReceipts
    BY SizeAssumption DEF Receipts
  <2>2. \A r \in 1..NumReceipts : Burnt(receipts, config.max_weight)[r] = 0
    BY <1>2, <1>3, <2>1, NoStakeNoTokens DEF Burnt
  <2> QED BY ONLY <2>1, <2>2, TotalZero
<1> QED BY <1>1, <1>2, <1>3, <1>4, SMT DEF StakeMintInvariant

\* Steps that leave the receipts' stakes and the pool's terms, and burn nothing.
LEMMA StakesUnchanged ==
    ASSUME StakeMintInvariant, PoolInvariant', DEPOSIT_IGNORES_LP \notin flags',
           UNCHANGED config,
           \A r \in Receipts : receipts'[r].effective_stake = receipts[r].effective_stake,
           stake_mint_supply <= stake_mint_supply'
    PROVE  StakeMintInvariant'
<1>1. Burnt(receipts, config.max_weight)' = Burnt(receipts, config.max_weight)
  BY DEF Burnt
<1>2. Total(Burnt(receipts, config.max_weight), NumReceipts) \in Nat
      /\ stake_mint_supply \in Nat /\ stake_mint_supply' \in Nat
  BY BurntNat DEF StakeMintInvariant, PoolInvariant, TypeOK
<1>3. (Total(Burnt(receipts, config.max_weight), NumReceipts) <= stake_mint_supply)'
  BY <1>1, <1>2, SMT DEF StakeMintInvariant
<1> QED BY <1>3 DEF StakeMintInvariant, Initialized

\* The terms are settled when no receipt has a stake.
LEMMA InitializeKeepsStakeMint ==
    ASSUME StakeMintInvariant, PoolInvariant', NEW c \in PoolConfigs, NEW a \in Accounts,
           InitializeStakePool(c, a)
    PROVE  StakeMintInvariant'
<1>1. /\ \A r \in Receipts : receipts'[r].effective_stake = 0
      /\ DEPOSIT_IGNORES_LP \notin flags'
      /\ stake_mint_supply' = stake_mint_supply
  BY DEF StakeMintInvariant, InitializeStakePool, tokenVars
<1>2. config'.max_weight \in Nat /\ stake_mint_supply \in Nat
  BY DEF StakeMintInvariant, PoolInvariant, TypeOK
<1>3. Total(Burnt(receipts, config.max_weight), NumReceipts)' = 0
  <2>1. NumReceipts \in Nat /\ Receipts = 1..NumReceipts
    BY SizeAssumption DEF Receipts
  <2>2. \A r \in 1..NumReceipts : Burnt(receipts', config'.max_weight)[r] = 0
    BY <1>1, <1>2, <2>1, NoStakeNoTokens DEF Burnt
  <2> QED BY ONLY <2>1, <2>2, TotalZero
<1> QED BY <1>1, <1>2, <1>3, SMT DEF StakeMintInvariant

\* A deposit mints what the receipt's withdrawal will burn.
LEMMA DepositKeepsStakeMint ==
    ASSUME StakeMintInvariant, PoolInvariant', NEW a \in Accounts, NEW r \in Receipts,
           NEW n \in Amounts, NEW d \in LockupDurations, Deposit(a, r, n, d)
    PROVE  StakeMintInvariant'
<1>1. /\ receipts \in [Receipts -> ReceiptType] /\ receipts' \in [Receipts -> ReceiptType]
      /\ config.max_weight \in Nat /\ stake_mint_supply \in Nat
      /\ TypeOK /\ ConfigValid
  BY DEF StakeMintInvariant, PoolInvariant, TypeOK
<1>2. /\ \A q \in Receipts : q # r => receipts'[q] = receipts[q]
      /\ receipts'[r].effective_stake = NewEffectiveStake(n, d)
      /\ UNCHANGED <<config, flags>>
      /\ Initialized /\ config.min_duration <= d
  BY <1>1 DEF Deposit
<1>3. stake_mint_supply' = stake_mint_supply + NewStakeTokens(n, d)
  BY DEF Deposit, StakeMintInvariant, MintTo
<1>4. NewStakeTokens(n, d) = TokenAmountFromStake(receipts'[r].effective_stake, config.max_weight)
  BY <1>2 DEF NewStakeTokens
<1>5. /\ NewStakeTokens(n, d) \in Nat
      /\ TokenAmountFromStake(receipts[r].effective_stake, config.max_weight) \in Nat
  <2>1. NewEffectiveStake(n, d) \in Nat
    BY <1>1, <1>2, NewEffectiveStakeNat
  <2> QED BY <1>1, <1>2, <1>4, <2>1, TokenAmountNat DEF ReceiptType
<1> DEFINE old == Total(Burnt(receipts, config.max_weight), NumReceipts)
           new == Total(Burnt(receipts', config.max_weight), NumReceipts)
<1>6. new = old + (NewStakeTokens(n, d)
                   - TokenAmountFromStake(receipts[r].effective_stake, config.max_weight))
  BY <1>1, <1>2, <1>4, BurntChanges
<1>7. old \in Nat /\ old <= stake_mint_supply
  BY <1>1, BurntNat DEF StakeMintInvariant
<1> HIDE DEF old, new
<1>8. new <= stake_mint_supply'
  BY <1>1, <1>3, <1>5, <1>6, <1>7, SMT
<1>9. (Total(Burnt(receipts, config.max_weight), NumReceipts) <= stake_mint_supply)'
  BY <1>2, <1>8 DEF new
<1> QED BY <1>2, <1>9 DEF StakeMintInvariant, Initialized

\* A withdrawal burns the tokens of its own receipt and no others.
LEMMA WithdrawKeepsStakeMint ==
    ASSUME StakeMintInvariant, PoolInvariant', NEW r \in Receipts,
           NEW to \in Accounts \cup {Vault}, NEW kept \in SUBSET Slots, Withdraw(r, to, kept)
    PROVE  StakeMintInvariant'
<1>1. /\ receipts \in [Receipts -> ReceiptType] /\ receipts' \in [Receipts -> ReceiptType]
      /\ config.max_weight \in Nat /\ stake_mint_supply \in Nat
  BY DEF StakeMintInvariant, PoolInvariant, TypeOK
<1>2. /\ \A q \in Receipts : q # r => receipts'[q] = receipts[q]
      /\ receipts'[r].effective_stake = 0
      /\ UNCHANGED <<config, flags>>
  BY <1>1 DEF Withdraw, NoReceipt
<1>3. TokenAmount(r) \in Nat /\ TokenAmountFromStake(0, config.max_weight) = 0
  BY <1>1, TokenAmountNat, NoStakeNoTokens DEF TokenAmount, ReceiptType
<1>4. stake_mint_supply' \in {stake_mint_supply, stake_mint_supply - TokenAmount(r)}
  BY DEF Withdraw, BurnFrom
<1> DEFINE old == Total(Burnt(receipts, config.max_weight), NumReceipts)
           new == Total(Burnt(receipts', config.max_weight), NumReceipts)
<1>5. new = old + (0 - TokenAmount(r))
  BY <1>1, <1>2, <1>3, BurntChanges DEF TokenAmount
<1>6. old \in Nat /\ old <= stake_mint_supply
  BY <1>1, BurntNat DEF StakeMintInvariant
<1> HIDE DEF old, new
<1>7. new <= stake_mint_supply'
  BY <1>1, <1>3, <1>4, <1>5, <1>6, SMT
<1>8. (Total(Burnt(receipts, config.max_weight), NumReceipts) <= stake_mint_supply)'
  BY <1>2, <1>7 DEF new
<1>9. (~ Initialized => \A q \in Receipts : receipts[q].effective_stake = 0)'
  BY <1>2 DEF StakeMintInvariant, Initialized
<1> QED BY <1>2, <1>8, <1>9 DEF StakeMintInvariant

LEMMA NextKeepsStakeMint ==
    ASSUME DepositsMint
    PROVE  StakeMintInvariant /\ [Next]_vars => StakeMintInvariant'
<1> SUFFICES ASSUME StakeMintInvariant, [Next]_vars PROVE StakeMintInvariant'
  OBVIOUS
<1>0. /\ PoolInvariant' /\ stake_mint_supply \in Nat /\ DEPOSIT_IGNORES_LP \notin flags
      /\ receipts \in [Receipts -> ReceiptType]
  BY NextKeepsInvariant DEF StakeMintInvariant, PoolInvariant, TypeOK
<1>1. ASSUME UNCHANGED <<config, receipts, stake_mint_supply>>,
             DEPOSIT_IGNORES_LP \notin flags'
      PROVE  StakeMintInvariant'
  BY <1>0, <1>1, StakesUnchanged, SMT
<1>2. ASSUME NEW c \in PoolConfigs, NEW a \in Accounts, InitializeStakePool(c, a)
      PROVE  StakeMintInvariant'
  BY <1>0, <1>2, InitializeKeepsStakeMint
<1>3. ASSUME NEW a \in Accounts, NEW i \in Slots, NEW m \in RewardMints, AddRewardPool(a, i, m)
      PROVE  StakeMintInvariant'
  BY <1>0, <1>1, <1>3 DEF AddRewardPool, tokenVars
<1>4. ASSUME NEW a \in Accounts, NEW f \in FlagChoices, SetFlags(a, f)
      PROVE  StakeMintInvariant'
  BY <1>0, <1>1, <1>4 DEF SetFlags, tokenVars, DepositsMint
<1>5. ASSUME NEW a \in Accounts, NEW b \in Accounts, TransferAuthority(a, b)
      PROVE  StakeMintInvariant'
  BY <1>0, <1>1, <1>5 DEF TransferAuthority, tokenVars
<1>6. ASSUME NEW a \in Accounts, NEW b \in Accounts, NEW n \in Amounts,
             DangerouslyMintStakeMint(a, b, n)
      PROVE  StakeMintInvariant'
  <2>1. n \in Nat
    BY InputAssumption, SMT
  <2>2. /\ UNCHANGED <<config, flags, receipts>>
        /\ stake_mint_supply' = stake_mint_supply + n
    BY <1>6 DEF DangerouslyMintStakeMint, MintTo, poolVars
  <2>3. stake_mint_supply <= stake_mint_supply'
    BY <1>0, <2>1, <2>2, SMT
  <2> QED BY <1>0, <2>2, <2>3, StakesUnchanged
<1>7. ASSUME NEW a \in Accounts, NEW r \in Receipts, NEW n \in Amounts,
             NEW d \in LockupDurations, Deposit(a, r, n, d)
      PROVE  StakeMintInvariant'
  BY <1>0, <1>7, DepositKeepsStakeMint
<1>8. ASSUME NEW r \in Receipts, NEW kept \in SUBSET Slots, ClaimAll(r, kept)
      PROVE  StakeMintInvariant'
  <2>1. \A q \in Receipts : receipts'[q].effective_stake = receipts[q].effective_stake
    BY <1>0, <1>8 DEF ClaimAll, ReceiptType
  <2>2. UNCHANGED <<config, flags, stake_mint_supply>>
    BY <1>8 DEF ClaimAll
  <2>3. stake_mint_supply <= stake_mint_supply'
    BY <1>0, <2>2, SMT
  <2> QED BY <1>0, <2>1, <2>2, <2>3, StakesUnchanged
<1>9. ASSUME NEW r \in Receipts, NEW to \in Accounts \cup {Vault},
             NEW kept \in SUBSET Slots, Withdraw(r, to, kept)
      PROVE  StakeMintInvariant'
  BY <1>0, <1>9, WithdrawKeepsStakeMint
<1>10. CASE EnvironmentNext
  BY <1>0, <1>1, <1>10
     DEF EnvironmentNext, FundReward, TransferStakeMint, Tick, poolVars, tokenVars
<1>11. CASE UNCHANGED vars
  BY <1>0, <1>1, <1>11 DEF vars, poolVars, tokenVars
<1> QED BY <1>2, <1>3, <1>4, <1>5, <1>6, <1>7, <1>8, <1>9, <1>10, <1>11
        DEF Next, AdminNext, StakerNext

-----------------------------------------------------------------------------
\* Enough stake mint tokens exist to burn for every open receipt, for every pool
\* whose authority never sets DEPOSIT_IGNORES_LP, whatever else it does
\* (deposit.rs:142-150, withdraw.rs:67-82).
THEOREM StakeMintCovers ==
    ASSUME DepositsMint
    PROVE  Spec => []StakeMintCoversReceipts
<1>1. StakeMintInvariant /\ [Next]_vars => StakeMintInvariant'
  BY NextKeepsStakeMint
<1>2. StakeMintInvariant => StakeMintCoversReceipts
  BY DEF StakeMintInvariant, StakeMintCoversReceipts, Burnt, TokenAmount
<1> QED BY <1>1, <1>2, StakeMintInit, PTL DEF Spec

-----------------------------------------------------------------------------
\* Stake mint tokens come from deposits only, and every withdrawal burns its own.
OnlyDepositsMint ==
    /\ ~ MintWhitelisted
    /\ \A f \in FlagChoices : WITHDRAW_IGNORES_LP \notin f

\* What the accounts hold together, counted in some order of theirs.
HeldBy(balances, holder, n) == Total([i \in 1..n |-> balances[holder[i]]], n)

\* What makes StakeMintHasRoom inductive: no receipt is worth more stake mint
\* tokens than were deposited for it, there are not more of them than receipts
\* are worth, and the staked token itself fits a u64.
RoomInvariant(holder, n) ==
    /\ PoolInvariant
    /\ WITHDRAW_IGNORES_LP \notin flags
    /\ ~ Initialized => \A r \in Receipts : receipts[r].effective_stake = 0
    /\ \A r \in Receipts : TokenAmount(r) <= PrincipalOf(r)
    /\ stake_mint_supply <= Total(Burnt(receipts, config.max_weight), NumReceipts)
    /\ tokens[Vault] + HeldBy(tokens, holder, n) <= U64_MAX

LEMMA HeldNat ==
    ASSUME NEW n \in Nat, NEW holder \in Bijection(1..n, Accounts),
           NEW balances \in [Accounts \cup {Vault} -> Nat]
    PROVE  /\ HeldBy(balances, holder, n) \in Nat
           /\ \A a \in Accounts : balances[a] <= HeldBy(balances, holder, n)
<1> DEFINE f == [i \in 1..n |-> balances[holder[i]]]
<1>1. \A i \in 1..n : f[i] \in Nat
  BY DEF Bijection, Injection, IsInjective
<1>2. \A a \in Accounts : \E i \in 1..n : f[i] = balances[a]
  BY DEF Bijection, Surjection
<1> HIDE DEF f
<1>3. Total(f, n) \in Nat /\ \A i \in 1..n : f[i] <= Total(f, n)
  BY <1>1, TotalNat, TotalBoundsTerm
<1> QED BY <1>2, <1>3 DEF HeldBy, f

\* An account that changes alone changes what is held by its own difference.
LEMMA HeldChanges ==
    ASSUME NEW n \in Nat, NEW holder \in Bijection(1..n, Accounts),
           NEW old \in [Accounts \cup {Vault} -> Nat], NEW new \in [Accounts \cup {Vault} -> Nat],
           NEW a \in Accounts, \A b \in Accounts : b # a => new[b] = old[b]
    PROVE  HeldBy(new, holder, n) = HeldBy(old, holder, n) + (new[a] - old[a])
<1> DEFINE f == [i \in 1..n |-> old[holder[i]]]
           g == [i \in 1..n |-> new[holder[i]]]
<1>1. PICK k \in 1..n : holder[k] = a
  BY DEF Bijection, Surjection
<1>2. \A i \in 1..n : holder[i] \in Accounts /\ (i # k => holder[i] # a)
  BY <1>1 DEF Bijection, Injection, IsInjective
<1>3. \A i \in 1..n : f[i] \in Int /\ g[i] \in Int
  <2>1. \A i \in 1..n : f[i] \in Nat /\ g[i] \in Nat
    BY <1>2
  <2> QED BY <2>1, SMT
<1>4. \A i \in 1..n : i # k => g[i] = f[i]
  BY <1>2
<1>5. f[k] = old[a] /\ g[k] = new[a]
  BY <1>1
<1> HIDE DEF f, g
<1>6. Total(g, n) = Total(f, n) + (g[k] - f[k])
  BY <1>3, <1>4, TotalUpdate, Zenon
<1> QED BY <1>5, <1>6 DEF HeldBy, f, g

LEMMA RoomInit ==
    ASSUME NEW n \in Nat, NEW holder \in Bijection(1..n, Accounts),
           HeldBy(InitialTokens, holder, n) <= U64_MAX
    PROVE  Init => RoomInvariant(holder, n)
<1> SUFFICES ASSUME Init PROVE RoomInvariant(holder, n)
  OBVIOUS
<1>1. StakeMintInvariant /\ PoolInvariant
  BY StakeMintInit DEF StakeMintInvariant
<1>2. /\ \A r \in Receipts : receipts[r].effective_stake = 0 /\ receipts[r].deposit_amount = 0
      /\ config.max_weight = 0 /\ stake_mint_supply = 0 /\ flags = {} /\ receipts \in [Receipts -> ReceiptType]
      /\ tokens[Vault] = 0 /\ \A a \in Accounts : tokens[a] = InitialTokens[a]
  BY <1>1, KeyAssumption DEF Init, NoReceipt, NoConfig, PoolInvariant, TypeOK
<1>3. \A r \in Receipts : TokenAmount(r) = 0
  BY <1>2, NoStakeNoTokens DEF TokenAmount
<1>4. Total(Burnt(receipts, config.max_weight), NumReceipts) \in Nat
  BY <1>2, BurntNat
<1>5. HeldBy(tokens, holder, n) = HeldBy(InitialTokens, holder, n)
  <2>1. \A i \in 1..n : holder[i] \in Accounts
    BY DEF Bijection, Injection, IsInjective
  <2>2. [i \in 1..n |-> tokens[holder[i]]] = [i \in 1..n |-> InitialTokens[holder[i]]]
    BY <1>2, <2>1
  <2> QED BY <2>2 DEF HeldBy
<1>6. tokens[Vault] + HeldBy(tokens, holder, n) <= U64_MAX
  <2>1. HeldBy(tokens, holder, n) \in Nat
    BY <1>1, HeldNat DEF PoolInvariant, TypeOK
  <2> QED BY <1>2, <1>5, <2>1, SMT
<1>7. \A r \in Receipts : TokenAmount(r) <= PrincipalOf(r)
  BY <1>2, <1>3, SMT DEF PrincipalOf
<1>8. stake_mint_supply <= Total(Burnt(receipts, config.max_weight), NumReceipts)
  BY <1>2, <1>4, SMT
<1> QED BY <1>1, <1>2, <1>6, <1>7, <1>8 DEF RoomInvariant

\* What a deposit would mint is at most what is deposited.
LEMMA NewStakeTokensWithinDeposit ==
    ASSUME TypeOK, ConfigValid, Initialized, NEW n \in Amounts, NEW d \in LockupDurations,
           config.min_duration <= d
    PROVE  /\ NewStakeTokens(n, d) \in Nat
           /\ NewStakeTokens(n, d) <= n
<1>1. n \in 0..U64_MAX /\ d \in Nat /\ IsPool(config)
  BY InputAssumption, SMT DEF ConfigValid
<1>2. ClampedDuration(d) \in Nat /\ config.min_duration <= ClampedDuration(d)
  BY <1>1, SMT DEF ClampedDuration, Least, IsPool
<1>3. config.max_weight \in Nat /\ StakeWeight(config, ClampedDuration(d)) \in 0..config.max_weight
  BY <1>1, <1>2, StakeWeightInRange, SMT DEF IsPool
<1>4. NewStakeTokens(n, d) <= n
  BY <1>1, <1>3, TokenAmountWithinDeposit DEF NewStakeTokens, NewEffectiveStake
<1>5. NewEffectiveStake(n, d) \in Nat
  BY NewEffectiveStakeNat
<1> QED BY <1>3, <1>4, <1>5, TokenAmountNat DEF NewStakeTokens

\* Steps that leave the stakes, the principals and the staked tokens.
LEMMA RoomUnchanged ==
    ASSUME NEW n, NEW holder, RoomInvariant(holder, n), PoolInvariant',
           WITHDRAW_IGNORES_LP \notin flags', UNCHANGED <<config, tokens, stake_mint_supply>>,
           \A r \in Receipts : /\ receipts'[r].effective_stake = receipts[r].effective_stake
                               /\ receipts'[r].deposit_amount = receipts[r].deposit_amount
    PROVE  RoomInvariant(holder, n)'
<1>1. Burnt(receipts, config.max_weight)' = Burnt(receipts, config.max_weight)
  BY DEF Burnt
<1>2. \A r \in Receipts : TokenAmount(r)' = TokenAmount(r) /\ PrincipalOf(r)' = PrincipalOf(r)
  BY DEF TokenAmount, PrincipalOf
<1> QED BY <1>1, <1>2 DEF RoomInvariant, Initialized, HeldBy

LEMMA InitializeKeepsRoom ==
    ASSUME NEW n, NEW holder, RoomInvariant(holder, n), PoolInvariant', NEW c \in PoolConfigs,
           NEW a \in Accounts, InitializeStakePool(c, a)
    PROVE  RoomInvariant(holder, n)'
<1>1. /\ \A r \in Receipts : receipts[r].effective_stake = 0
      /\ UNCHANGED <<flags, receipts, tokens, stake_mint_supply>>
  BY DEF RoomInvariant, InitializeStakePool, tokenVars
<1>2. config.max_weight \in Nat /\ config'.max_weight \in Nat
  BY DEF RoomInvariant, PoolInvariant, TypeOK
<1>3. \A r \in Receipts : TokenAmount(r)' = TokenAmount(r)
  BY <1>1, <1>2, NoStakeNoTokens DEF TokenAmount
<1>4. Burnt(receipts, config.max_weight)' = Burnt(receipts, config.max_weight)
  BY <1>1, <1>2, NoStakeNoTokens DEF Burnt
<1> QED BY <1>1, <1>3, <1>4 DEF RoomInvariant, PrincipalOf, HeldBy

LEMMA DepositKeepsRoom ==
    ASSUME NEW n \in Nat, NEW holder \in Bijection(1..n, Accounts), RoomInvariant(holder, n),
           PoolInvariant', NEW a \in Accounts, NEW r \in Receipts, NEW amount \in Amounts,
           NEW d \in LockupDurations, Deposit(a, r, amount, d)
    PROVE  RoomInvariant(holder, n)'
<1> DEFINE minted == NewStakeTokens(amount, d)
           old    == Total(Burnt(receipts, config.max_weight), NumReceipts)
           new    == Total(Burnt(receipts', config.max_weight), NumReceipts)
<1>1. /\ receipts \in [Receipts -> ReceiptType] /\ receipts' \in [Receipts -> ReceiptType]
      /\ tokens \in [Accounts \cup {Vault} -> Nat] /\ tokens' \in [Accounts \cup {Vault} -> Nat]
      /\ config.max_weight \in Nat /\ stake_mint_supply \in Nat
      /\ TypeOK /\ ConfigValid /\ ClosedReceiptsEmpty
  BY DEF RoomInvariant, PoolInvariant, TypeOK
<1>2. /\ \A q \in Receipts : q # r => receipts'[q] = receipts[q]
      /\ receipts'[r].effective_stake = NewEffectiveStake(amount, d)
      /\ receipts'[r].deposit_amount = amount
      /\ receipts[r].effective_stake = 0
      /\ UNCHANGED <<config, flags>>
      /\ Initialized /\ config.min_duration <= d
  BY <1>1 DEF Deposit, ClosedReceiptsEmpty, NoReceipt
<1>3. minted \in Nat /\ minted <= amount
  BY <1>1, <1>2, NewStakeTokensWithinDeposit
<1>4. minted = TokenAmountFromStake(receipts'[r].effective_stake, config.max_weight)
  BY <1>2 DEF NewStakeTokens
<1>5. stake_mint_supply' \in {stake_mint_supply, stake_mint_supply + minted}
  BY DEF Deposit, MintTo
<1>6. new = old + (minted - 0)
  BY <1>1, <1>2, <1>4, BurntChanges, NoStakeNoTokens
<1>7. old \in Nat /\ stake_mint_supply <= old
  BY <1>1, BurntNat DEF RoomInvariant
<1>8. stake_mint_supply' <= new
  <2> HIDE DEF old, new, minted
  <2> QED BY <1>1, <1>3, <1>5, <1>6, <1>7, SMT
<1>9. (stake_mint_supply <= Total(Burnt(receipts, config.max_weight), NumReceipts))'
  BY <1>2, <1>8
<1>10. \A q \in Receipts : TokenAmount(q)' <= PrincipalOf(q)'
  <2>1. \A q \in Receipts : q # r => TokenAmount(q)' = TokenAmount(q) /\ PrincipalOf(q)' = PrincipalOf(q)
    BY <1>2 DEF TokenAmount, PrincipalOf
  <2>2. TokenAmount(r)' = minted /\ PrincipalOf(r)' = amount
    BY <1>2, <1>4 DEF TokenAmount, PrincipalOf
  <2> QED BY <1>3, <2>1, <2>2 DEF RoomInvariant
<1>11. (tokens[Vault] + HeldBy(tokens, holder, n) <= U64_MAX)'
  <2>1. /\ a # Vault /\ amount \in Nat /\ tokens' = Transfer(tokens, a, Vault, amount)
        /\ tokens[Vault] + HeldBy(tokens, holder, n) <= U64_MAX
    BY KeyAssumption, InputAssumption, SMT DEF Deposit, RoomInvariant
  <2>2. /\ tokens'[a] = tokens[a] - amount /\ tokens'[Vault] = tokens[Vault] + amount
        /\ \A b \in Accounts : b # a => tokens'[b] = tokens[b]
    BY <1>1, <2>1, KeyAssumption DEF Transfer
  <2>3. HeldBy(tokens', holder, n) = HeldBy(tokens, holder, n) + (tokens'[a] - tokens[a])
    BY <1>1, <2>2, HeldChanges
  <2>4. HeldBy(tokens, holder, n) \in Nat /\ tokens[a] \in Nat /\ tokens[Vault] \in Nat
    BY <1>1, HeldNat
  <2>5. tokens'[Vault] + HeldBy(tokens', holder, n) <= U64_MAX
    BY <2>1, <2>2, <2>3, <2>4, SMT
  <2> QED BY <2>5 DEF HeldBy
<1> QED BY <1>2, <1>9, <1>10, <1>11 DEF RoomInvariant, Initialized

LEMMA WithdrawKeepsRoom ==
    ASSUME NEW n \in Nat, NEW holder \in Bijection(1..n, Accounts), RoomInvariant(holder, n),
           PoolInvariant', NEW r \in Receipts, NEW to \in Accounts \cup {Vault},
           NEW kept \in SUBSET Slots, Withdraw(r, to, kept)
    PROVE  RoomInvariant(holder, n)'
<1> DEFINE old == Total(Burnt(receipts, config.max_weight), NumReceipts)
           new == Total(Burnt(receipts', config.max_weight), NumReceipts)
<1>1. /\ receipts \in [Receipts -> ReceiptType] /\ receipts' \in [Receipts -> ReceiptType]
      /\ tokens \in [Accounts \cup {Vault} -> Nat] /\ tokens' \in [Accounts \cup {Vault} -> Nat]
      /\ config.max_weight \in Nat /\ stake_mint_supply \in Nat
  BY DEF RoomInvariant, PoolInvariant, TypeOK
<1>2. /\ \A q \in Receipts : q # r => receipts'[q] = receipts[q]
      /\ receipts'[r].effective_stake = 0 /\ receipts'[r].deposit_amount = 0
      /\ UNCHANGED <<config, flags>>
  BY <1>1 DEF Withdraw, NoReceipt
<1>3. TokenAmount(r) \in Nat /\ TokenAmountFromStake(0, config.max_weight) = 0
  BY <1>1, TokenAmountNat, NoStakeNoTokens DEF TokenAmount, ReceiptType
<1>4. stake_mint_supply' = stake_mint_supply - TokenAmount(r)
  BY DEF Withdraw, BurnFrom, RoomInvariant
<1>5. new = old + (0 - TokenAmount(r))
  BY <1>1, <1>2, <1>3, BurntChanges DEF TokenAmount
<1>6. old \in Nat /\ stake_mint_supply <= old
  BY <1>1, BurntNat DEF RoomInvariant
<1>7. (stake_mint_supply <= Total(Burnt(receipts, config.max_weight), NumReceipts))'
  <2>1. stake_mint_supply' <= new
    <3> HIDE DEF old, new
    <3> QED BY <1>1, <1>3, <1>4, <1>5, <1>6, SMT
  <2> QED BY <1>2, <2>1
<1>8. \A q \in Receipts : TokenAmount(q)' <= PrincipalOf(q)'
  <2>1. \A q \in Receipts : q # r => TokenAmount(q)' = TokenAmount(q) /\ PrincipalOf(q)' = PrincipalOf(q)
    BY <1>2 DEF TokenAmount, PrincipalOf
  <2>2. TokenAmount(r)' = 0 /\ PrincipalOf(r)' = 0
    BY <1>2, <1>3 DEF TokenAmount, PrincipalOf
  <2> QED BY <2>1, <2>2 DEF RoomInvariant
<1>9. (tokens[Vault] + HeldBy(tokens, holder, n) <= U64_MAX)'
  <2>1. /\ Refund(r) \in Nat /\ tokens' = Transfer(tokens, Vault, to, Refund(r))
        /\ tokens[Vault] + HeldBy(tokens, holder, n) <= U64_MAX
    BY <1>1 DEF Withdraw, RoomInvariant, Refund, ReceiptType
  <2>2. CASE to = Vault
    BY <2>1, <2>2 DEF Transfer, HeldBy
  <2>3. CASE to \in Accounts
    <3>1. /\ to # Vault
          /\ tokens'[to] = tokens[to] + Refund(r) /\ tokens'[Vault] = tokens[Vault] - Refund(r)
          /\ \A b \in Accounts : b # to => tokens'[b] = tokens[b]
      BY <1>1, <2>1, <2>3, KeyAssumption DEF Transfer
    <3>2. HeldBy(tokens', holder, n) = HeldBy(tokens, holder, n) + (tokens'[to] - tokens[to])
      BY <1>1, <2>3, <3>1, HeldChanges
    <3>3. HeldBy(tokens, holder, n) \in Nat /\ tokens[to] \in Nat /\ tokens[Vault] \in Nat
      BY <1>1, <2>3, HeldNat
    <3>4. tokens'[Vault] + HeldBy(tokens', holder, n) <= U64_MAX
      BY <2>1, <3>1, <3>2, <3>3, SMT
    <3> QED BY <3>4 DEF HeldBy
  <2> QED BY <2>2, <2>3
<1>10. (~ Initialized => \A q \in Receipts : receipts[q].effective_stake = 0)'
  BY <1>2 DEF RoomInvariant, Initialized
<1> QED BY <1>2, <1>7, <1>8, <1>9, <1>10 DEF RoomInvariant

LEMMA NextKeepsRoom ==
    ASSUME OnlyDepositsMint, NEW n \in Nat, NEW holder \in Bijection(1..n, Accounts)
    PROVE  RoomInvariant(holder, n) /\ [Next]_vars => RoomInvariant(holder, n)'
<1> SUFFICES ASSUME RoomInvariant(holder, n), [Next]_vars PROVE RoomInvariant(holder, n)'
  OBVIOUS
<1>0. /\ PoolInvariant' /\ WITHDRAW_IGNORES_LP \notin flags
      /\ receipts \in [Receipts -> ReceiptType]
  BY NextKeepsInvariant DEF RoomInvariant, PoolInvariant, TypeOK
<1>1. ASSUME UNCHANGED <<config, receipts, tokens, stake_mint_supply>>,
             WITHDRAW_IGNORES_LP \notin flags'
      PROVE  RoomInvariant(holder, n)'
  BY <1>0, <1>1, RoomUnchanged
<1>2. ASSUME NEW c \in PoolConfigs, NEW a \in Accounts, InitializeStakePool(c, a)
      PROVE  RoomInvariant(holder, n)'
  BY <1>0, <1>2, InitializeKeepsRoom
<1>3. ASSUME NEW a \in Accounts, NEW i \in Slots, NEW m \in RewardMints, AddRewardPool(a, i, m)
      PROVE  RoomInvariant(holder, n)'
  BY <1>0, <1>1, <1>3 DEF AddRewardPool, tokenVars
<1>4. ASSUME NEW a \in Accounts, NEW f \in FlagChoices, SetFlags(a, f)
      PROVE  RoomInvariant(holder, n)'
  BY <1>0, <1>1, <1>4 DEF SetFlags, tokenVars, OnlyDepositsMint
<1>5. ASSUME NEW a \in Accounts, NEW b \in Accounts, TransferAuthority(a, b)
      PROVE  RoomInvariant(holder, n)'
  BY <1>0, <1>1, <1>5 DEF TransferAuthority, tokenVars
<1>6. ASSUME NEW a \in Accounts, NEW b \in Accounts, NEW x \in Amounts,
             DangerouslyMintStakeMint(a, b, x)
      PROVE  FALSE
  BY <1>6 DEF DangerouslyMintStakeMint, OnlyDepositsMint
<1>7. ASSUME NEW a \in Accounts, NEW r \in Receipts, NEW x \in Amounts,
             NEW d \in LockupDurations, Deposit(a, r, x, d)
      PROVE  RoomInvariant(holder, n)'
  BY <1>0, <1>7, DepositKeepsRoom
<1>8. ASSUME NEW r \in Receipts, NEW kept \in SUBSET Slots, ClaimAll(r, kept)
      PROVE  RoomInvariant(holder, n)'
  <2>1. \A q \in Receipts : /\ receipts'[q].effective_stake = receipts[q].effective_stake
                            /\ receipts'[q].deposit_amount = receipts[q].deposit_amount
    BY <1>0, <1>8 DEF ClaimAll, ReceiptType
  <2>2. UNCHANGED <<config, flags, tokens, stake_mint_supply>>
    BY <1>8 DEF ClaimAll
  <2> QED BY <1>0, <2>1, <2>2, RoomUnchanged
<1>9. ASSUME NEW r \in Receipts, NEW to \in Accounts \cup {Vault},
             NEW kept \in SUBSET Slots, Withdraw(r, to, kept)
      PROVE  RoomInvariant(holder, n)'
  BY <1>0, <1>9, WithdrawKeepsRoom
<1>10. CASE EnvironmentNext
  BY <1>0, <1>1, <1>10
     DEF EnvironmentNext, FundReward, TransferStakeMint, Tick, poolVars, tokenVars
<1>11. CASE UNCHANGED vars
  BY <1>0, <1>1, <1>11 DEF vars, poolVars, tokenVars
<1> QED BY <1>2, <1>3, <1>4, <1>5, <1>6, <1>7, <1>8, <1>9, <1>10, <1>11
        DEF Next, AdminNext, StakerNext

\* The tokens of all receipts together are at most the deposits, which the vault
\* holds; and a deposit that can be paid for comes from outside the vault.
LEMMA RoomIsThere ==
    ASSUME NEW n \in Nat, NEW holder \in Bijection(1..n, Accounts), RoomInvariant(holder, n)
    PROVE  StakeMintHasRoom
<1> SUFFICES ASSUME NEW a \in Accounts, NEW x \in Amounts, NEW d \in LockupDurations,
                    Initialized, x <= tokens[a], config.min_duration <= d
             PROVE  CanMint(NewStakeTokens(x, d))
  BY DEF StakeMintHasRoom
<1> DEFINE burnt     == Burnt(receipts, config.max_weight)
           principal == [r \in Receipts |-> PrincipalOf(r)]
<1>1. /\ TypeOK /\ ConfigValid /\ PrincipalBacked
      /\ receipts \in [Receipts -> ReceiptType] /\ config.max_weight \in Nat
      /\ tokens \in [Accounts \cup {Vault} -> Nat] /\ stake_mint_supply \in Nat
  BY DEF RoomInvariant, PoolInvariant, TypeOK
<1>2. NewStakeTokens(x, d) \in Nat /\ NewStakeTokens(x, d) <= x /\ x \in Nat
  BY <1>1, NewStakeTokensWithinDeposit, InputAssumption, SMT
<1>3. Total(burnt, NumReceipts) <= Total(principal, NumReceipts)
  <2>1. NumReceipts \in Nat /\ Receipts = 1..NumReceipts
    BY SizeAssumption DEF Receipts
  <2>2. \A r \in Receipts : burnt[r] = TokenAmount(r) /\ principal[r] = PrincipalOf(r)
    BY DEF Burnt, TokenAmount
  <2>3. \A r \in Receipts : TokenAmount(r) \in Nat /\ PrincipalOf(r) \in Nat
    BY <1>1, TokenAmountNat DEF TokenAmount, PrincipalOf, ReceiptType
  <2>4. \A r \in 1..NumReceipts : burnt[r] \in Int /\ principal[r] \in Int /\ burnt[r] <= principal[r]
    <3> HIDE DEF burnt, principal
    <3> QED BY <2>1, <2>2, <2>3, SMT DEF RoomInvariant
  <2> HIDE DEF burnt, principal
  <2> QED BY <2>1, <2>4, TotalMonotone, Zenon
<1>4. Total(principal, NumReceipts) <= tokens[Vault]
  BY <1>1 DEF PrincipalBacked
<1>5. stake_mint_supply <= Total(burnt, NumReceipts)
  BY DEF RoomInvariant
<1>6. Total(burnt, NumReceipts) \in Nat
  BY <1>1, BurntNat
<1>7. Total(principal, NumReceipts) \in Nat
  <2>1. NumReceipts \in Nat /\ \A r \in 1..NumReceipts : principal[r] \in Nat
    BY <1>1, SizeAssumption DEF Receipts, PrincipalOf, ReceiptType
  <2> HIDE DEF principal
  <2> QED BY <2>1, TotalNat
<1>8. /\ tokens[a] <= HeldBy(tokens, holder, n) /\ HeldBy(tokens, holder, n) \in Nat
      /\ tokens[a] \in Nat /\ tokens[Vault] \in Nat
      /\ tokens[Vault] + HeldBy(tokens, holder, n) <= U64_MAX
  BY <1>1, HeldNat DEF RoomInvariant
<1> HIDE DEF burnt, principal
<1> QED BY <1>1, <1>2, <1>3, <1>4, <1>5, <1>6, <1>7, <1>8, WidthAssumption, SMT DEF CanMint

\* For every number of accounts that together start with at most what a u64
\* counts: while only deposits mint stake mint tokens and every withdrawal burns
\* its own, no deposit that can be paid for fails for want of room in the stake
\* mint (state.rs:44-60, deposit.rs:142-150).
THEOREM StakeMintRoomLasts ==
    ASSUME OnlyDepositsMint, NEW n \in Nat, NEW holder \in Bijection(1..n, Accounts),
           HeldBy(InitialTokens, holder, n) <= U64_MAX
    PROVE  Spec => []StakeMintHasRoom
<1>1. Init => RoomInvariant(holder, n)
  BY RoomInit
<1>2. RoomInvariant(holder, n) /\ [Next]_vars => RoomInvariant(holder, n)'
  BY NextKeepsRoom
<1>3. RoomInvariant(holder, n) => StakeMintHasRoom
  BY RoomIsThere
<1> QED BY <1>1, <1>2, <1>3, PTL DEF Spec

=============================================================================
