------------------------- MODULE StakePoolProperties -------------------------
(***************************************************************************)
(* What a stake pool promises its stakers, as invariants and as            *)
(* properties of its steps.                                                *)
(***************************************************************************)
EXTENDS StakePool

RewardPoolType ==
    [reward_vault : RewardMints \cup {NoKey},
     rewards_per_effective_stake : Nat,
     last_amount : Nat]

ReceiptType ==
    [open : BOOLEAN, lockup_duration : Nat, deposit_timestamp : Nat,
     deposit_amount : Nat, effective_stake : Nat,
     claimed_amounts : [Slots -> Nat]]

\* The type of every account and balance; in particular no balance, last_amount
\* or total of the program ever goes below zero.
TypeOK ==
    /\ config \in [base_weight : Nat, max_weight : Nat, min_duration : Nat, max_duration : Nat]
    /\ authority \in Accounts \cup {NoKey}
    /\ flags \in SUBSET AllFlags
    /\ total_weighted_stake \in Nat
    /\ reward_pools \in [Slots -> RewardPoolType]
    /\ receipts \in [Receipts -> ReceiptType]
    /\ tokens \in [Accounts \cup {Vault} -> Nat]
    /\ reward_vaults \in [RewardMints -> Nat]
    /\ unsent \in [RewardMints -> Nat]
    /\ lp \in [Accounts -> Nat]
    /\ stake_mint_supply \in Nat
    /\ clock \in 0..MaxTime

-----------------------------------------------------------------------------
StakeOf(r) == receipts[r].effective_stake

PrincipalOf(r) == receipts[r].deposit_amount

\* The pool's running total, updated by one receipt at a time over a whole
\* history of deposits and withdrawals, stays the sum of the open receipts'
\* effective stakes (deposit.rs:135-139, withdraw.rs:104-113).
StakeAccounting ==
    total_weighted_stake = Total([r \in Receipts |-> StakeOf(r)], NumReceipts)

\* The vault can pay every open receipt its principal back, whatever the order
\* of withdrawals (withdraw.rs:49-65): one staker's withdrawal never spends
\* another's deposit.
PrincipalBacked ==
    Total([r \in Receipts |-> PrincipalOf(r)], NumReceipts) <= tokens[Vault]

\* What receipt r has accrued in slot i by the last refresh, scaled up.
Accrued(r, i) ==
    StakeOf(r) * (reward_pools[i].rewards_per_effective_stake - receipts[r].claimed_amounts[i])

\* A reward vault holds at least what its pool thinks it holds, and that covers
\* what all the receipts together have accrued (state.rs:230-260,
\* claim_base.rs:90-132): truncation always favours the vault.
RewardSolvency ==
    \A i \in Slots : ~ IsEmpty(reward_pools[i]) =>
        /\ reward_pools[i].last_amount <= reward_vaults[reward_pools[i].reward_vault]
        /\ Total([r \in Receipts |-> Accrued(r, i)], NumReceipts)
               <= reward_pools[i].last_amount * SCALE_FACTOR_BASE_SQUARED

\* What makes the three properties above inductive.
ConfigValid == Initialized => IsPool(config)

ClosedReceiptsEmpty ==
    \A r \in Receipts : ~ receipts[r].open => receipts[r] = NoReceipt

EmptySlotsZero ==
    \A i \in Slots : IsEmpty(reward_pools[i]) => reward_pools[i] = EmptyRewardPool

VaultsDistinct ==
    \A i, j \in Slots :
        ~ IsEmpty(reward_pools[i])
        /\ reward_pools[i].reward_vault = reward_pools[j].reward_vault => i = j

ReceiptsBehindPools ==
    \A r \in Receipts, i \in Slots :
        receipts[r].claimed_amounts[i] <= reward_pools[i].rewards_per_effective_stake

VaultsWithinSupply ==
    \A m \in RewardMints : reward_vaults[m] + unsent[m] <= RewardSupply[m]

\* The inductive invariant of the pool: a slot's vault is its own, a receipt has
\* never claimed past the accumulator (claim_base.rs:90-93), and what closed
\* receipts and empty slots leave behind is zero (withdraw.rs:84-88,
\* add_reward_pool.rs:21-26).
PoolInvariant ==
    /\ TypeOK
    /\ ConfigValid
    /\ ClosedReceiptsEmpty
    /\ EmptySlotsZero
    /\ VaultsDistinct
    /\ ReceiptsBehindPools
    /\ VaultsWithinSupply
    /\ StakeAccounting
    /\ PrincipalBacked
    /\ RewardSolvency

\* As long as the accumulator fits its u128, no unwrap and no transfer of a
\* claim or a withdrawal fails (withdraw.rs:104-112, claim_base.rs:90-102, 132):
\* no history of deposits, distributions and claims by others can make an open
\* receipt's own claim panic, and with it lock its principal in.
ReceiptsNeverStuck ==
    \A r \in Receipts :
        receipts[r].open /\ RefreshSucceeds =>
            /\ StakeOf(r) <= total_weighted_stake
            /\ PrincipalOf(r) <= tokens[Vault]
            /\ ClaimSucceeds(r, RefreshedPools)

\* When no deposit skips the stake mint (FlagChoices without
\* DEPOSIT_IGNORES_LP) and holders burn no tokens outside the program, enough
\* stake mint tokens exist to burn for every open receipt
\* (deposit.rs:142-150, withdraw.rs:67-82).
StakeMintCoversReceipts ==
    Total([r \in Receipts |-> TokenAmount(r)], NumReceipts) <= stake_mint_supply

\* The digit shift is chosen for "all tokens being staked for the max stake weight"
\* in one deposit (state.rs:44-45). It also suffices for any number of them: as
\* long as only deposits mint stake mint tokens and withdrawals burn them, no
\* deposit that can be paid for fails for want of u64 room (deposit.rs:142-150).
StakeMintHasRoom ==
    \A a \in Accounts, n \in Amounts, d \in LockupDurations :
        Initialized /\ n <= tokens[a] /\ config.min_duration <= d =>
            CanMint(NewStakeTokens(n, d))

-----------------------------------------------------------------------------
\* What a claim by receipt r would take from slot i right now.
Entitlement(r, i) == Claimable(r, RefreshedPools)[i]

\* "Ever increasing accumulator" (state.rs:68): it never falls, and a slot once
\* taken keeps its reward vault (add_reward_pool.rs:24).
AccumulatorNeverFalls ==
    [][\A i \in Slots : ~ IsEmpty(reward_pools[i]) =>
          /\ reward_pools'[i].reward_vault = reward_pools[i].reward_vault
          /\ reward_pools'[i].rewards_per_effective_stake
                 >= reward_pools[i].rewards_per_effective_stake]_vars

\* No deposit, claim, withdrawal or setting of anybody else takes away a unit of
\* the rewards a receipt can claim.
EntitlementNeverFalls ==
    [][\A r \in Receipts : receipts[r].open /\ receipts'[r] = receipts[r] =>
          \A i \in Slots : Entitlement(r, i)' >= Entitlement(r, i)]_vars

\* "The latest accumulated rewards are attributed to all previous depositors
\* and not the deposit resulting from this instruction" (lib.rs:65-66).
NewcomerTakesNothing ==
    [][\A r \in Receipts :
          ~ receipts[r].open /\ receipts'[r].open /\ total_weighted_stake > 0 =>
              \A i \in Slots : Entitlement(r, i)' = 0]_vars

\* The first depositor of an empty pool can claim what arrived while nobody was
\* staked (state.rs:194-195), up to the truncation of the accumulator.
FirstDepositorCollects ==
    [][\A r \in Receipts :
          ~ receipts[r].open /\ receipts'[r].open /\ total_weighted_stake = 0 =>
              \A i \in Slots : ~ IsEmpty(reward_pools[i]) =>
                  LET stake   == receipts'[r].effective_stake
                      arrived == reward_vaults[reward_pools[i].reward_vault]
                                 - reward_pools[i].last_amount
                  IN  stake > 0 =>
                        Entitlement(r, i)' >= arrived - 1 - stake \div SCALE_FACTOR_BASE_SQUARED
      ]_vars

=============================================================================
