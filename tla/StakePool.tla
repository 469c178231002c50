------------------------------ MODULE StakePool ------------------------------
(***************************************************************************)
(* One stake pool of the spl-token-staking program: its StakePool account, *)
(* its StakeDepositReceipts, and the token accounts it controls.           *)
(*                                                                         *)
(* Every instruction is one action: Solana runs a transaction atomically   *)
(* and undoes a transaction that fails, so a condition on which the code   *)
(* returns an error or panics is a guard.                                  *)
(* The accounts a client passes (remaining_accounts included) are the ones *)
(* the program accepts; any other list makes the instruction fail.         *)
(***************************************************************************)
EXTENDS StakeMath

CONSTANTS
    Accounts,           \* the keys that hold tokens and sign
    Vault,              \* the key of the pool's vault
    RewardMints,        \* the mints of reward tokens
    NoKey,              \* Pubkey::default(): an unused slot
    MAX_REWARD_POOLS,   \* the number of reward pool slots
    NumReceipts,        \* the number of receipt addresses
    ReceiptOwner,       \* the owner a receipt address is derived from
    PoolConfigs,        \* the arguments InitializeStakePool is called with
    FlagChoices,        \* the flags SetFlags is called with
    MintWhitelisted,    \* may DangerouslyMintStakeMint be called on this pool?
    Amounts,            \* the amounts deposited, sent and minted
    LockupDurations,    \* the durations deposits are made for
    InitialTokens,      \* how much of the staked token each account starts with
    RewardSupply,       \* how much of each reward token is ever sent to its vault
    MaxTime             \* the last instant of the clock

Slots == 1..MAX_REWARD_POOLS    \* the code counts them from 0

Receipts == 1..NumReceipts      \* receipt PDAs: an owner and a nonce each

ESCAPE_HATCH_ENABLED == "ESCAPE_HATCH_ENABLED"
DISABLE_DEPOSITS     == "DISABLE_DEPOSITS"
DEPOSIT_IGNORES_LP   == "DEPOSIT_IGNORES_LP"
WITHDRAW_IGNORES_LP  == "WITHDRAW_IGNORES_LP"

AllFlags == {ESCAPE_HATCH_ENABLED, DISABLE_DEPOSITS,
             DEPOSIT_IGNORES_LP, WITHDRAW_IGNORES_LP}

ASSUME KeyAssumption ==
    /\ Vault \notin Accounts
    /\ NoKey \notin Accounts \cup RewardMints \cup {Vault}

ASSUME SizeAssumption ==
    /\ MAX_REWARD_POOLS \in Nat
    /\ NumReceipts \in Nat
    /\ MaxTime \in Nat
    /\ ReceiptOwner \in [Receipts -> Accounts]

ASSUME InputAssumption ==
    /\ PoolConfigs \subseteq
           [max_weight : 0..U64_MAX, min_duration : 0..U64_MAX, max_duration : 0..U64_MAX]
    /\ FlagChoices \subseteq SUBSET AllFlags
    /\ MintWhitelisted \in BOOLEAN
    /\ Amounts \subseteq 0..U64_MAX
    /\ LockupDurations \subseteq 0..U64_MAX

ASSUME SupplyAssumption ==
    /\ InitialTokens \in [Accounts -> Nat]
    /\ RewardSupply \in [RewardMints -> Nat]
    /\ \A m \in RewardMints : RewardSupply[m] <= U64_MAX

VARIABLES
    \* --- the StakePool account
    config,                 \* base_weight, max_weight, min_duration, max_duration
    authority,
    flags,
    total_weighted_stake,
    reward_pools,
    \* --- the StakeDepositReceipt accounts
    receipts,
    \* --- the token program's accounts
    tokens,                 \* staked tokens of every account and of the vault
    reward_vaults,          \* reward tokens in the reward vault of each mint
    unsent,                 \* reward tokens not yet sent to a vault
    lp,                     \* stake mint tokens of every account
    stake_mint_supply,
    \* --- the Clock sysvar
    clock

poolVars  == <<config, authority, flags, total_weighted_stake, reward_pools>>
tokenVars == <<tokens, reward_vaults, unsent, lp, stake_mint_supply>>
vars      == <<poolVars, receipts, tokenVars, clock>>

EmptyRewardPool ==
    [reward_vault |-> NoKey, rewards_per_effective_stake |-> 0, last_amount |-> 0]

\* A receipt address without an account. An account's size is never 0, so
\* "open" stands for "the account exists".
NoReceipt ==
    [open |-> FALSE, lockup_duration |-> 0, deposit_timestamp |-> 0,
     deposit_amount |-> 0, effective_stake |-> 0,
     claimed_amounts |-> [i \in Slots |-> 0]]

NoConfig == [base_weight |-> 0, max_weight |-> 0, min_duration |-> 0, max_duration |-> 0]

Initialized == config # NoConfig

IsEmpty(reward_pool) == reward_pool.reward_vault = NoKey

\* Mutant: only the first slot is looked at.
VaultExistsFirst(mint) == \E i \in Slots : i = 1 /\ reward_pools[i].reward_vault = mint

\* AddRewardPool creates the token account of a mint's vault, once per mint.
VaultExists(mint) == \E i \in Slots : reward_pools[i].reward_vault = mint

-----------------------------------------------------------------------------
\* The SPL token program. A transfer to oneself changes nothing.
Transfer(balances, from, to, amount) ==
    IF from = to THEN balances
    ELSE [balances EXCEPT ![from] = @ - amount, ![to] = @ + amount]

\* Minting stake mint tokens fails when the supply would not fit a u64.
CanMint(amount) == stake_mint_supply + amount <= U64_MAX

MintTo(to, amount) ==
    /\ lp' = [lp EXCEPT ![to] = @ + amount]
    /\ stake_mint_supply' = stake_mint_supply + amount

BurnFrom(from, amount) ==
    /\ lp' = [lp EXCEPT ![from] = @ - amount]
    /\ stake_mint_supply' = stake_mint_supply - amount

-----------------------------------------------------------------------------
\* Mutants of the refresh: the accumulator is overwritten; last_amount is not
\* brought up to date; an empty pool skips the division only.
RefreshedPoolOverwrites(reward_pool) ==
    LET amount == reward_vaults[reward_pool.reward_vault]
    IN  IF \/ total_weighted_stake = 0
           \/ IsEmpty(reward_pool)
           \/ amount = reward_pool.last_amount
        THEN reward_pool
        ELSE [reward_pool EXCEPT
                !.last_amount = amount,
                !.rewards_per_effective_stake =
                    AdditionalRewards(amount - reward_pool.last_amount, total_weighted_stake)]

RefreshedPoolRecounts(reward_pool) ==
    IF total_weighted_stake = 0 \/ IsEmpty(reward_pool)
    THEN reward_pool
    ELSE [reward_pool EXCEPT
            !.rewards_per_effective_stake =
                @ + AdditionalRewards(reward_vaults[reward_pool.reward_vault]
                                          - reward_pool.last_amount,
                                      total_weighted_stake)]

RefreshedPoolForgets(reward_pool) ==
    IF IsEmpty(reward_pool) THEN reward_pool
    ELSE LET amount == reward_vaults[reward_pool.reward_vault]
             add    == IF total_weighted_stake = 0 THEN 0
                       ELSE AdditionalRewards(amount - reward_pool.last_amount,
                                              total_weighted_stake)
         IN  [reward_pool EXCEPT !.last_amount = amount,
                                 !.rewards_per_effective_stake = @ + add]

\* recalculate_rewards_per_effective_stake, for one reward pool: whatever its
\* vault received since last_amount is shared among the current stake.
RefreshedPool(reward_pool) ==
    LET amount == reward_vaults[reward_pool.reward_vault]
    IN  IF \/ total_weighted_stake = 0
           \/ IsEmpty(reward_pool)
           \/ amount = reward_pool.last_amount
        THEN reward_pool
        ELSE [reward_pool EXCEPT
                !.last_amount = amount,
                !.rewards_per_effective_stake =
                    @ + AdditionalRewards(amount - reward_pool.last_amount,
                                          total_weighted_stake)]

RefreshedPools == [i \in Slots |-> RefreshedPool(reward_pools[i])]

\* Mutant: the accumulators before the refresh.
ClaimedAmountsStale(pools) == [i \in Slots |-> reward_pools[i].rewards_per_effective_stake]

\* get_claimed_amounts_of_reward_pools: where a new receipt starts.
ClaimedAmountsOf(pools) == [i \in Slots |-> pools[i].rewards_per_effective_stake]

\* The checked_sub and the checked_add of the refresh do not panic.
RefreshSucceeds ==
    \A i \in Slots :
        total_weighted_stake > 0 /\ ~ IsEmpty(reward_pools[i]) =>
            /\ reward_pools[i].last_amount <= reward_vaults[reward_pools[i].reward_vault]
            /\ RefreshedPool(reward_pools[i]).rewards_per_effective_stake <= U128_MAX

-----------------------------------------------------------------------------
\* transfer_all_claimable_rewards: what receipt r claims from each pool.
Claimable(r, pools) ==
    [i \in Slots |->
        IF IsEmpty(pools[i]) THEN 0
        ELSE ClaimableAmount(pools[i].rewards_per_effective_stake,
                             receipts[r].claimed_amounts[i],
                             receipts[r].effective_stake)]

\* What leaves the vault of a mint. The token account that takes the rewards of
\* a slot is the claimant's choice and is not checked: for the slots in kept it
\* is the reward vault itself.
PaidFrom(mint, r, pools, kept) ==
    Total([i \in Slots |->
              IF pools[i].reward_vault = mint /\ i \notin kept
              THEN Claimable(r, pools)[i] ELSE 0],
          MAX_REWARD_POOLS)

\* No checked_sub, as_u64 or token transfer of a claim fails.
ClaimSucceeds(r, pools) ==
    \A i \in Slots : ~ IsEmpty(pools[i]) =>
        /\ receipts[r].claimed_amounts[i] <= pools[i].rewards_per_effective_stake
        /\ Claimable(r, pools)[i] <= U64_MAX
        /\ Claimable(r, pools)[i] <= pools[i].last_amount
        /\ PaidFrom(pools[i].reward_vault, r, pools, {}) <= reward_vaults[pools[i].reward_vault]

\* Mutants: the claim is taken from the pools as they were before the refresh;
\* last_amount is not decremented.
PoolsAfterClaimStale(r, pools) ==
    [i \in Slots |->
        [reward_pools[i] EXCEPT !.last_amount = @ - Claimable(r, pools)[i]]]

PoolsAfterClaimKept(r, pools) == pools

\* update_reward_pools_last_amount: the pool's side.
PoolsAfterClaim(r, pools) ==
    [i \in Slots |->
        [pools[i] EXCEPT !.last_amount = @ - Claimable(r, pools)[i]]]

\* Mutant: the receipt is not brought up to date.
ClaimedUpToForgotten(r, pools) == receipts[r].claimed_amounts

\* update_reward_pools_last_amount: the receipt's side.
ClaimedUpTo(r, pools) ==
    [i \in Slots |->
        IF IsEmpty(pools[i]) THEN receipts[r].claimed_amounts[i]
        ELSE pools[i].rewards_per_effective_stake]

VaultsAfterClaim(r, pools, kept) ==
    [m \in RewardMints |-> reward_vaults[m] - PaidFrom(m, r, pools, kept)]

-----------------------------------------------------------------------------
Init ==
    /\ config = NoConfig
    /\ authority = NoKey
    /\ flags = {}
    /\ total_weighted_stake = 0
    /\ reward_pools = [i \in Slots |-> EmptyRewardPool]
    /\ receipts = [r \in Receipts |-> NoReceipt]
    /\ tokens = [a \in Accounts \cup {Vault} |-> IF a = Vault THEN 0 ELSE InitialTokens[a]]
    /\ reward_vaults = [m \in RewardMints |-> 0]
    /\ unsent = RewardSupply
    /\ lp = [a \in Accounts |-> 0]
    /\ stake_mint_supply = 0
    /\ clock = 0

\* The account is created by the instruction, so it runs once.
InitializeStakePool(c, auth) ==
    /\ ~ Initialized
    /\ c.min_duration <= c.max_duration
    /\ SCALE_FACTOR_BASE <= c.max_weight
    /\ config' = [base_weight |-> SCALE_FACTOR_BASE, max_weight |-> c.max_weight,
                  min_duration |-> c.min_duration, max_duration |-> c.max_duration]
    /\ authority' = auth
    /\ UNCHANGED <<flags, total_weighted_stake, reward_pools, receipts, tokenVars, clock>>

AddRewardPool(signer, i, mint) ==
    /\ Initialized
    /\ signer = authority
    /\ IsEmpty(reward_pools[i])
    /\ ~ VaultExists(mint)
    /\ reward_pools' = [reward_pools EXCEPT ![i] = [EmptyRewardPool EXCEPT !.reward_vault = mint]]
    /\ UNCHANGED <<config, authority, flags, total_weighted_stake, receipts, tokenVars, clock>>

SetFlags(signer, new_flags) ==
    /\ Initialized
    /\ signer = authority
    /\ flags' = new_flags
    /\ UNCHANGED <<config, authority, total_weighted_stake, reward_pools, receipts, tokenVars, clock>>

TransferAuthority(signer, new_authority) ==
    /\ Initialized
    /\ signer = authority
    /\ authority' = new_authority
    /\ UNCHANGED <<config, flags, total_weighted_stake, reward_pools, receipts, tokenVars, clock>>

DangerouslyMintStakeMint(signer, to, amount) ==
    /\ Initialized
    /\ signer = authority
    /\ MintWhitelisted
    /\ CanMint(amount)
    /\ MintTo(to, amount)
    /\ UNCHANGED <<poolVars, receipts, tokens, reward_vaults, unsent, clock>>

-----------------------------------------------------------------------------
ClampedDuration(duration) == Least(duration, config.max_duration)

NewEffectiveStake(amount, duration) ==
    EffectiveStakeAmount(StakeWeight(config, ClampedDuration(duration)), amount)

\* Mutant: the stake mint tokens of an unweighted stake.
NewStakeTokensUnweighted(amount, duration) ==
    TokenAmountFromStake(EffectiveStakeAmount(config.base_weight, amount), config.max_weight)

NewStakeTokens(amount, duration) ==
    TokenAmountFromStake(NewEffectiveStake(amount, duration), config.max_weight)

Deposit(payer, r, amount, duration) ==
    /\ Initialized
    /\ ~ receipts[r].open
    /\ amount <= tokens[payer]
    /\ DISABLE_DEPOSITS \notin flags
    /\ config.min_duration <= duration
    /\ RefreshSucceeds
    /\ total_weighted_stake + NewEffectiveStake(amount, duration) <= U128_MAX
    /\ NewStakeTokens(amount, duration) <= U64_MAX
    /\ tokens' = Transfer(tokens, payer, Vault, amount)
    /\ reward_pools' = RefreshedPools
    /\ total_weighted_stake' = total_weighted_stake + NewEffectiveStake(amount, duration)
    /\ receipts' = [receipts EXCEPT ![r] =
           [open              |-> TRUE,
            lockup_duration   |-> ClampedDuration(duration),
            deposit_timestamp |-> clock,
            deposit_amount    |-> amount,
            effective_stake   |-> NewEffectiveStake(amount, duration),
            claimed_amounts   |-> ClaimedAmountsOf(RefreshedPools)]]
    /\ \/ /\ DEPOSIT_IGNORES_LP \notin flags
          /\ CanMint(NewStakeTokens(amount, duration))
          /\ MintTo(ReceiptOwner[r], NewStakeTokens(amount, duration))
       \/ /\ DEPOSIT_IGNORES_LP \in flags
          /\ UNCHANGED <<lp, stake_mint_supply>>
    /\ UNCHANGED <<config, authority, flags, reward_vaults, unsent, clock>>

\* The owner signs and names the token accounts that take the rewards.
ClaimAll(r, kept) ==
    /\ receipts[r].open
    /\ RefreshSucceeds
    /\ ClaimSucceeds(r, RefreshedPools)
    /\ reward_vaults' = VaultsAfterClaim(r, RefreshedPools, kept)
    /\ reward_pools' = PoolsAfterClaim(r, RefreshedPools)
    /\ receipts' = [receipts EXCEPT ![r].claimed_amounts = ClaimedUpTo(r, RefreshedPools)]
    /\ UNCHANGED <<config, authority, flags, total_weighted_stake,
                   tokens, unsent, lp, stake_mint_supply, clock>>

\* Mutant: the lockup is added to a timestamp that already is its end.
UnlockedTwice(r) == receipts[r].deposit_timestamp + 2 * receipts[r].lockup_duration <= clock

\* Mutant: the seconds since the epoch instead of those since the deposit.
UnlockedFromStart(r) == receipts[r].lockup_duration <= clock

\* A lockup of more seconds than an i64 counts makes the code panic; the clock,
\* an i64 too, never gets to the end of one either.
Unlocked(r) == receipts[r].deposit_timestamp + receipts[r].lockup_duration <= clock

TokenAmount(r) == TokenAmountFromStake(receipts[r].effective_stake, config.max_weight)

CanBurn(r) ==
    /\ TokenAmount(r) <= lp[ReceiptOwner[r]]
    /\ TokenAmount(r) <= stake_mint_supply

\* Mutant: the tokens deposited leave the total, not the stake they weighed.
TotalWithoutPrincipal(r) == total_weighted_stake - receipts[r].deposit_amount

TotalWithout(r) == total_weighted_stake - receipts[r].effective_stake

\* Mutant: the weighted amount is paid back.
RefundWeighted(r) == receipts[r].effective_stake \div SCALE_FACTOR_BASE

\* transfer_staked_tokens_to_owner.
Refund(r) == receipts[r].deposit_amount

\* The staked tokens go to any account the owner names, the vault included.
Withdraw(r, to, kept) ==
    /\ receipts[r].open
    /\ RefreshSucceeds
    /\ receipts[r].effective_stake <= total_weighted_stake
    /\ ESCAPE_HATCH_ENABLED \in flags \/ Unlocked(r)
    /\ Refund(r) <= tokens[Vault]
    /\ ClaimSucceeds(r, RefreshedPools)
    /\ tokens' = Transfer(tokens, Vault, to, Refund(r))
    /\ total_weighted_stake' = TotalWithout(r)
    /\ reward_vaults' = VaultsAfterClaim(r, RefreshedPools, kept)
    /\ reward_pools' = PoolsAfterClaim(r, RefreshedPools)
    /\ receipts' = [receipts EXCEPT ![r] = NoReceipt]
    /\ \/ /\ WITHDRAW_IGNORES_LP \notin flags
          /\ CanBurn(r)
          /\ BurnFrom(ReceiptOwner[r], TokenAmount(r))
       \/ /\ WITHDRAW_IGNORES_LP \in flags
          /\ UNCHANGED <<lp, stake_mint_supply>>
    /\ UNCHANGED <<config, authority, flags, unsent, clock>>

-----------------------------------------------------------------------------
\* Outside the program: anybody sends reward tokens to a reward vault or stake
\* mint tokens to one another, and time passes.
FundReward(mint, amount) ==
    /\ VaultExists(mint)
    /\ 0 < amount /\ amount <= unsent[mint]
    /\ reward_vaults' = [reward_vaults EXCEPT ![mint] = @ + amount]
    /\ unsent' = [unsent EXCEPT ![mint] = @ - amount]
    /\ UNCHANGED <<poolVars, receipts, tokens, lp, stake_mint_supply, clock>>

TransferStakeMint(from, to, amount) ==
    /\ 0 < amount /\ amount <= lp[from]
    /\ from # to
    /\ lp' = Transfer(lp, from, to, amount)
    /\ UNCHANGED <<poolVars, receipts, tokens, reward_vaults, unsent, stake_mint_supply, clock>>

Tick ==
    /\ clock < MaxTime
    /\ clock' = clock + 1
    /\ UNCHANGED <<poolVars, receipts, tokenVars>>

-----------------------------------------------------------------------------
AdminNext ==
    \/ \E c \in PoolConfigs, a \in Accounts : InitializeStakePool(c, a)
    \/ \E a \in Accounts, i \in Slots, m \in RewardMints : AddRewardPool(a, i, m)
    \/ \E a \in Accounts, f \in FlagChoices : SetFlags(a, f)
    \/ \E a, b \in Accounts : TransferAuthority(a, b)
    \/ \E a, b \in Accounts, n \in Amounts : DangerouslyMintStakeMint(a, b, n)

StakerNext ==
    \/ \E a \in Accounts, r \in Receipts, n \in Amounts, d \in LockupDurations :
          Deposit(a, r, n, d)
    \/ \E r \in Receipts, kept \in SUBSET Slots : ClaimAll(r, kept)
    \/ \E r \in Receipts, to \in Accounts \cup {Vault}, kept \in SUBSET Slots :
          Withdraw(r, to, kept)

EnvironmentNext ==
    \/ \E m \in RewardMints, n \in Amounts : FundReward(m, n)
    \/ \E a, b \in Accounts, n \in Amounts : TransferStakeMint(a, b, n)
    \/ Tick

Next == AdminNext \/ StakerNext \/ EnvironmentNext

Spec == Init /\ [][Next]_vars

=============================================================================
