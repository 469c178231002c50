# A TLA+ model of spl-token-staking

The repository holds a Solana program with which the holders of an SPL token
stake it for a chosen time and earn a share of the rewards sent to the pool, and
a TypeScript SDK that builds its transactions. This directory models the program
in TLA+, checks small instances of it with TLC, and proves its main properties
for every size of instance with TLAPS.

## The system

All state is in accounts; all code runs in instructions. An instruction runs
alone on the accounts it writes and is undone when it fails, so the concurrency
of the system is the *order* in which instructions of the authority, of the
stakers and of strangers reach a pool. Nothing in the program runs by itself.

| Part | State | Operations |
|---|---|---|
| Stake pool (`state.rs`) | `StakePool`: weights, durations, flags, authority, `total_weighted_stake`, ten `RewardPool` slots | the authority's instructions |
| Reward pool (`state.rs`) | a reward vault, `rewards_per_effective_stake`, `last_amount` | `recalculate_rewards_per_effective_stake`, run first by every staker's instruction |
| Stake receipt (`state.rs`) | `StakeDepositReceipt`: principal, effective stake, lockup, one `claimed_amounts` entry per slot | created by `deposit`, marked by `claim_all`, closed by `withdraw` |
| Token accounts (SPL token program) | the vault, the reward vaults, the stake mint | transfers, mints and burns called by the instructions, and by anybody outside the program |
| Stake math (`state.rs`) | none | stake weight, digit shift, effective stake, stake mint tokens |
| SDK receipts (`utils.ts`) | none but what a call has read so far | scanning a wallet's receipts, the next unused nonce, receipts by time frame |
| SDK arithmetic (`utils.ts`) | none | digit shift and stake weight, a second time |
| SDK builders (`instructions.ts`, `utils.ts`) | none but a pool read earlier | the accounts of deposits, claims and withdrawals; `initStakePool`, `addRewardPool` |
| Published interface (`idl.ts`, `idl_v0.ts`) | none | the accounts, privileges and arguments of every instruction and the layout of every account, of two versions of the program |
| Metadata instruction (`update_token_meta.rs`) | the metadata account of the stake mint, kept by the Metaplex program | created by the first call, updated by the others |

How they interact: a reward distribution is a plain token transfer to a reward
vault, of which the program learns nothing. The next deposit, claim or withdrawal
compares the vault's balance with `last_amount`, divides the difference among the
current stake, and adds the quotient to the accumulator. A receipt can claim the
growth of the accumulator since the receipt was last marked, times its stake.

The SDK reads accounts with requests to a node and sends transactions that name
every account they use. Between two of its requests, and between the last request
and the arrival of the transaction, anything may happen on the chain.

What is hard:

- truncating divisions in every refresh and every claim, whose errors add up over
  an unbounded history and must never add up to more than a vault holds;
- `last_amount`, a cached balance that both strangers (upwards) and claims
  (downwards) change, and that any off-by-one turns into a panic of all later
  instructions;
- a panic in a claim is a panic in a withdrawal: it would lock the principal in;
- the order of refresh, receipt, total and transfer within an instruction;
- reward pools added while receipts are open, and empty slots between used ones;
- a pool that becomes empty and is entered again, with rewards arriving meanwhile;
- flags and stake mint tokens that change, and change hands, between the deposit
  and the withdrawal of one receipt;
- the widths of u64 and u128;
- clients that read page by page, race for the same nonce, or send a list of
  accounts that was complete when the pool was read;
- an interface stated twice, by the program's structs and by the published
  description, and bytes of an account named by offsets added up by hand;
- an authority that changes while the address of the pool, and the seeds it signs
  with, must not.

What makes the parts correct, in one line each: the total is the sum of the
receipts; the vault holds every principal; each reward vault covers everything
accrued; nobody's entitlement is reduced by somebody else's instruction; a
newcomer has no share in the past; an open receipt never gets stuck; the weight
is the documented line; stake mint tokens fit their type and cover the receipts.
For the SDK: a scan finds what was there all along in pages that never empty; a
search passes over nothing that was free; a race for a nonce has a
winner; the program takes a list of accounts exactly if it is still complete; the
client computes the program's weight and decimals. For both: a transaction built
from the published interface is understood by the program, and the authority of
the day is obeyed and nobody else.

Two abstract specifications say the same of a whole history. A pool is an *escrow*
of deposits: each is held until its own time and paid back once, whole. And it is
a *ledger* of rewards: whatever arrives is entered to the credit of every single
receipt in proportion to its stake.

## Modules

| Module | What it is |
|---|---|
| `Arithmetic` | sums and powers as recursive functions, minimum and maximum |
| `StakeMath` | the arithmetic of `state.rs` and `claim_base.rs` |
| `StakePool` | the state machine of one pool: an action per instruction, and the environment |
| `StakePoolProperties` | type invariant, invariants and step properties of the pool, and the inductive invariant |
| `StakePoolLiveness` | fairness, and the promise that a staker who may leave does |
| `StakePoolClaims` | a sentence of the comments that the code does not keep |
| `StakeMathProperties` | the arithmetic against its reference definitions |
| `ClientMath` | the SDK's arithmetic against `StakeMath` |
| `Escrow` | abstract: what a pool promises about deposits |
| `RewardLedger` | abstract: what a pool promises about rewards |
| `StakePoolRefinement` | the pool read as an escrow and as a ledger |
| `ReceiptScan` | the scan of a wallet's receipts and the search for a nonce, by several clients, with deposits of any nonce and withdrawals |
| `ReceiptFetch` | the fetch of receipts by time frame, with deposits and withdrawals |
| `Interface` | accounts, privileges, arguments and layouts, and what Anchor and Solana make of them |
| `Program` | the interface as the program's structs state it |
| `IDL`, `IDLV0` | the interface as it is published, of the current version and of version 0 |
| `ClientTransactions` | transactions of stakers and authorities, built from the published interface and from a pool read earlier, with reward pools added, the authority changing and metadata set |
| `MCStakePool`, `MCStakePoolLiveness`, `MCReceiptFetch`, `MCClientTransactions` | constants and symmetry for TLC |
| `ArithmeticTheorems`, `StakeMathTheorems` | lemmas on sums, powers, division, the weight and the accumulator |
| `StakeMathProofs` | the theorems on the weight, the stake mint tokens and the client's arithmetic |
| `StakePoolTheorems` | the pool's invariants: `PoolInvariant` and, on top of it, the stake mint's |
| `StakePoolStepTheorems` | the pool's step properties, and that it implements `Escrow` and `RewardLedger` |
| `ReceiptScanProofs`, `ReceiptFetchProofs`, `ClientTransactionsProofs` | the theorems on the SDK's calls and transactions |

`StakePool` builds on `StakeMath`; `ClientMath` compares with it. `ReceiptFetch` and
`ClientTransactions` hold an instance each of `Program` and of the two published
interfaces. `StakePoolRefinement` instantiates the two abstract specifications.

### How `StakePool` corresponds to the code

| In the model | In the code |
|---|---|
| `config`, `authority`, `flags`, `total_weighted_stake`, `reward_pools` | the `StakePool` account; a slot whose `reward_vault` is `NoKey` is `RewardPool::is_empty` |
| `receipts` | receipt accounts; one address per owner and nonce, `open` when the account exists |
| `tokens`, `reward_vaults`, `lp`, `stake_mint_supply` | balances kept by the token program |
| `unsent` | what bounds the rewards ever sent (an assumption of the model) |
| `clock` | the `Clock` sysvar |
| `InitializeStakePool`, `AddRewardPool`, `SetFlags`, `TransferAuthority`, `DangerouslyMintStakeMint` | the authority's instructions |
| `Deposit`, `ClaimAll`, `Withdraw` | the stakers' instructions, each with its refresh, transfers, mint or burn |
| `FundReward`, `TransferStakeMint`, `Tick` | what happens outside the program |

An instruction that returns an error or panics is rolled back; a condition under
which it does is therefore the negation of a guard, and helpers such as
`RefreshSucceeds` and `ClaimSucceeds` collect the `checked_` operations, `as_u64`
conversions and token transfers on the path. A reward vault is derived from the
reward mint, so `reward_vault` is the mint itself, and `AddRewardPool` can create
it once only (`VaultExists`). The destination of a claim is not checked by the
program; `kept` is the set of slots whose claimant names the reward vault itself
as the destination, which leaves the tokens there. The destination of a withdrawal may
likewise be the pool's own vault. SCALE_FACTOR_BASE, the widths and the base of
the digit shift are constants; the code's values satisfy the assumptions made of
them. What the program computes in U192 and U256 cannot overflow those types and
is exact here.

### How the pool implements the abstract specifications

| `Escrow` | in the pool |
|---|---|
| `pot`, `purses` | `tokens`: of the vault, of everybody |
| `held` | a receipt's `deposit_amount`, until `deposit_timestamp + lockup_duration` |
| `terms` | the durations from `min_duration` to `max_duration`, agreed on by `InitializeStakePool` |
| `hatch` | the flag ESCAPE_HATCH_ENABLED |
| `Put`, `Take` or `LeaveBehind` | `Deposit`, `Withdraw`; everything else stutters |

`LeaveBehind` is a withdrawal to the pool's own vault, which the program does not
forbid. `Put` holds for a duration within the terms: it is the clamping in
`Deposit` that makes it so.

| `RewardLedger` | in the pool |
|---|---|
| `stake` | a receipt's `effective_stake` |
| `credit` | stake times the distance from `claimed_amounts` to `rewards_per_effective_stake`, in units of `SCALE_FACTOR_BASE_SQUARED` to the token |
| `counted`, `balance` | `last_amount`, the reward vault's balance |
| `Join`, `Claim`, `Leave`, `Arrive` | `Deposit`, `ClaimAll`, `Withdraw`, `FundReward`; everything else stutters, `AddRewardPool` included |

The ledger changes every receipt's credit in every step that counts arrivals; the
program changes one accumulator per slot and one receipt. That the two agree is
the point of the accumulator, and each slot must have a vault of its own for it.

### How the SDK's modules correspond to the code

One request to the node is one step: the accounts of one page are read together
(`getMultipleAccountsInfo`), and anything may happen between two pages. Each of
the modules keeps only the part of the chain its calls look at, with the
instructions that change that part.

| In the model | In the code |
|---|---|
| `ReceiptScan!open` | the nonces of one wallet whose receipt account exists |
| `StartScan`, `ScanPage` | `batchRequestStakeReceipts`, a round of its loop |
| `StartSearch`, `SearchPage`, `Submit` | `getNextUnusedStakeReceiptNonce`, a round of its loop, and the `deposit` with its result |
| `Deposit`, `Take` of `ReceiptScan` | a `deposit` by any payer for the wallet, with a nonce of the payer's choice; the creation (`init`) of the receipt's account |
| `Derivable` | `toArrayLike(Buffer, "le", 4)`, which throws past the largest u32 |
| `FetchKeys`, `FetchChunk`, `FetchEnds` | the `getProgramAccounts` request with its filter and chunks; one answer of `fetchMultiple`; `Promise.all` |
| `ReadPool`, `BuildDeposit`, `BuildClaim` | the caller's fetch of the pool, `createStakeBuilder` and the two functions that list accounts |
| `SubmitDeposit`, `SubmitClaim` | the transaction as Anchor's client builds it (`Build`), and what the program makes of it: privileges, `has_one` and seeds, the list of accounts (`RefreshAccepts`, `ClaimAccepts`), the pool's signature (`PoolSigns`) |
| `SdkInitStakePool`, `AddRewardPool` | `initStakePool`, `addRewardPool`; in `AddRewardPool` the caller may also name the pool, as one does that builds the instruction alone |
| `AdminCall` | `set_flags`, `dangerously_mint_stake_mint`, `transfer_authority`, `update_token_meta`, by anybody, the fee paid by the caller or a sponsor |
| `Filters`, `DepositTimestampSlice` | the places `8 + 32 + 32` and `8 + 32 + 32 + 32 + 8` of the request; `FetchedTime` decodes by the interface |
| `Listed`, `Field` of `Interface` | an account of an instruction with `isMut`, `isSigner`, `isOptional`; a field and its bytes |

The names of instructions and accounts are those of the published interface, which
are those of the program in camel case. An account that an instruction creates is
writable in `Program`, as Anchor has it. Of version 0 the repository holds the
interface only; its program is taken to agree with it.

`steady`, `rivals` and `taken` are history that only the properties read, and so
are the fields of `admin`. In `ClientTransactions` a token account is named by its
owner and mint, and every claim has something to pay out, so that its accounts
must be writable.

Operators introduced by a comment "Mutant:" are seeded faults: plausible mistakes
in the definition that follows them. They are used by no specification; each
property was checked to fail when its mutant takes the place of the definition.

## What is checked

Deadlock is checked in every run; there is none, because stakers can always claim
or the authority act.

| Run | Shows | Instance |
|---|---|---|
| `rewards` | solvency, no stuck receipt, entitlements of the others never fall, newcomers take nothing, the first depositor collects, accumulators never fall, the stake mint never fills up; the pool implements the ledger | one reward mint, two receipts, unit 2, weights 1x and 2x, rewards of 1 or 2 up to 3 in all |
| `two_pools` | vaults are never shared, the inductive invariant, no claim stuck on account of another slot; the ledger with two slots | two slots, two mints, added in any order and at any moment |
| `stake_mint` | the total, the principal and the stake mint supply agree with the receipts; the pool implements the escrow | two stakers, all flags but DEPOSIT_IGNORES_LP, the authority minting, tokens changing hands, the escape hatch; no lockup and one beyond the maximum, which is clamped |
| `liveness` | nobody who may leave is trapped | two stakers, all four instructions' flags, a lockup that ends when time passes and one that does not |
| `stake_math` | the weight follows the line, grows with the lockup, stake mint tokens fit; the client's weight and decimals are the program's | every pool with weights up to 20, five durations, every amount, up to 4 decimals |
| `receipt_scan` | what a scan is sure to find, a search passes over nothing but what was taken meanwhile, a race for a nonce has a winner | two clients and other depositors, nonces 0 to 4, pages of 2 |
| `receipt_fetch` | whatever the order of the answers, steady receipts of the pool are fetched as they are, and none of another pool or from before the frame | three addresses and one of another pool, chunks of 2, four frames, three instants, both versions |
| `client_transactions` | deposits, claims and withdrawals are accepted exactly if their account list is still complete; the authority is obeyed and nobody else | two clients, three slots, two mints, two keys, a sponsor, both versions |
| `first_depositor_collects_all`, `scan_finds_all`, `authority_adds`, `authority_sets_metadata` | a statement the code does not keep (below) | as `rewards`, `receipt_scan`, `client_transactions` |

Bounds. A unit of 2 makes truncation happen at nearly every division, with two
receipts of weights 1x and 2x and totals of 2 to 8, against 4 units squared; a
larger unit makes it rarer, not different. Two receipts are enough for a claim or
a withdrawal to disturb another; closing and reopening both is reached, so is the
pool that empties and fills again. U128_MAX is small enough (24, 16) for the
accumulator to reach it in the runs: the guards for its overflow are exercised.
Pages of 2 over 5 nonces make two full pages and a last one that the nonces do not
fill; with the largest u32 as `MAX_INDEX` the code's pages do not fill their last
page either. (The loop of the
scan ends by its bound only for pages of 1.) Two mints in three slots allow a
reward pool to be added before, between and after those a client has seen.
Two keys let the pool be handed on and back. Clients, keys and mints are symmetric
in `client_transactions`: nothing there tells two of a kind apart, and all its
properties are invariants and step properties.
`MaxTime` bounds the clock, `RewardSupply` what is ever sent, `Amounts` and
`LockupDurations` what is asked for. The theorems have no such bounds.

Fairness (`liveness`). The program schedules nothing. Assumed are that time
passes and that the owner of a receipt goes on submitting `Withdraw`: weak
fairness of `Tick` and of `Withdraw` on each receipt. No fairness is assumed of
the authority, of the other stakers or of rewards. `MayLeave` lists what the code
asks of an owner beside time: the lockup over or the escape hatch open, the stake
mint tokens to burn or the flag that waives them, an accumulator within u128. Without
fairness of `Tick` the run fails: the clock stops before a lockup of 1 is over. The
lockup of 2 never ends under `MaxTime`, so its owner leaves by the escape hatch only.

### Where comments and code differ

- `state.rs:194-195` says the first depositor of an empty pool collects all
  rewards accumulated. Tokens that an earlier refresh already counted in
  `last_amount` but truncation did not pay out stay in the vault for ever;
  `FirstDepositorCollects` states what does hold and is proved.
- `utils.ts:42` says a wallet's receipts are all requested, `utils.ts:98` that a
  page of empty addresses is past the last receipt. It need not be: a deposit may
  choose any nonce (`tests/escape-hatch.ts:27` begins with 2), and withdrawals empty
  pages. `ScanFindsCovered` states what does hold and is proved.
- `instructions.ts:64` adds a reward pool to an existing pool, but finds the pool
  by the authority's key; after `TransferAuthority` that is another address.
  `AuthorityIsObeyed` states what holds: the call works when the pool is named.
- `idl.ts:485` publishes the authority of `updateTokenMeta` as read-only, after
  `update_token_meta.rs:11`, but the handler makes it the payer of a new metadata
  account (`update_token_meta.rs:61`), which is debited. The first call works only
  if the authority also pays the transaction's fee, as in the test. That is
  `writable` in `AuthorityIsObeyed`; later calls do not depend on it.

Disagreements without a run: `utils.ts:263-264` says receipts are filtered by an
inclusive start and end time, but the filter sees the first request's times, and a
receipt closed and opened again before the second request is returned with a later
one, which `NothingFromBeforeFrame` leaves open; `state.rs:242-244` says the scaling avoids the loss
of precision, but a reward smaller than total stake / 10^18 is counted in
`last_amount` and adds 0 to the accumulator (the counterexample of
`first_depositor_collects_all` goes through that); `state.rs:127` says a lockup of
`max_duration` receives the max weight, but with equal durations it receives the
base weight, as a unit test expects; `calculateStakeWeight` of the SDK does not
clamp the duration, so above `max_duration` it returns more than the program
gives, which is why `ClientWeightAgrees` stops there.

## What is proved

From the assumptions named in the modules only (a positive unit,
a radix of at least 2, the widths of the integers, distinct keys, total reward
supplies within u64), for every number of accounts, receipts, slots and amounts:

- `PoolIsInvariant`: `PoolInvariant` is inductive. `InitInvariant` is the base,
  then one lemma per action, joined by `NextKeepsInvariant`.
- `TypesHold`, `TotalIsTheReceipts`, `PrincipalIsBacked`, `RewardsAreSolvent`
  follow from it; `NoReceiptIsStuck` needs in addition that a share of a solvent
  sum, rounded down, is at most `last_amount`.
- `AccumulatorsNeverFall`, `EntitlementsNeverFall`, `NewcomersTakeNothing`,
  `FirstDepositorsCollect` are step properties under the invariant.
- `StakeMintCovers`: if the authority never sets DEPOSIT_IGNORES_LP (the assumption
  `DepositsMint` on `FlagChoices`), the stake mint tokens suffice to burn for every
  open receipt. `StakeMintInvariant` adds that the flag stays clear and that there
  is no stake before the pool's terms are settled, since the tokens of a receipt
  are computed from `max_weight`: a receipt burns what it minted because that
  never changes after.
- `StakeMintRoomLasts`: if stake mint tokens come from deposits alone and every
  withdrawal burns its own (`OnlyDepositsMint`: no mint whitelist, WITHDRAW_IGNORES_LP
  never set), and the staked token's supply fits a u64, as the token program has
  it, the stake mint has room for every deposit that can be paid for. Otherwise it
  may fill up: withdrawals that burn nothing leave their tokens behind.
- `WeightsFollowLine`, `LongerLocksWeighMore`, `TokenAmountsFit`,
  `ClientWeightsAgree`, `ClientDecimalsAgree` are about the arithmetic alone.
- `SearchesSkipTakenOnly`, `RejectionsHaveRivals`, `ScansFindCovered` are about the
  SDK's receipt calls, for every number of clients and size of page, as is
  `NoncesStayDerivable`: no nonce past the largest u32 is ever asked for.
- `FetchesAreOfThePool`, `SteadyReceiptsAreFetched`, `FetchesRespectFrame` are
  about the fetch by time frame, for every number of receipts, any frames and
  sizes of chunk, and the layouts of both versions.
- `DepositsMustBeCurrent`, `ClaimsMustBeCurrent`, `AuthorityObeyed` and
  `ClientsTypes` are about whole transactions, for every number of clients, keys,
  mints and slots: what the program accepts of what the clients built earlier from
  the published interface.
- `EscrowIsKept` and `RewardLedgerIsKept`: the pool implements `Escrow` and
  `RewardLedger`. Initial states map to initial states (`EscrowInit`, `LedgerInit`);
  then there is one lemma for each abstract action, that the pool's action maps to
  it under the invariant, and the other actions stutter (`EscrowStutters` and the
  cases of `LedgerStep`).

`RewardSolvency` is not inductive by itself, and the heart of the argument is why
it holds. It compares without dividing: the sum over receipts of stake times
unclaimed growth is at most `last_amount` times the unit squared. A refresh adds
at most diff * unit^2 to the left side *because the total is the sum of the
stakes* (`StakeAccounting`), and a claim takes at most as much from the right as
it zeroes on the left because it truncates. Claims subtract natural numbers only
if no receipt is ahead of the accumulator (`ReceiptsBehindPools`); a new slot
starts solvent only if receipts are at 0 in it, hence `EmptySlotsZero`;
balances of two slots must not be the same tokens (`VaultsDistinct`); and a slot
of a closed receipt must contribute nothing (`ClosedReceiptsEmpty`). Deposits keep
their weight within bounds by `ConfigValid`, and `VaultsWithinSupply` keeps
claimed amounts within u64.

The refinement to the ledger rests on three facts. `LedgerRefresh`: what a refresh
adds to an accumulator is the ledger's `Increase`, because the total is the sum of
the stakes and every used slot's vault is its own. `LedgerCredit`: raising the
accumulator by it raises a receipt's credit by stake times the increase, because
no receipt is ahead of the accumulator. `LedgerSettles`: marking a receipt at the
accumulator sets its credit to nothing. The refinement to the escrow needs of the
invariant only that a closed receipt is empty.

For the receipt calls, `ScanInvariant` adds to the properties what a call in
progress knows: every address a search has passed was taken at some moment of it
(`SearchedTaken`, which needs that what is open was open during the search), a
nonce that is taken was taken by a rival (`TakenByRivals`), and a scan has found
every steady receipt behind its page (`ScannedSoFar`). `PastMaxPage`, `NextPage`
and `PagesBehind` are the arithmetic of pages.

`StakeMintHasRoom` needs four facts at once (`RoomInvariant`): there are no more
stake mint tokens than the open receipts are worth, no receipt is worth more
tokens than were deposited for it (`TokenAmountWithinDeposit`, from the choice of
the digit shift), the vault covers what was deposited, and vault and accounts
together hold no more than they did at the start. A depositor's tokens and the
supply of the stake mint then fit a u64 together. `HeldChanges` is the sum over
the accounts when one of them pays or is paid.

For the fetch by time frame, the layouts come first: `ReceiptLayouts` proves that
the program's struct and both published interfaces list the same fields, from
which the places of the bytes follow, and with them that the filter compares the
owner's pool and the deposit's time and nothing else. `FetchInvariant` then says
where a steady receipt is while the answers come in: in a chunk still asked for or
among the fetched (`SteadyOnTheWay`). An address still asked for is of the pool
(`AwaitedWithin`), and a receipt opened there later cannot be from before the
frame, because the frame had begun when the keys were read.

For transactions, `InterfacesAgree` compares the published interfaces with the
program's structs instruction by instruction. From it follows for each instruction
that every account the client names arrives in the place where the program looks
for it, with the privileges it needs, so that acceptance comes down to the keys.
`ClientInvariant` is short: a slot that a client saw in use keeps its vault
(`Kept`), a transaction carries the accounts chosen for what was seen, two slots
never have the same vault (`Distinct`), and the pool signs for its own address.
The rest is about sequences: the list of accounts is flattened from the slots and
the program walks it with one index over its own slots, so that equal lists must
mean equal slots: `UsedVaults` of an older pool is as long as that of the newer one
only if nothing was added, and the pairs of a claim match in order only if each
belongs to the slot it was built for.

`WeightsFollowLine` rests on `TruncatedLine`: two truncated divisions, compared
with the exact quotient without dividing; at the maximum duration the two divisions
are exact (`StakeWeightAtMaximum`), so the maximum is reached and not one below.

The inductive invariants were checked with TLC on the instances of the runs before
they were proved. Sums, powers and flattened lists are recursive functions; the
induction over their length is `NatSetInduction`, for a set of numbers.

Only model-checked: `NobodyIsTrapped`, as liveness under fairness is out of the
prover's reach. The four statements the code does not keep are refuted by TLC's
counterexamples.

## What is not modelled

- The Metaplex program: of it is kept that a new metadata account is paid for by
  the payer it is given. Names, symbols and addresses of the metadata are left out.
- Addresses in `StakePool`: seeds, bumps and account checks are identities, and only
  accepted lists of accounts occur; they are the subject of `ClientTransactions`,
  where an address is what it is derived from and bumps and mint decimals are left
  out. A staking token that is also a reward mint, or reward
  tokens that are the stake mint, and holders burning stake mint tokens outside
  the program, are left out; the last is assumed by `StakeMintCoversReceipts`.
- Rent, lamports, `creator` and `nonce` fields of the pool's account in
  `StakePool`; the decimals of the stake mint are in `ClientMath` only.
- Lockups over 2^63 seconds, which make `validate_unlocked` panic
  (`state.rs:368`): the clock never passes the end of one either.
- Error codes and texts of the published interface; the program of version 0, of
  which the repository has only the interface; the tests, the migration and the
  build files.
- The SDK's calls fail when the node does; retries are left to their callers.
- `lib.rs:53` calls the flag 4 PLACEHOLDER_B; `state.rs:136` and the code make it
  DISABLE_DEPOSITS. The model follows the code.

## Plan

1. Done: the arithmetic, the pool with all its instructions, the environment, the
   invariants, step properties and liveness, the inductive invariant and its
   proof; the SDK's scans, arithmetic and builders, and the proofs about the first
   two.
2. Done: the abstract specifications `Escrow` and `RewardLedger` and the proofs that
   the pool implements them; the published interfaces, the transactions of the
   authority and of `update_token_meta`, the layouts behind the fetch by time frame.
   That `claim_all` leaves nothing to claim (`lib.rs:86-88`) became part of
   `KeepsRewardLedger`, whose `Pay` clears the credit.
3. Done: proofs of every invariant and step property that the passing runs check:
   the room of the stake mint, the fetch by time frame for any number of addresses,
   the transactions for any number of slots.
4. Left: shorter proofs of the sequence lemmas in `ClientTransactionsProofs`, and a
   second reading of the hazards against the theorems.
