------------------------- MODULE StakePoolRefinement -------------------------
(***************************************************************************)
(* The pool implements an escrow of its deposits and a ledger of its       *)
(* rewards: the two abstract specifications, read in the pool's state.     *)
(***************************************************************************)
EXTENDS StakePoolProperties

\* The escrow, in the pool's state. Its terms are the durations the pool was
\* created with.
Purses == [a \in Accounts |-> tokens[a]]

Held ==
    [r \in Receipts |->
        [open   |-> receipts[r].open,
         amount |-> receipts[r].deposit_amount,
         until  |-> receipts[r].deposit_timestamp + receipts[r].lockup_duration]]

Terms == IF Initialized THEN config.min_duration..config.max_duration ELSE {}

Hatch == ESCAPE_HATCH_ENABLED \in flags

Deposits == INSTANCE Escrow WITH
    Holders <- Accounts, purses <- Purses, pot <- tokens[Vault], held <- Held,
    terms <- Terms, now <- clock, hatch <- Hatch

\* The ledger, in the pool's state. A receipt's credit is its stake times the
\* distance of its mark to the accumulator.
Stakes == [r \in Receipts |-> StakeOf(r)]

Credits == [r \in Receipts |-> [i \in Slots |-> Accrued(r, i)]]

LastAmounts == [i \in Slots |-> reward_pools[i].last_amount]

Balances ==
    [i \in Slots |->
        IF IsEmpty(reward_pools[i]) THEN 0 ELSE reward_vaults[reward_pools[i].reward_vault]]

Rewards == INSTANCE RewardLedger WITH
    Unit <- SCALE_FACTOR_BASE_SQUARED, stake <- Stakes, credit <- Credits,
    counted <- LastAmounts, balance <- Balances

\* Every deposit is held until its own lockup ends, or the escape hatch opens,
\* and then paid back once and whole, to whom its owner names: no instruction
\* moves any of these tokens otherwise, and no lockup is shorter or longer than
\* the pool was created for (deposit.rs:94-140, withdraw.rs:49-139).
KeepsEscrow == Deposits!Spec

\* One accumulator per reward pool and one mark per receipt (state.rs:62-76,
\* 206-262; deposit.rs:133; claim_base.rs:56-135) pay every receipt exactly what
\* a ledger would that enters each arrival to every receipt's credit.
KeepsRewardLedger == Rewards!Spec

=============================================================================
