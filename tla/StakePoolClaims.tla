--------------------------- MODULE StakePoolClaims ---------------------------
(***************************************************************************)
(* A sentence of the program's comments, taken at its word, that the       *)
(* program does not keep: a run finds the counterexample.                  *)
(***************************************************************************)
EXTENDS StakePoolProperties

\* "This will allow the first depositor to collect all of the rewards
\* accumulated thus far" (state.rs:194-195): whoever deposits into an empty pool
\* can claim what its reward vaults hold, up to the truncation of one refresh.
\* Tokens already counted in last_amount stay behind.
FirstDepositorCollectsAll ==
    [][\A r \in Receipts :
          ~ receipts[r].open /\ receipts'[r].open /\ total_weighted_stake = 0 =>
              \A i \in Slots : ~ IsEmpty(reward_pools[i]) =>
                  LET stake == receipts'[r].effective_stake
                      held  == reward_vaults[reward_pools[i].reward_vault]
                  IN  stake > 0 =>
                        Entitlement(r, i)' >= held - 1 - stake \div SCALE_FACTOR_BASE_SQUARED
      ]_vars

=============================================================================
