----------------------------- MODULE MCStakePool -----------------------------
(***************************************************************************)
(* The small instances of a stake pool that the runs check.                *)
(***************************************************************************)
EXTENDS StakePoolClaims, StakePoolRefinement, TLC

CONSTANTS alice, bob, gold, silver

\* Weight 1x at the minimum duration, 2x at the maximum.
MCPoolConfigs == {[max_weight |-> 4, min_duration |-> 0, max_duration |-> 1]}

OneOwner == [r \in Receipts |-> alice]

TwoOwners == 1 :> alice @@ 2 :> bob

OneStaker == alice :> 3

TwoTokens == alice :> 2

TwoStakers == alice :> 2 @@ bob :> 1

NoneEach == [m \in RewardMints |-> 0]

OneEach == [m \in RewardMints |-> 1]

ThreeEach == [m \in RewardMints |-> 3]

\* Every deposit mints stake mint tokens; the other flags are free.
StakeMintFlags ==
    {{}, {ESCAPE_HATCH_ENABLED}, {WITHDRAW_IGNORES_LP}, {DISABLE_DEPOSITS}}

=============================================================================
