------------------------- MODULE MCStakePoolLiveness -------------------------
(***************************************************************************)
(* The small instance of the liveness run.                                 *)
(***************************************************************************)
EXTENDS StakePoolLiveness, TLC

CONSTANTS alice, bob, gold

MCPoolConfigs == {[max_weight |-> 4, min_duration |-> 0, max_duration |-> 2]}

TwoOwners == 1 :> alice @@ 2 :> bob

MCInitialTokens == alice :> 1 @@ bob :> 1

OneEach == [m \in RewardMints |-> 1]

\* With and without the escape hatch and the stake mint.
MCFlags ==
    {{}, {ESCAPE_HATCH_ENABLED}, {DEPOSIT_IGNORES_LP}, {WITHDRAW_IGNORES_LP}}

=============================================================================
