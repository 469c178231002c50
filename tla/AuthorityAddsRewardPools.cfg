SPECIFICATION Spec
CONSTANTS
    Clients = {c1, c2}
    Keys = {k1, k2}
    Mints = {gold, silver}
    NoKey = none
    MAX_REWARD_POOLS = 3
INVARIANTS
    AuthorityAddsRewardPools
