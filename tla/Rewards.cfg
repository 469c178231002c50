SPECIFICATION Spec
CONSTANTS
    SCALE_FACTOR_BASE = 2
    U64_MAX = 4
    U128_MAX = 24
    RADIX = 2
    alice = alice
    bob = bob
    gold = gold
    silver = silver
    Accounts = {alice}
    Vault = vault
    RewardMints = {gold}
    NoKey = none
    MAX_REWARD_POOLS = 1
    NumReceipts = 2
    ReceiptOwner <- OneOwner
    PoolConfigs <- MCPoolConfigs
    FlagChoices = {{}}
    MintWhitelisted = FALSE
    Amounts = {1, 2}
    LockupDurations = {0, 1}
    InitialTokens <- OneStaker
    RewardSupply <- ThreeEach
    MaxTime = 1
INVARIANTS
    TypeOK
    RewardSolvency
    ReceiptsNeverStuck
    StakeMintHasRoom
PROPERTIES
    EntitlementNeverFalls
    NewcomerTakesNothing
    FirstDepositorCollects
    AccumulatorNeverFalls
    KeepsRewardLedger
