SPECIFICATION FairSpec
CONSTANTS
    SCALE_FACTOR_BASE = 2
    U64_MAX = 4
    U128_MAX = 16
    RADIX = 2
    alice = alice
    bob = bob
    gold = gold
    Accounts = {alice, bob}
    Vault = vault
    RewardMints = {gold}
    NoKey = none
    MAX_REWARD_POOLS = 1
    NumReceipts = 2
    ReceiptOwner <- TwoOwners
    PoolConfigs <- MCPoolConfigs
    FlagChoices <- MCFlags
    MintWhitelisted = FALSE
    Amounts = {1}
    LockupDurations = {1, 2}
    InitialTokens <- MCInitialTokens
    RewardSupply <- OneEach
    MaxTime = 1
PROPERTIES
    NobodyIsTrapped
