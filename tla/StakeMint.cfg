SPECIFICATION Spec
CONSTANTS
    SCALE_FACTOR_BASE = 2
    U64_MAX = 7
    U128_MAX = 60
    RADIX = 2
    alice = alice
    bob = bob
    gold = gold
    silver = silver
    Accounts = {alice, bob}
    Vault = vault
    RewardMints = {gold}
    NoKey = none
    MAX_REWARD_POOLS = 1
    NumReceipts = 2
    ReceiptOwner <- TwoOwners
    PoolConfigs <- MCPoolConfigs
    FlagChoices <- StakeMintFlags
    MintWhitelisted = TRUE
    Amounts = {1, 2}
    LockupDurations = {0, 2}
    InitialTokens <- TwoStakers
    RewardSupply <- NoneEach
    MaxTime = 1
INVARIANTS
    StakeAccounting
    PrincipalBacked
    StakeMintCoversReceipts
PROPERTIES
    KeepsEscrow
