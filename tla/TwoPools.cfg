SPECIFICATION Spec
CONSTANTS
    SCALE_FACTOR_BASE = 2
    U64_MAX = 4
    U128_MAX = 16
    RADIX = 2
    alice = alice
    bob = bob
    gold = gold
    silver = silver
    Accounts = {alice}
    Vault = vault
    RewardMints = {gold, silver}
    NoKey = none
    MAX_REWARD_POOLS = 2
    NumReceipts = 2
    ReceiptOwner <- OneOwner
    PoolConfigs <- MCPoolConfigs
    FlagChoices = {{}}
    MintWhitelisted = FALSE
    Amounts = {1}
    LockupDurations = {0}
    InitialTokens <- TwoTokens
    RewardSupply <- OneEach
    MaxTime = 0
INVARIANTS
    PoolInvariant
    ReceiptsNeverStuck
PROPERTIES
    KeepsRewardLedger
