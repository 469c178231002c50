SPECIFICATION Spec
CONSTANTS
    SCALE_FACTOR_BASE = 5
    U64_MAX = 20
    U128_MAX = 500
    RADIX = 2
    Durations = {0, 1, 2, 5, 7}
    MaxDecimals = 4
INVARIANTS
    WeightFollowsLine
    LongerNeverLighter
    TokenAmountFits
    ClientWeightAgrees
    DecimalsAgree
