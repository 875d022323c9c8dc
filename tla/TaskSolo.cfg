SPECIFICATION FairSpec
CONSTANTS
    MaxTurns = 4
    StrikeLimit = 3
    NoteCap = 1
    Issues = {i1, i2}
    MaxRepeat = 2
    Kids = {}
    MaxSends = 2
INVARIANTS ThreeStrikesStop
PROPERTIES Returns RegistrySettles LSpec
