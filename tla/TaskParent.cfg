SPECIFICATION FairSpec
CONSTANTS
    MaxTurns = 4
    StrikeLimit = 2
    NoteCap = 1
    Issues = {}
    MaxRepeat = 1
    Kids = {k1, k2}
    MaxSends = 1
INVARIANTS CompletedAfterKids CompletedIsVerified
PROPERTIES CancelStops
