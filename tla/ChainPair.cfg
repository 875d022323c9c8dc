SPECIFICATION FairSpec
CONSTANTS
    c1 = c1
    c2 = c2
    f1 = f1
    Chains <- TwoChains
    Limits = {1}
    Findings <- NoFindings
    NoProgressRounds = 1
    SubAgents = TRUE
INVARIANTS NoSharedTask
PROPERTIES ChainsSpec ChainEnds
