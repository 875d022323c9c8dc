SPECIFICATION Spec
CONSTANTS
    c1 = c1
    c2 = c2
    f1 = f1
    Chains <- OneChain
    Limits = {0, 5}
    Findings <- OneFinding
    NoProgressRounds = 2
    SubAgents = FALSE
INVARIANTS TasksWithinBudget DoomLoopStops
