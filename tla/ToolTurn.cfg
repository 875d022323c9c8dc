CONSTANTS
    Calls <- MCCalls
    MaxCalls = 2
    Dialects = {"openai", "anthropic", "gemini"}
    Text = {"a", "b"}
    Start = "a"
    Dimension = {"d1", "d2"}
    FocusCap = 1
    FocusLetters <- MCFocusLetters
    MaxTurns <- MCTurns
    MaxRuns = 3
    MaxSends = 1
SPECIFICATION Spec
CHECK_DEADLOCK FALSE
INVARIANTS ReplyCollected HistoryPaired BatchIsSerial PendingCountsTickets
