CONSTANTS
    MaxCalls = 3
    PipeSize = 2
    MaxNoise = 2
    p = p
    q = q
    tool = tool
    merge = merge
    f = f
    g = g
    h = h
    Payload = {p, q}
    Event = {tool, merge}
    Plugin <- MCPlugin
    MaxInstalls = 3
    MaxRuns = 2
    File = {f, g, h}
    Candidates <- MCCandidates
    MaxLines = 2
    t1 = t1
    t2 = t2
    Task = {t1, t2}
    Events <- MCEvents
    Recent = 1
    MaxTokens = 14
    CompactAt = 80
    Target = 50
    SummarySize = 5
    MaxEvents = 4
    MaxFaults = 1
    MaxEntries = 4
    MaxKills = 2
    Output <- MCOutput
    Path = {"a.rs", "b.rs"}
    Commands = 2
    MaxVerified = 1
SPECIFICATION Spec
CHECK_DEADLOCK FALSE
INVARIANTS AnswersMatch HooksAnswer ImportsOnce NothingForgotten HighlightsTold LatestStay
           FlushedIsRead GateTolerates
PROPERTIES CallReturns
