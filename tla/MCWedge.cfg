CONSTANTS
    d1 = d1
    d2 = d2
    mcp = mcp
    r1 = r1
    a1 = a1
    Outputs <- MCOutputs
    PartsOf <- MCParts
    DecisionOf <- MCDecisions
    Callers = {}
    Drains = {d1}
    Kinds <- MCTurns
    MaxEpisodes = 3
    MaxFrames = 2
    MaxProposals = 2
    MaxLines = 1
    MaxStarts = 3
    MaxKills = 1
SPECIFICATION WatchedSpec
PROPERTY EveryLineIsCaptured
CHECK_DEADLOCK FALSE
