CONSTANTS
    d1 = d1
    d2 = d2
    mcp = mcp
    r1 = r1
    a1 = a1
    Outputs <- MCOutputs
    PartsOf <- MCParts
    DecisionOf <- MCDecisions
    Callers = {mcp}
    Drains <- MCDrains
    Kinds <- MCKinds
    MaxEpisodes = 2
    MaxFrames = 2
    MaxProposals = 2
    MaxLines = 2
    MaxStarts = 2
    MaxKills = 1
SPECIFICATION Spec
SYMMETRY Watchers
INVARIANT TypeOK
INVARIANT NothingLost
INVARIANT TurnsOnce
INVARIANT CaptureIsOnce
INVARIANT ProposedOnce
INVARIANT FiledWhereMeant
CHECK_DEADLOCK FALSE
