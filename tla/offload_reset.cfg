SPECIFICATION Spec
SYMMETRY RequestSymmetry
CONSTANTS
    Requests = {r1, r2}
    r1 = r1
    r2 = r2
    NoData = NoData
    NumBlocks = 5
    NumSlots = 4
    TokensPerChunk = 2
    Prompt <- ThreeTokens
    MaxTokens = 7
    MaxJobs = 4
    MaxPreemptions = 0
    MaxResets = 1
    ResetActive = TRUE
INVARIANT StoresReadOwnBlocks
CHECK_DEADLOCK FALSE
