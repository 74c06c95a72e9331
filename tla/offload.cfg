SPECIFICATION Spec
CONSTANTS
    Requests = {r1, r2}
    r1 = r1
    r2 = r2
    NoData = NoData
    NumBlocks = 5
    NumSlots = 4
    TokensPerChunk = 2
    Prompt <- UnevenPrompts
    MaxTokens = 5
    MaxJobs = 3
    MaxPreemptions = 1
    MaxResets = 1
    ResetActive = FALSE
INVARIANTS
    ReadyIsRight
    BlocksAreRight
    CompletionsResolve
    NothingLeftBehind
CHECK_DEADLOCK FALSE
