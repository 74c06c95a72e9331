SPECIFICATION Spec
INVARIANTS
    CutsDoNotMatter
    FalseAlarmLeavesNoTrace
    StreamMatchesParse
    LookupFindsWhatWasStored
    LogitsAreRight
    KeysCountOnce
CHECK_DEADLOCK FALSE
