CONSTANTS
    NCols = 2
    Cores = 2
    FlushBytes = 2
    TargetBytes = 3
    NotifySize = 2
    MaxWindows = 3
    MaxRows = 4
    Inputs <- MCInputs
    Feeds <- MCFeeds
SPECIFICATION MCSpec
INVARIANTS BadTextThrows
CHECK_DEADLOCK FALSE
