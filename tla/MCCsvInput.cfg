CONSTANTS
    NCols = 3
    Cores = 2
    FlushBytes = 2
    TargetBytes = 3
    NotifySize = 2
    MaxWindows = 3
    MaxRows = 5
    Inputs <- MCInputs
    Feeds <- MCFeeds
SPECIFICATION MCSpec
INVARIANTS RowsConserved ParserNotShared SleeperHasWaker TooLargeIsTrue OnlyATailIsLost CleanRowsDelivered ColumnsInOrder PartialLossDetected BuffersBounded
PROPERTIES ReaderReleased
CHECK_DEADLOCK FALSE
