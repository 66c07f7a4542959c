CONSTANTS
    NCols = 2
    WordLen = 1
    SchemaLen = 1
    IntMax = 7
    Rows <- TwoBatches
    BlobLens <- TwoLengths
    ReadSchemas <- AnySchema
    Unknown = 0
SPECIFICATION Spec
INVARIANTS EndMeansComplete ReadBackOriginal ReadsAligned FailureHasReason
PROPERTIES QueryEnds ImplementsBatchLog
