\* A device that fills up after the last Write and before the stream is closed.
CONSTANTS
    NCols = 1
    WordLen = 1
    SchemaLen = 1
    IntMax = 9
    Rows <- OneBatch
    BlobLens <- OneLength
    ReadSchemas <- OneColumn
    Unknown = 0
SPECIFICATION Spec
INVARIANTS ReturnedMeansWritten
