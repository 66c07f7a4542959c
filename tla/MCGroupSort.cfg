\* Chunks of two rows, or of the limit if it is larger; blocks and strides of two
\* groups. Four rows that are grouped take two of each.
CONSTANTS
    NoLimit = NoLimit
    MinStride = 2
    BlockSize = 2
    Growth = 2
    MaxRows = 4
    MaxGrouped = 4
    Queries <- MCQueries
    Inputs <- MCInputs
    Groupings <- MCGroupings
    Tables <- MCTables
SPECIFICATION MCSpec
INVARIANTS KeepsTheTop GroupsExact ResultExact
