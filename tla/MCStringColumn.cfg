\* Blocks of 3 instead of 1024, and no slack: the room asked for is the room needed.
CONSTANTS
    Null = Null
    Char = {0, 1, 2}
    Block = 3
    Slack = 0
    Spare = 0
    MaxRow = 3
    MaxRows = 2
    MaxBytes = 6
    Columns <- MCColumns
    Files <- MCFiles
CHECK_DEADLOCK FALSE
SPECIFICATION Spec
INVARIANTS RoundTrip RefusesExactly StaysInBounds
