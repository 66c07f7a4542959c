CONSTANTS
    Workers = {w1, w2}
    HeadSize = 1
    MaxText <- MCMaxText
    LineEnds <- MCLineEnds
    Bytes <- MCBytes
    Inputs <- MCInputs
SPECIFICATION WindowsSpec
INVARIANT NoEmptyRow
