CONSTANTS
    NoLimit = NoLimit
    NoSkipper = NoSkipper
    NaN = NaN
    MaxCalls = 4
    Scale = 6
    LastSum = 3
    Ten = 2
    TwentyFive = 2
    Hundred = 1
    Thousand = 1
    TenThousand = 1
    HundredThousand = 1
    Like <- MCLike
    Host <- MCHost
    Others <- MCOthers
    Names <- MCNames
    RowsOf <- MCRowsOf
    MaxRows <- MCMaxRows
CHECK_DEADLOCK FALSE
SPECIFICATION QSpec
INVARIANTS AnswersItsSql TwoPassesAreOne AnswersItsPlan NullIsLast NothingReadInVain
PROPERTIES CallsReturn
