SPECIFICATION CodecSpec
CONSTANTS
    Bits <- ScaledBits
    NumericBase = 3
    TicksPerSecond = 2
    NanosPerMicro = 3
    TimestampLimit = 1000000000
    WrittenRows <- AllRows
    ForeignRows <- ForeignCells
    Null = Null
    Err = Err
INVARIANT RowsSurvive
CHECK_DEADLOCK FALSE
