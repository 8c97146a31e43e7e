SPECIFICATION FairSpec
CHECK_DEADLOCK FALSE
CONSTANTS
    TimestampMod = 4
    kEpochTimestampSeconds = 1
    MaxClock = 6
    MaxTurns = 1
    MaxIDs = 3
    MaxRestarts = 1
INVARIANT PlainIDs
INVARIANT OrderKept
PROPERTY CatchesUp
