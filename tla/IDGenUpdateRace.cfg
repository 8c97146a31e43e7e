SPECIFICATION Spec
CHECK_DEADLOCK FALSE
CONSTANTS
    TimestampMod = 8
    kEpochTimestampSeconds = 1
    MaxClock = 6
    MaxTurns = 1
    MaxIDs = 4
    MaxRestarts = 0
INVARIANT UniqueIDs
