SPECIFICATION Spec
CONSTANTS
    Txns = {t1, t2}
    Keys = {1, 2}
    Values = {v1}
    NoValue = NoValue
    Untouched = Untouched
    MaxOpen = 1
    MaxFootprint = 2
    MaxRestarts = 1
SYMMETRY Symmetry
INVARIANT ReadsAreCurrent
PROPERTY CommitsAreSerial
PROPERTY ImplementsSnapshotStore
