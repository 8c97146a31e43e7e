SPECIFICATION Spec
CONSTANTS
    Txns = {t1, t2}
    Keys = {1}
    Values = {v1}
    NoValue = NoValue
    Untouched = Untouched
    MaxOpen = 2
    MaxFootprint = 2
    MaxRestarts = 0
SYMMETRY Symmetry
INVARIANT ConflictFreeIffUnwritten
