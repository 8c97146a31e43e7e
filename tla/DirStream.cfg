SPECIFICATION Spec
CONSTANTS
    Names = {1, 2, 3, 4}
    list_dir_default_limit = 3
    Rooms = {1, 2, 3}
    MaxOpens = 2
INVARIANT TypeOK
INVARIANT InOrder
INVARIANT OffsetCounts
INVARIANT EndIsComplete
PROPERTY ReadEnds
