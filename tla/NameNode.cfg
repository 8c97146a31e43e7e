SPECIFICATION Spec
CONSTANTS
    NoDir = NoDir
    CheckFailed = CheckFailed
    Names = {1, 2}
    Users <- UsersFew
    Modes <- ModesFew
    Limits = {0}
    list_dir_default_limit = 1
    MaxInodeID = 3
    Times = {1}
    MaxCreations = 3
    MaxRestarts = 1
CHECK_DEADLOCK FALSE
INVARIANT TypeOK
INVARIANT ForeignKey
INVARIANT ParentIsOlder
INVARIANT DEntsResolve
INVARIANT DotDotPresent
PROPERTY InodesStay
PROPERTY ImplementsDirTree
