SPECIFICATION Spec
CONSTANTS
    NoDir = NoDir
    CheckFailed = CheckFailed
    Ids = {2, 3}
    Names = {1, 2}
    Acls <- AclsFew
    Times = {0, 1}
    Base = 3
    Width = 2
    Bytes <- BytesFew
INVARIANT ReadsBack
INVARIANT IndexExact
INVARIANT NoGarbage
INVARIANT ListIsExact
INVARIANT KeysSortAsPairs
