SPECIFICATION SysSpec
CONSTANTS
    Ops = {1, 2}
    Root = 1
    Ids = {1, 2, 3}
    Names = {1}
    Limits = {0}
    DefaultLimit = 1
    MaxOutside = 1
INVARIANT AnsweredOnce
INVARIANT SeesThePast
INVARIANT OpenDirSeesThePast
INVARIANT InoStaysValid
INVARIANT InoMeansOne
INVARIANT ErrorIsFinal
PROPERTY Answered
PROPERTY DestroyEnds
 
