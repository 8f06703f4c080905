SPECIFICATION Spec
CONSTANTS
    Days = {1, 2, 3, 4, 5, 6, 7}
    Part <- MCPart
    Param <- MCParam
    Star <- MCStar
    Pattern <- MCPattern
    Path <- MCPath
    Prefix <- MCPrefix
    Starts <- MCStarts
    NoRoute = NoRoute
    MaxGroups = 1
    MaxCalls = 3
    MaxNext = 2
INVARIANTS TypeOK FindsBest RunsInOrder EndsAfterFail PanicsAnswered GroupsApply
PROPERTY NothingLost
CHECK_DEADLOCK FALSE
