SPECIFICATION Spec
CONSTANTS
    Days = {4, 5, 6, 7}
    Part <- MCPart
    Param <- MCParam
    Star <- MCStar
    Pattern <- MCPattern
    Path <- MCPath
    Prefix <- MCPrefix
    Starts <- MCStarts
    NoRoute = NoRoute
    MaxGroups = 1
    MaxCalls = 2
    MaxNext = 2
INVARIANT FindsInstance
CHECK_DEADLOCK FALSE
