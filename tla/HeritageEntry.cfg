SPECIFICATION Spec
CONSTANTS
    Graphs <- MCEntryGraphs
    Programs <- MCEntryPrograms
    Spaces <- MCSpaces
    Delay <- MCDelay
    SpaceSize = 12
    Unaffected <- MCUnaffected
    Killed <- MCRet
    Params <- MCParams
    Ret <- MCRet
    AutoKilled = FALSE
    Persist <- MCPersist
    MaxPass = 3
    MaxSteps = 5
INVARIANT ReadsAgree
