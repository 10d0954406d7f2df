SPECIFICATION Spec
CONSTANTS
    Reuse = 3
    Window = 4
    None = None
    DefaultPool = 4
    PoolGrowth = 2
    OffsetModulus = 256
    Programs <- MCPrograms
INVARIANTS
    ContextsOwnDecode
    NextAddressExact
    RootSurvives
    StagingSound
PROPERTIES
    CacheTransparent
