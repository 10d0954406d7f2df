SPECIFICATION Spec
CONSTANTS
    Reuse = 8
    Window = 256
    None = None
    DefaultPool = 600
    PoolGrowth = 100
    OffsetModulus = 256
    Programs <- MCDelayedFar
INVARIANTS
    ReuseWindow
