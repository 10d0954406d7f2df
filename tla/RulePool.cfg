SPECIFICATION FairSpec
CONSTANTS
    MaxSeq = 2
    Code = {"ADD", "COPY"}
    perOp <- Rules2
    Disabled = {"order"}
    Breaks = {"collapse"}
    Budget = 2
INVARIANTS
    PoolAtRest
    NoRuleOnDead
PROPERTY Terminates
