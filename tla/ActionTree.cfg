SPECIFICATION FairSpec
CONSTANTS
    Node <- MCNode
    Root = "universal"
    Kids <- MCKids
    Flags <- MCFlags
    Break <- MCBreak
    Asker = "infer"
    MaxRestarts = 1
    MaxPlan = 1
    MaxAsk = 2
INVARIANTS
    TraceRight
    RestartsBounded
PROPERTIES
    Terminates
    BreaksUnnoticed
