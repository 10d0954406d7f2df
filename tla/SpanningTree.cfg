SPECIFICATION FairSpec
CONSTANTS
    N = 4
    MaxOut = 2
    MaxEdges = 5
INVARIANTS
    OrderRight
    LabelsCut
    DominatorsRight
    DeadRemoved
PROPERTY Terminates
