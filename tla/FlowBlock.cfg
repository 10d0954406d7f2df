SPECIFICATION Spec
CONSTANTS
    Block = {b1, b2, b3}
    SpanLabel = {loop}
    DefaultSwitch = default
    CreateFlags = {"switch_out"}
    MaxEdges = 4
CONSTRAINT Smaller
SYMMETRY Symmetry
INVARIANTS
    Mirror
    NoDangling
    LabelsAgree
PROPERTIES
    RewiringKeepsSlots
    RemovalsShrink
CHECK_DEADLOCK FALSE
