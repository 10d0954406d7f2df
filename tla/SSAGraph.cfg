SPECIFICATION Spec
CONSTANTS
    o1 = o1
    o2 = o2
    v1 = v1
    v2 = v2
    c1 = c1
    c2 = c2
    Nil = Nil
    Op = {o1, o2}
    Varnode = {v1, v2, c1, c2}
    Constant = {c1, c2}
    SpaceBase = {}
    AutoLive = {}
    LockedInput = {}
    CallOp = {}
    MaxInput = 2
SYMMETRY Symmetry
INVARIANTS
    LinksMirrored
    ConstantReadOnce
    NothingLinkedDies
    QueuedUnread
PROPERTY ReplacesAll
CHECK_DEADLOCK FALSE
