SPECIFICATION Spec
CONSTANTS
    Requests = {r1, r2, r3}
    Slots = {s0, s1}
    DefaultSlot = s0
    Lookups = {"node", "anchor"}
    MaxAnchors = 1
    Rounds = 1
    None = None
    NoLock = NoLock
    Free = Free
SYMMETRY RequestSymmetry
INVARIANT NoLockCycle
CHECK_DEADLOCK FALSE
