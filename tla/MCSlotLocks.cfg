SPECIFICATION FairSpec
CONSTANTS
    Requests = {r1, r2}
    Slots = {s0, s1}
    DefaultSlot = s0
    Lookups = {"node", "anchor"}
    MaxAnchors = 1
    Rounds = 2
    None = None
    NoLock = NoLock
    Free = Free
INVARIANTS TypeOK UnstolenExclusive NoBlockedAcquire AcquireFindsLock RoutedSlotNotBusy QuiescentSlotIsFree
PROPERTIES OnlyUserReleases ImplementsLease RequestsFinish
CHECK_DEADLOCK FALSE
