SPECIFICATION ContentSpec
CONSTANTS
    a = a
    ab = ab
    abc = abc
    d = d
    Requests = {r1}
    Slots = {s0, s1}
    DefaultSlot = s0
    Lookups = {"node"}
    MaxAnchors = 0
    Rounds = 3
    None = None
    NoLock = NoLock
    Free = Free
    Texts <- SomeTexts
    Below <- SomeBelow
    Length <- SomeLength
    Anchors = {a}
    Cuts <- SomeCuts
    Readable = TRUE
    OldRows <- SharedFile
    Empty = Empty
INVARIANT SkippedRestoreIsSound
CHECK_DEADLOCK FALSE
