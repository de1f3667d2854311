SPECIFICATION ContentSpec
CONSTANTS
    a = a
    ab = ab
    abc = abc
    d = d
    Requests = {r1, r2}
    Slots = {s0, s1}
    DefaultSlot = s0
    Lookups = {"node", "anchor"}
    MaxAnchors = 1
    Rounds = 1
    None = None
    NoLock = NoLock
    Free = Free
    Texts <- SomeTexts
    Below <- SomeBelow
    Length <- SomeLength
    Anchors = {a}
    Cuts <- SomeCuts
    Readable = TRUE
    OldRows <- SharedFile
    Empty = Empty
SYMMETRY RequestSymmetry
INVARIANTS ContentTypeOK RecordFitsUser NamedContent StoredCoversNode RoutedRowStays
CHECK_DEADLOCK FALSE
