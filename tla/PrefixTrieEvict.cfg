SPECIFICATION Spec
CONSTANTS
    a = a
    ab = ab
    abc = abc
    ad = ad
    Texts <- ForkTexts
    Below <- ForkBelow
    Anchors = {}
    Procs = {p}
    Ops = {"save", "evict", "prune"}
    Faults = FALSE
    None = None
    Absent = Absent
    NoFile = NoFile
    NoTxn = NoTxn
INVARIANT BinCoversNode
