SPECIFICATION Spec
CONSTANTS
    a = a
    ab = ab
    abc = abc
    ad = ad
    Texts <- ChainTexts
    Below <- ChainBelow
    Anchors = {}
    Procs = {p, q}
    Ops = {"save", "evict", "add", "prune"}
    Faults = TRUE
    None = None
    Absent = Absent
    NoFile = NoFile
    NoTxn = NoTxn
INVARIANT ParentIsPrefix
