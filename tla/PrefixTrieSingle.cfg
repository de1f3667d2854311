SPECIFICATION FairSpec
CONSTANTS
    a = a
    ab = ab
    abc = abc
    ad = ad
    Texts <- TreeTexts
    Below <- TreeBelow
    Anchors = {a}
    Procs = {p}
    Ops = {"save", "materialize", "prune"}
    Faults = FALSE
    None = None
    Absent = Absent
    NoFile = NoFile
    NoTxn = NoTxn
INVARIANTS TypeOK BinCoversNode NoDanglingRow AnchorsAreIndexed
PROPERTY OperationsFinish
