SPECIFICATION Spec
CONSTANTS
    a = a
    ab = ab
    ad = ad
    x = x
    c1 = c1
    c2 = c2
    Nodes = {a, ab, ad, x}
    Directory <- TwoDirectories
    Below <- Fork
    Sizes = {1, 2}
    Reserves = {0, 2, 5}
    MaxBytes = 4
    MinFree = 1
    Capacity = 6
    Limits = {1}
    None = None
    Absent = Absent
INVARIANT BudgetBoundsDisk
