SPECIFICATION FairSpec
CONSTANTS
    Supervisors = {s1, s2}
    MaxSignals = 1
    None = None
INVARIANTS TypeOK OnlyTheUnrecordedStays NoStalePidFile
PROPERTY StackGoesTogether
CHECK_DEADLOCK FALSE
