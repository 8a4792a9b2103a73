SPECIFICATION FairPidfileSpec
CONSTANTS
    p1 = p1
    p2 = p2
    p3 = p3
    f1 = f1
    f2 = f2
    Instance <- MCInstance
    Digits <- MCDigits
    File <- MCFile
    NoFile = NoFile
    NoOne = NoOne
INVARIANTS
    PidfileTypeOK
    LoneDaemonNamed
    NothingLeft
    WritersApart
PROPERTIES
    LockPasses
CHECK_DEADLOCK FALSE
