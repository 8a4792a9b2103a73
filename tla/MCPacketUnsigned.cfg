SPECIFICATION FairSpec
CONSTANTS
    BYTE = 8
    CharSigned = FALSE
    MaxData = 34
    MaxOpt = 18
    OptId <- MCTagOptId
    Value <- MCValue
    Header <- MCOneHeader
    MaxAdds = 2
    MaxGets = 1
INVARIANTS
    SeekInside
    EndTagNoticed
PROPERTIES
    SeekAdvances
    SeekEnds
CHECK_DEADLOCK FALSE
