SPECIFICATION FairSpec
CONSTANTS
    BYTE = 256
    CharSigned = TRUE
    MaxData = 1024
    MaxOpt = 512
    OptId <- MCKeyOptId
    Value <- MCLoopValue
    Header <- MCKeyHeader
    MaxAdds = 1
    MaxGets = 1
PROPERTIES
    SeekEnds
CHECK_DEADLOCK FALSE
