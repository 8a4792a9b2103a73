SPECIFICATION Spec
CONSTANTS
    BYTE = 256
    CharSigned = TRUE
    MaxData = 1024
    MaxOpt = 512
    OptId <- MCKeyOptId
    Value <- MCKeyValue
    Header <- MCKeyHeader
    MaxAdds = 2
    MaxGets = 1
INVARIANTS
    OptionComesBack
CHECK_DEADLOCK FALSE
