SPECIFICATION Spec
CONSTANTS
    BYTE = 8
    CharSigned = TRUE
    MaxData = 34
    MaxOpt = 18
    OptId <- MCOptId
    Value <- MCValue
    Header <- MCHeader
    MaxAdds = 2
    MaxGets = 1
INVARIANTS
    TypeOK
    HeaderKept
    LayoutExact
    OptionReadBack
CHECK_DEADLOCK FALSE
