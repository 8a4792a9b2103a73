SPECIFICATION Spec
CONSTANTS
    c1 = c1
    c2 = c2
    c3 = c3
    c4 = c4
    Cell <- MCCell
    NULL = NULL
    WILD = WILD
    UNINIT = UNINIT
    LOGIN_TIMEOUT = 1
    XID_MOD = 3
    WireId <- MCWireId
    MacRoom = 18
    MaxClients = 5
    MaxTime = 4
SYMMETRY MCSymmetry
INVARIANTS
    TypeOK
    NoStaleUse
    ListOrder
    SweepComplete
    NeverEmptyAgain
    SameIdFarApart
PROPERTIES
    LookupExact
    CursorDescends
    ImplementsTable
CHECK_DEADLOCK FALSE
