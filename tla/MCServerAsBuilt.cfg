SPECIFICATION ServerSpec
CONSTANTS
    c1 = c1
    c2 = c2
    c3 = c3
    Cell <- MCCell3
    NULL = NULL
    WILD = WILD
    UNINIT = UNINIT
    LOGIN_TIMEOUT = 0
    XID_MOD = 2
    WireId <- MCWireId
    MacRoom = 12
    MaxClients = 3
    MaxTime = 2
    Datagram <- MCDatagram
    SigRoom = 2
    RxRoom = 2
SYMMETRY MCSymmetry
INVARIANTS
    OverrunServesOne
CHECK_DEADLOCK FALSE
