SPECIFICATION ServerSpec
CONSTANTS
    c1 = c1
    c2 = c2
    c3 = c3
    Cell <- MCCell3
    NULL = NULL
    WILD = WILD
    UNINIT = UNINIT
    LOGIN_TIMEOUT = 0
    XID_MOD = 4
    WireId <- MCWireId
    MacRoom = 18
    MaxClients = 3
    MaxTime = 2
    Datagram <- MCDatagram
    SigRoom = 2
    RxRoom = 1
SYMMETRY MCSymmetry
PROPERTIES
    PeerFoundById
CHECK_DEADLOCK FALSE
