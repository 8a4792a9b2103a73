SPECIFICATION FairClientSpec
CONSTANTS
    XID_MOD = 2
    Datagram <- MCDatagram
    Raised <- MCRaised
    SigRoom = 2
    RxRoom = 1
    MaxServers = 2
INVARIANTS
    ClientTypeOK
    ReadFindsSignal
PROPERTIES
    ImplementsLoop
    ServerLookupExact
    TermKept
    TermEnds
    PacketRead
CHECK_DEADLOCK FALSE
