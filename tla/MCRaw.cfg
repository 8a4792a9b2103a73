SPECIFICATION RawSpec
CONSTANTS
    m1 = m1
    m2 = m2
    BYTE = 8
    RAW_FRAME_LENGTH = 48
    VersionWord = 37
    TtlWord = 57
    Address <- MCAddress
    Mac <- MCMac
    BroadcastMac = BroadcastMac
    NoMac = NoMac
    Data <- MCData
    None = None
INVARIANTS
    RawTypeOK
    HeaderVerifies
    FrameExact
PROPERTIES
    FrameAddressed
