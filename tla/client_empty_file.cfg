CONSTANTS
    ChunkSize = 2
    DefaultLength = 8
    WordSize = 16
    Devices <- EmptyFile
    Shapes <- KeepOnly
    MaxRequests = 2
    Pipelining = FALSE
    PartialWrites = FALSE
SPECIFICATION Spec
PROPERTY KeepAliveHonoured
