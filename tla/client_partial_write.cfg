CONSTANTS
    ChunkSize = 2
    DefaultLength = 8
    WordSize = 16
    Devices <- ShortFile
    Shapes <- PlainOnly
    MaxRequests = 1
    Pipelining = FALSE
    PartialWrites = TRUE
SPECIFICATION Spec
PROPERTY NoTruncation
