CONSTANTS
    Conns = {c1, c2, c3}
    WordSize = 4
    NoConn = NoConn
SPECIFICATION FairSpec
INVARIANTS TypeOK ActiveExact PeakExact
PROPERTIES Served DoomedDeleted
