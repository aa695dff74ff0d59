\* Two connections write two messages to one stream.
SPECIFICATION Spec
CONSTANTS
    c1 = c1
    c2 = c2
    id1 = id1
    id2 = id2
    account = account
    NoConn = NoConn
    NoCall = NoCall
    NoVersion = NoVersion
    Conns <- TwoConns
    Streams <- OneStream
    Ids <- TwoIds
    ExpectedVersions <- EarlyVersions
    Interrupts = FALSE
    RollbackFails = FALSE
SYMMETRY Symmetry
INVARIANTS
    TypeOK
    StoreWellFormed
    PositionFree
    DecisionCurrent
    ImmediateSuffices
    AckedDurable
    CompareAndSwap
    BatchPending
    NothingLeftOpen
    NoSilentWrite
PROPERTIES
    AppendOnly
    ImplementsLog
