\* One connection and an interrupt.
SPECIFICATION Spec
CONSTANTS
    c1 = c1
    c2 = c2
    id1 = id1
    id2 = id2
    account = account
    NoConn = NoConn
    NoCall = NoCall
    NoVersion = NoVersion
    Conns = {c1}
    Streams <- OneStream
    Ids = {id1}
    ExpectedVersions = {}
    Interrupts = TRUE
    RollbackFails = FALSE
INVARIANTS
    AckedDurable
