\* Two connections whose calls may be interrupted, and whose ROLLBACKs may
\* fail: liveness, and the inductive invariant of the proofs.
SPECIFICATION FairSpec
CONSTANTS
    c1 = c1
    c2 = c2
    id1 = id1
    id2 = id2
    account = account
    NoConn = NoConn
    NoCall = NoCall
    NoVersion = NoVersion
    Conns <- TwoConns
    Streams <- OneStream
    Ids = {id1}
    ExpectedVersions = {}
    Interrupts = TRUE
    RollbackFails = TRUE
INVARIANTS
    StoreInv
PROPERTIES
    CallReturns
