\* Liveness of the consumer group.
SPECIFICATION FairSpec
CONSTANTS
    r1 = r1
    r2 = r2
    Null = Null
    NoCursor = NoCursor
    NoTransaction = NoTransaction
    Transactions = FALSE
    Readers = {r1, r2}
    Query <- GroupQuery
    Streams <- EntityStreams
    Correlations <- NoCorrelations
    MaxHash = 7
    Hash <- Hashes
    MaxLog = 3
PROPERTIES
    EveryMessageHandled
