\* A follower of a stream and one of a category and a correlation.
SPECIFICATION Spec
CONSTANTS
    r1 = r1
    r2 = r2
    Null = Null
    NoCursor = NoCursor
    NoTransaction = NoTransaction
    Transactions = TRUE
    Readers = {r1, r2}
    Query <- FollowerQuery
    Streams <- CorrelatedStreams
    Correlations <- SomeCorrelations
    MaxHash = 7
    Hash <- Hashes
    MaxLog = 3
INVARIANTS
    NoneSkipped
    ShortBatchCaughtUp
