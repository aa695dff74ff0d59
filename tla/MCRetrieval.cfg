\* A consumer group of two members.
SPECIFICATION Spec
CONSTANTS
    r1 = r1
    r2 = r2
    Null = Null
    NoCursor = NoCursor
    NoTransaction = NoTransaction
    Transactions = FALSE
    Readers = {r1, r2}
    Query <- GroupQuery
    Streams <- GroupStreams
    Correlations <- NoCorrelations
    MaxHash = 7
    Hash <- Hashes
    MaxLog = 4
INVARIANTS
    TypeOK
    NoneRepeated
    BatchBounded
    EntitiesStayTogether
