\* Up to three messages in three streams of two categories.
SPECIFICATION Spec
CONSTANTS
    Null = Null
    MaxHash = 127
    Hash = Null
    id1 = id1
    id2 = id2
    id3 = id3
    id4 = id4
    Ids = {id1, id2, id3, id4}
    Streams <- FuzzStreams
    Types = {t1, t2}
    Correlations <- FuzzCorrelations
    NoVersion = NoVersion
    Positions <- FuzzPositions
    BatchSizes <- FuzzBatchSizes
    MaxMessages = 3
SYMMETRY Symmetry
INVARIANTS
    WritesAsModelled
    VersionAsModelled
    StreamReadAsModelled
    CategoryReadAsModelled
    LastReadAsModelled
