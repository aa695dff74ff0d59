\* Names of up to seven characters, ids with up to two changes, texts of up to
\* 200 bytes, all 8-bit digests.
SPECIFICATION Spec
CONSTANTS
    Null = Null
    NoUuid = NoUuid
    MaxHash = 127
    Hash = Null
    Characters = {"a", "-", "+"}
    MaxLength = 7
    Replacements = {"-", "4", "7", "8", "A", "b", "B", "C", "F", "g"}
    MaxEdits = 2
    Bytes = {15, 16, 63, 64, 79, 127, 128, 191, 192, 255}
    MaxBytes = 200
    MaxGroup = 5
CHECK_DEADLOCK FALSE
INVARIANTS
    SpansInBounds
    SplitLosesNothing
    IdsAsColumnAccepts
    GeneratedIdsCanonical
    HashOfWholeText
    EveryDigestHasASlot
PROPERTIES
    CompoundsKeepCardinalId
