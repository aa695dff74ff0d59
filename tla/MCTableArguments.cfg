\* Up to two optional arguments; a statement is executed once.
SPECIFICATION Spec
CONSTANTS
    Numbers <- Boundaries
    MaxGiven = 2
CHECK_DEADLOCK FALSE
INVARIANTS
    RowsAsAsked
    NameReachesFilter
    RetrievalDefined
