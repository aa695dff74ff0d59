\* A condition that is a column of another table.
SPECIFICATION Spec
CONSTANTS
    Numbers <- Boundaries
    MaxGiven = 1
CHECK_DEADLOCK FALSE
INVARIANTS
    ConditionFails
